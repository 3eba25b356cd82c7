--------------------------- MODULE DirTree_proofs ---------------------------
(***************************************************************************)
(* Theorems about DirTree, for every file system that is a finite tree, at *)
(* whatever depth, every command line, and any number of failing calls.    *)
(*                                                                         *)
(* The argument is about the walk over one directory given by the user, of *)
(* which the stack of calls of processDir is a path down the tree: an      *)
(* entry is pending if one of these calls has still to come to it.         *)
(***************************************************************************)
EXTENDS DirTree, FiniteSetTheorems, SequenceTheorems, WellFoundedInduction,
        TLAPS

-----------------------------------------------------------------------------
IsSeq(s) == s \in Seq({s[j] : j \in DOMAIN s})

(* q is somewhere below p, on the way through the given name.              *)
Under(p, q) == /\ 1 <= Len(p) /\ Len(p) < Len(q)
               /\ \A m \in 1 .. Len(p) : p[m] = q[m]
Through(p, q) == q[Len(p) + 1]

(* Before and Reference, for any tree t.                                   *)
Dir(t, p) == t[p].type = "dir"
Precedes(t, p, q) ==
  \/ Under(p, q)
  \/ \E m \in 1 .. Len(p) :
       /\ m <= Len(q) /\ p[m] /= q[m]
       /\ \A l \in 1 .. m - 1 : p[l] = q[l]
       /\ \/ Dir(t, SubSeq(p, 1, m)) /\ ~Dir(t, SubSeq(q, 1, m))
          \/ /\ Dir(t, SubSeq(p, 1, m)) = Dir(t, SubSeq(q, 1, m))
             /\ p[m] < q[m]

(* What scandir promises: the directory's entries and the dots, each once, *)
(* in the order of dirent_compare.                                         *)
Dots == {Dot, DotDot}
Folder(t, dir, a) == a \in Dots \/ Dir(t, Append(dir, a))
InOrder(t, dir, a, b) ==
  \/ Folder(t, dir, a) /\ ~Folder(t, dir, b)
  \/ (Folder(t, dir, a) <=> Folder(t, dir, b)) /\ a < b
Sorted(t, dir, e) ==
  /\ IsSeq(e)
  /\ \A j \in DOMAIN e :
       e[j] \in Int /\ (e[j] \in Dots \/ Append(dir, e[j]) \in DOMAIN t)
  /\ \A q \in DOMAIN t : Under(dir, q) =>
       \E j \in DOMAIN e : e[j] = Through(dir, q)
  /\ \E j \in DOMAIN e : e[j] = DotDot
  /\ \A j, l \in DOMAIN e :
       j < l => e[j] /= e[l] /\ InOrder(t, dir, e[j], e[l])

-----------------------------------------------------------------------------
(* The calls of processDir: from the argument root down, each in the       *)
(* directory that the call before it has just printed, and all but the     *)
(* last with their entries read.                                           *)
Frame(t, f) ==
  /\ f = [dn |-> f.dn, pstr |-> f.pstr, entries |-> f.entries, i |-> f.i]
  /\ f.dn \in Seq(Int) /\ f.i \in Nat
  /\ f.i = 0 => f.entries = <<>>
  /\ f.i > 0 => /\ f.dn \in DOMAIN t /\ Sorted(t, f.dn, f.entries)
                /\ f.i <= Len(f.entries) + 1
Chain(t, root, stk) ==
  /\ IsSeq(stk)
  /\ \A d \in DOMAIN stk :
       /\ Frame(t, stk[d])
       /\ Len(stk[d].dn) = Len(root) + d - 1
       /\ d = 1 => stk[d].dn = root
       /\ d < Len(stk) => stk[d].i > 1
  /\ \A d, e \in DOMAIN stk : d < e =>
       /\ Under(stk[d].dn, stk[e].dn)
       /\ Through(stk[d].dn, stk[e].dn) = stk[d].entries[stk[d].i - 1]

(* Call f has still to come to the entry q, or to one above it.            *)
Awaits(f, q) ==
  /\ Under(f.dn, q)
  /\ \/ f.i = 0
     \/ \E j \in DOMAIN f.entries : f.i <= j /\ f.entries[j] = Through(f.dn, q)
Pending(stk, q) == \E d \in DOMAIN stk : Awaits(stk[d], q)

(* What the lines o say of argument n.                                     *)
Line(o, n, kind) == {j \in DOMAIN o : o[j].arg = n /\ o[j].kind = kind}
Shown(o, n, q) == \E j \in Line(o, n, "entry") : o[j].path = q
Gone(o, n, q) == \E j \in Line(o, n, "gone") : o[j].path = q
Failed(o, n, q) == Gone(o, n, q) \/ \E j \in Line(o, n, "unreadable") : o[j].path = q

Reached(t, root, o, n, q) ==
  /\ q \in DOMAIN t /\ Under(root, q)
  /\ ~Gone(o, n, q)
  /\ \A m \in Len(root) .. Len(q) - 1 : ~Failed(o, n, SubSeq(q, 1, m))

(* The walk over argument n has printed exactly what it has come to, in    *)
(* order, and failed on nothing that it is in.                             *)
Faithful(t, root, stk, o, n) ==
  /\ \A j \in Line(o, n, "entry") :
       Reached(t, root, o, n, o[j].path) /\ ~Pending(stk, o[j].path)
  /\ \A q \in DOMAIN t :
       Reached(t, root, o, n, q) /\ ~Pending(stk, q) => Shown(o, n, q)
  /\ \A j \in Line(o, n, "unreadable") \union Line(o, n, "gone") :
       /\ ~Pending(stk, o[j].path)
       /\ \A d \in DOMAIN stk : o[j].path /= stk[d].dn
Ordered(t, o, n) ==
  \A i, j \in Line(o, n, "entry") : i < j => Precedes(t, o[i].path, o[j].path)

-----------------------------------------------------------------------------
Begun(o, n) == \E j \in DOMAIN o : o[j].arg = n
Types ==
  /\ fs \in Trees
  /\ args \in Seq(Seq(Int))
  /\ arg \in 1 .. Len(args) + 2
  /\ IsSeq(out)
  /\ \A j \in DOMAIN out : out[j].path \in Seq(Int) /\ out[j].arg \in 1 .. arg
Reading(stk) ==
  IF stk /= <<>> /\ stk[Len(stk)].i = 0 THEN Len(stk) - 1 ELSE Len(stk)
Open == dirsOpen = Reading(stack)
Walks ==
  /\ stack = <<>> \/ arg <= Len(args)
  /\ arg <= Len(args) => Chain(fs, args[arg], stack)
Lists ==
  \A n \in DOMAIN args :
    /\ n < arg \/ (n = arg /\ (stack /= <<>> \/ Begun(out, n))) =>
         Faithful(fs, args[n], IF n = arg THEN stack ELSE <<>>, out, n)
    /\ Ordered(fs, out, n)
DirInv == Types /\ Walks /\ Open /\ Lists

-----------------------------------------------------------------------------
(* A set of naturals that is not empty has a least element.                *)
LEMMA Least ==
  ASSUME NEW T \in SUBSET Nat, T /= {}
  PROVE  \E x \in T : \A y \in T : x <= y
<1> DEFINE R == {p \in Nat \X Nat : p[1] < p[2]}
<1>1. R = OpToRel(<, Nat)
  BY DEF OpToRel
<1>2. IsWellFoundedOn(R, Nat)
  BY <1>1, NatLessThanWellFounded
<1>3. \E x \in T : \A y \in T : ~(<<y, x>> \in R)
  BY <1>2, WFMin
<1>4. PICK x \in T : \A y \in T : ~(<<y, x>> \in R)
  BY <1>3
<1>5. ASSUME NEW y \in T
      PROVE  x <= y
  <2>1. x \in Nat /\ y \in Nat /\ ~(<<y, x>> \in R)
    BY <1>4
  <2>2. ~(y < x)
    BY <2>1
  <2> QED
    BY <2>1, <2>2
<1> QED
  BY <1>4, <1>5

(* A sequence over any set is one over its own elements.                   *)
LEMMA OwnElements ==
  ASSUME NEW S, NEW s \in Seq(S)
  PROVE  IsSeq(s)
<1>1. Len(s) \in Nat /\ DOMAIN s = 1 .. Len(s) /\ s \in [1 .. Len(s) -> S]
  BY LenProperties
<1> DEFINE T == {s[j] : j \in DOMAIN s}
<1>2. s \in [1 .. Len(s) -> T]
  BY <1>1
<1>3. s \in Seq(T)
  BY <1>1, <1>2, SeqDef
<1> QED
  BY <1>3 DEF IsSeq

LEMMA Elements ==
  ASSUME NEW s, IsSeq(s)
  PROVE  /\ Len(s) \in Nat /\ DOMAIN s = 1 .. Len(s)
         /\ s = <<>> <=> Len(s) = 0
         /\ s /= <<>> => Len(s) \in DOMAIN s
<1> DEFINE T == {s[j] : j \in DOMAIN s}
<1>1. s \in Seq(T)
  BY DEF IsSeq
<1> HIDE DEF T
<1>2. Len(s) \in Nat /\ DOMAIN s = 1 .. Len(s)
  BY <1>1
<1>3. s = <<>> <=> Len(s) = 0
  BY <1>1, EmptySeq
<1> QED
  BY <1>2, <1>3

LEMMA Appended ==
  ASSUME NEW s, IsSeq(s), NEW e
  PROVE  LET t == Append(s, e)
         IN  /\ IsSeq(t) /\ Len(t) = Len(s) + 1 /\ t[Len(s) + 1] = e
             /\ \A j \in 1 .. Len(s) : t[j] = s[j]
<1> DEFINE T == {s[j] : j \in DOMAIN s}
           U == T \union {e}
<1>1. s \in Seq(T)
  BY DEF IsSeq
<1> HIDE DEF T
<1>2. s \in Seq(U) /\ e \in U
  BY <1>1, SeqMonotonic
<1> HIDE DEF U
<1>3. /\ Append(s, e) \in Seq(U) /\ Len(Append(s, e)) = Len(s) + 1
      /\ Append(s, e)[Len(s) + 1] = e
      /\ \A j \in 1 .. Len(s) : Append(s, e)[j] = s[j]
  BY <1>2, AppendProperties
<1> QED
  BY <1>3, OwnElements

LEMMA Popped ==
  ASSUME NEW s, IsSeq(s), s /= <<>>
  PROVE  LET t == Front(s)
         IN  /\ IsSeq(t) /\ Len(t) = Len(s) - 1
             /\ \A j \in 1 .. Len(t) : t[j] = s[j]
<1> DEFINE T == {s[j] : j \in DOMAIN s}
<1>1. s \in Seq(T)
  BY DEF IsSeq
<1> HIDE DEF T
<1>2. Len(s) \in Nat \ {0}
  BY Elements
<1>3. PICK t : t = Front(s)
  OBVIOUS
<1>4. t = SubSeq(s, 1, Len(s) - 1)
  BY <1>3 DEF Front
<1>5. \A j \in 1 .. Len(s) - 1 : s[j] \in T
  BY <1>1, <1>2, ElementOfSeq
<1>6. /\ t \in Seq(T) /\ Len(t) = Len(s) - 1
      /\ \A j \in 1 .. Len(t) : t[j] = s[j]
  <2> DEFINE n == Len(s) - 1
  <2>1. n \in Nat /\ n - 1 + 1 = n /\ \A j \in 1 .. n : 1 + j - 1 = j
    BY <1>2
  <2>2. t = SubSeq(s, 1, n) /\ \A j \in 1 .. n : s[j] \in T
    BY <1>4, <1>5
  <2> HIDE DEF n
  <2>3. t \in Seq(T) /\ Len(t) = n /\ \A j \in 1 .. n : t[j] = s[j]
    BY <2>1, <2>2, SubSeqProperties
  <2> QED
    BY <2>3 DEF n
<1>7. IsSeq(t)
  BY <1>6, OwnElements
<1> QED
  BY <1>3, <1>6, <1>7

LEMMA Replaced ==
  ASSUME NEW s, IsSeq(s), NEW l \in DOMAIN s, NEW e
  PROVE  LET t == [s EXCEPT ![l] = e]
         IN  /\ IsSeq(t) /\ Len(t) = Len(s) /\ t[l] = e
             /\ \A j \in DOMAIN s : j /= l => t[j] = s[j]
<1> DEFINE T == {s[j] : j \in DOMAIN s}
           U == T \union {e}
<1>1. s \in Seq(T)
  BY DEF IsSeq
<1>2. s \in Seq(U) /\ e \in U
  BY <1>1, SeqMonotonic
<1> HIDE DEF U, T
<1>3. PICK t : t = [s EXCEPT ![l] = e]
  OBVIOUS
<1>4. t \in Seq(U) /\ Len(t) = Len(s)
  BY <1>2, <1>3, ExceptSeq
<1>5. t[l] = e /\ \A j \in DOMAIN s : j /= l => t[j] = s[j]
  BY <1>3
<1>6. IsSeq(t)
  BY <1>4, OwnElements
<1> QED
  BY <1>3, <1>4, <1>5, <1>6

LEMMA Joined ==
  ASSUME NEW s, IsSeq(s), NEW r, IsSeq(r)
  PROVE  LET t == s \o r
         IN  /\ IsSeq(t) /\ Len(t) = Len(s) + Len(r)
             /\ \A j \in 1 .. Len(s) : t[j] = s[j]
             /\ \A j \in Len(s) + 1 .. Len(t) : t[j] = r[j - Len(s)]
<1> DEFINE S == {s[j] : j \in DOMAIN s}
           R == {r[j] : j \in DOMAIN r}
           U == S \union R
<1>1. s \in Seq(S) /\ r \in Seq(R)
  BY DEF IsSeq
<1> HIDE DEF S, R
<1>2. s \in Seq(U) /\ r \in Seq(U)
  BY <1>1, SeqMonotonic
<1> HIDE DEF U
<1>3. PICK t : t = s \o r
  OBVIOUS
<1>4. /\ t \in Seq(U) /\ Len(t) = Len(s) + Len(r)
      /\ \A j \in 1 .. Len(s) + Len(r) :
           t[j] = IF j <= Len(s) THEN s[j] ELSE r[j - Len(s)]
  BY <1>2, <1>3, ConcatProperties
<1>5. Len(s) \in Nat /\ Len(r) \in Nat
  BY Elements
<1>6. \A j \in 1 .. Len(s) : t[j] = s[j]
  BY <1>4, <1>5
<1>7. \A j \in Len(s) + 1 .. Len(t) : t[j] = r[j - Len(s)]
  BY <1>4, <1>5
<1> QED
  BY <1>3, <1>4, <1>6, <1>7, OwnElements

-----------------------------------------------------------------------------
(* Prefixes of a path.                                                     *)
LEMMA Beginning ==
  ASSUME NEW q \in Seq(Int), NEW m \in 0 .. Len(q)
  PROVE  LET p == SubSeq(q, 1, m)
         IN  /\ p \in Seq(Int) /\ Len(p) = m
             /\ \A l \in 1 .. m : p[l] = q[l]
<1>1. Len(q) \in Nat /\ \A l \in 1 .. m : q[l] \in Int
  BY LenProperties, ElementOfSeq
<1>2. m \in Int /\ m - 1 + 1 = m /\ \A l \in 1 .. m : 1 + l - 1 = l
  BY <1>1
<1> QED
  BY <1>1, <1>2, SubSeqProperties

LEMMA SamePath ==
  ASSUME NEW p \in Seq(Int), NEW q \in Seq(Int), Len(p) = Len(q),
         \A l \in 1 .. Len(p) : p[l] = q[l]
  PROVE  p = q
BY SeqEqual

LEMMA PrefixUnder ==
  ASSUME NEW q \in Seq(Int), NEW p \in Seq(Int)
  PROVE  Under(p, q) <=> \E m \in 1 .. Len(q) - 1 : p = SubSeq(q, 1, m)
<1>1. Len(p) \in Nat /\ Len(q) \in Nat
  OBVIOUS
<1>2. ASSUME Under(p, q) PROVE \E m \in 1 .. Len(q) - 1 : p = SubSeq(q, 1, m)
  <2>1. Len(p) \in 1 .. Len(q) - 1 /\ Len(p) \in 0 .. Len(q)
    BY <1>1, <1>2 DEF Under
  <2>2. PICK r : r = SubSeq(q, 1, Len(p))
    OBVIOUS
  <2>3. /\ r \in Seq(Int) /\ Len(r) = Len(p)
        /\ \A l \in 1 .. Len(p) : r[l] = q[l]
    BY <2>1, <2>2, Beginning
  <2>4. p = r
    BY <1>2, <2>3, SamePath DEF Under
  <2> QED
    BY <2>1, <2>2, <2>4
<1>3. ASSUME NEW m \in 1 .. Len(q) - 1, p = SubSeq(q, 1, m) PROVE Under(p, q)
  <2>1. m \in 0 .. Len(q)
    BY <1>1
  <2>2. Len(p) = m /\ \A l \in 1 .. m : p[l] = q[l]
    BY <1>3, <2>1, Beginning
  <2> QED
    BY <1>1, <2>2 DEF Under
<1> QED
  BY <1>2, <1>3

(* All that an entry is in is in the tree, and is a directory; the names   *)
(* on its path are not the dots, but for the first.                        *)
LEMMA Ancestors ==
  ASSUME NEW t \in Trees, NEW q \in DOMAIN t, NEW m \in 1 .. Len(q)
  PROVE  /\ q \in Seq(Int) /\ SubSeq(q, 1, m) \in DOMAIN t
         /\ m < Len(q) => Dir(t, SubSeq(q, 1, m)) /\ q[m + 1] \notin Dots
<1>1. q \in Seq(Int) /\ Len(q) \in Nat /\ Len(q) > 0
  BY TreesAssumption, LenProperties
<1>2. ASSUME NEW l \in 1 .. Len(q) - 1, SubSeq(q, 1, l + 1) \in DOMAIN t
      PROVE  /\ SubSeq(q, 1, l) \in DOMAIN t /\ Dir(t, SubSeq(q, 1, l))
             /\ q[l + 1] \notin Dots
  <2>1. l \in 0 .. Len(q) /\ l + 1 \in 0 .. Len(q)
    BY <1>1
  <2>2. PICK r : r = SubSeq(q, 1, l + 1)
    OBVIOUS
  <2>3. /\ r \in Seq(Int) /\ Len(r) = l + 1
        /\ \A k \in 1 .. l + 1 : r[k] = q[k]
    BY <1>1, <2>1, <2>2, Beginning
  <2>4. /\ Front(r) \in DOMAIN t /\ Dir(t, Front(r)) /\ Last(r) \notin Dots
    <3>1. Len(r) > 1 /\ r \in DOMAIN t
      BY <1>2, <2>1, <2>2, <2>3
    <3>2. \A p \in DOMAIN t : Len(p) > 1 =>
            /\ Front(p) \in DOMAIN t /\ t[Front(p)].type = "dir"
            /\ Last(p) \notin {Dot, DotDot}
      BY TreesAssumption
    <3> QED
      BY <3>1, <3>2 DEF Dir, Dots
  <2>5. Last(r) = q[l + 1]
    BY <2>1, <2>3 DEF Last
  <2>6. Front(r) = SubSeq(r, 1, l)
    BY <2>3 DEF Front
  <2>7. l \in 0 .. Len(r)
    BY <2>1, <2>3
  <2>8. PICK f : f = SubSeq(r, 1, l)
    OBVIOUS
  <2>9. /\ f \in Seq(Int) /\ Len(f) = l
        /\ \A k \in 1 .. l : f[k] = r[k]
    BY <2>3, <2>7, <2>8, Beginning
  <2>10. PICK g : g = SubSeq(q, 1, l)
    OBVIOUS
  <2>11. /\ g \in Seq(Int) /\ Len(g) = l
         /\ \A k \in 1 .. l : g[k] = q[k]
    BY <1>1, <2>1, <2>10, Beginning
  <2>12. ASSUME NEW k \in 1 .. l PROVE f[k] = g[k]
    <3>1. k \in 1 .. l + 1
      BY <2>1
    <3>2. f[k] = r[k] /\ r[k] = q[k] /\ g[k] = q[k]
      BY <2>3, <2>9, <2>11, <3>1
    <3> QED
      BY <3>2
  <2>13. f = g
    BY <2>9, <2>11, <2>12, SamePath
  <2> QED
    BY <2>4, <2>5, <2>6, <2>8, <2>10, <2>13
<1>3. SubSeq(q, 1, Len(q)) = q
  BY <1>1, SubSeqFull
<1> DEFINE T == {k \in 0 .. Len(q) - 1 : SubSeq(q, 1, Len(q) - k) \notin DOMAIN t}
<1>4. T = {}
  <2> SUFFICES ASSUME T /= {} PROVE FALSE
    OBVIOUS
  <2>1. T \in SUBSET Nat
    BY <1>1
  <2>2. PICK k \in T : \A y \in T : k <= y
    BY <2>1, Least
  <2>3. k /= 0
    <3>1. SUFFICES ASSUME k = 0 PROVE FALSE
      OBVIOUS
    <3>2. Len(q) - k = Len(q)
      BY <1>1, <3>1
    <3>3. SubSeq(q, 1, Len(q) - k) \in DOMAIN t
      BY <1>3, <3>2
    <3> QED
      BY <3>3
  <2>4. k - 1 \in 0 .. Len(q) - 1 /\ k - 1 < k /\ k \in 1 .. Len(q) - 1
    BY <1>1, <2>3
  <2>5. SubSeq(q, 1, Len(q) - (k - 1)) \in DOMAIN t
    <3>1. ~(k <= k - 1)
      BY <2>4
    <3>2. k - 1 \notin T
      BY <2>2, <3>1
    <3> QED
      BY <2>4, <3>2
  <2>6. Len(q) - (k - 1) = Len(q) - k + 1 /\ Len(q) - k \in 1 .. Len(q) - 1
    BY <1>1, <2>4
  <2>7. SubSeq(q, 1, Len(q) - k + 1) \in DOMAIN t
    BY <2>5, <2>6
  <2>8. SubSeq(q, 1, Len(q) - k) \in DOMAIN t
    BY <1>2, <2>6, <2>7
  <2> QED
    BY <2>8
<1>5. ASSUME NEW l \in 1 .. Len(q) PROVE SubSeq(q, 1, l) \in DOMAIN t
  <2>1. Len(q) - l \in 0 .. Len(q) - 1 /\ Len(q) - (Len(q) - l) = l
    BY <1>1
  <2> QED
    BY <1>4, <2>1
<1>6. CASE m < Len(q)
  <2>1. m \in 1 .. Len(q) - 1 /\ m + 1 \in 1 .. Len(q)
    BY <1>1, <1>6
  <2> QED
    BY <1>1, <1>2, <1>5, <1>6, <2>1
<1>7. CASE ~(m < Len(q))
  BY <1>1, <1>5, <1>7
<1> QED
  BY <1>6, <1>7

-----------------------------------------------------------------------------
(* Numbering a finite set by how many elements come before each in a total *)
(* order.                                                                  *)
LEMMA Ranking ==
  ASSUME NEW S, IsFiniteSet(S), NEW R,
         \A a \in S : <<a, a>> \notin R,
         \A a, b, c \in S : <<a, b>> \in R /\ <<b, c>> \in R => <<a, c>> \in R,
         \A a, b \in S : a = b \/ <<a, b>> \in R \/ <<b, a>> \in R
  PROVE  LET r == [a \in S |-> Cardinality({b \in S : <<b, a>> \in R})]
             N == Cardinality(S)
         IN  /\ N \in Nat
             /\ \A a \in S : r[a] \in 0 .. N - 1
             /\ \A k \in 0 .. N - 1 : \E a \in S : r[a] = k
             /\ \A a, b \in S : r[a] < r[b] => <<a, b>> \in R
             /\ \A a, b \in S : r[a] = r[b] => a = b
<1> DEFINE B(a) == {b \in S : <<b, a>> \in R}
           r == [a \in S |-> Cardinality(B(a))]
           N == Cardinality(S)
<1>1. N \in Nat
  BY FS_CardinalityType
<1>2. ASSUME NEW a \in S
      PROVE  IsFiniteSet(B(a)) /\ Cardinality(B(a)) \in 0 .. N - 1
  <2>1. B(a) \in SUBSET S /\ a \notin B(a)
    OBVIOUS
  <2>2. IsFiniteSet(B(a)) /\ Cardinality(B(a)) <= N /\ Cardinality(B(a)) /= N
    BY <2>1, FS_Subset
  <2>3. Cardinality(B(a)) \in Nat
    BY <2>2, FS_CardinalityType
  <2> QED
    BY <1>1, <2>2, <2>3
<1>3. ASSUME NEW a \in S, NEW b \in S, <<a, b>> \in R
      PROVE  Cardinality(B(a)) < Cardinality(B(b))
  <2>1. B(a) \in SUBSET B(b) /\ B(a) /= B(b)
    BY <1>3
  <2>2. /\ IsFiniteSet(B(b)) /\ Cardinality(B(a)) \in 0 .. N - 1
        /\ Cardinality(B(b)) \in 0 .. N - 1
    BY <1>2
  <2> HIDE DEF B
  <2>3. /\ Cardinality(B(a)) <= Cardinality(B(b))
        /\ Cardinality(B(a)) /= Cardinality(B(b))
    BY <2>1, <2>2, FS_Subset
  <2> QED
    BY <2>2, <2>3
<1>4. \A a \in S : r[a] = Cardinality(B(a)) /\ r[a] \in 0 .. N - 1
  BY <1>2
<1>5. r \in [S -> 0 .. N - 1]
  BY <1>4
<1> HIDE DEF B, r, N
<1>6. \A a, b \in S : <<a, b>> \in R => r[a] < r[b]
  BY <1>3, <1>4
<1>7. \A a, b \in S : r[a] \in Int /\ r[b] \in Int
  BY <1>4
<1>8. ASSUME NEW a \in S, NEW b \in S, r[a] = r[b] PROVE a = b
  <2>1. ~(r[a] < r[b]) /\ ~(r[b] < r[a])
    BY <1>7, <1>8
  <2> QED
    BY <1>6, <2>1
<1>9. ASSUME NEW a \in S, NEW b \in S, r[a] < r[b] PROVE <<a, b>> \in R
  <2>1. a /= b /\ ~(r[b] < r[a])
    BY <1>7, <1>9
  <2> QED
    BY <1>6, <2>1
<1>10. r \in Injection(S, 0 .. N - 1)
  BY <1>5, <1>8 DEF Injection, IsInjective
<1>11. IsFiniteSet(0 .. N - 1) /\ Cardinality(0 .. N - 1) = N
  <2>1. 0 \in Int /\ N - 1 \in Int
    BY <1>1
  <2>2. /\ IsFiniteSet(0 .. N - 1)
        /\ Cardinality(0 .. N - 1) = IF 0 > N - 1 THEN 0 ELSE N - 1 - 0 + 1
    BY <2>1, FS_Interval
  <2> QED
    BY <1>1, <2>2
<1>12. r \in Surjection(S, 0 .. N - 1)
  BY <1>10, <1>11, FS_Injection DEF N
<1>13. \A k \in 0 .. N - 1 : \E a \in S : r[a] = k
  BY <1>12 DEF Surjection
<1> QED
  BY <1>1, <1>4, <1>8, <1>9, <1>13 DEF r, B, N

(* The names in a directory.                                               *)
LEMMA ChildrenNamed ==
  ASSUME fs \in Trees, NEW dir \in DOMAIN fs
  PROVE  /\ dir \in Seq(Int)
         /\ IsFiniteSet({Last(p) : p \in Children(dir)})
         /\ \A a \in {Last(p) : p \in Children(dir)} :
              a \in Int \ Dots /\ Append(dir, a) \in DOMAIN fs
         /\ \A q \in DOMAIN fs : Under(dir, q) =>
              Through(dir, q) \in {Last(p) : p \in Children(dir)}
<1> DEFINE names == {Last(p) : p \in Children(dir)}
<1>1. dir \in Seq(Int) /\ Len(dir) \in Nat /\ Len(dir) > 0
  BY TreesAssumption, LenProperties
<1>2. IsFiniteSet(names)
  <2>1. Children(dir) \in SUBSET DOMAIN fs /\ IsFiniteSet(DOMAIN fs)
    BY TreesAssumption DEF Children
  <2>2. IsFiniteSet(Children(dir))
    BY <2>1, FS_Subset
  <2> DEFINE f == [p \in Children(dir) |-> Last(p)]
  <2>3. f \in Surjection(Children(dir), names)
    BY DEF Surjection
  <2> HIDE DEF f, names
  <2> QED
    BY <2>2, <2>3, FS_Surjection
<1>3. ASSUME NEW p \in Children(dir)
      PROVE  Last(p) \in Int \ Dots /\ Append(dir, Last(p)) = p
  <2>1. /\ p \in DOMAIN fs /\ p \in Seq(Int) /\ Len(p) = Len(dir) + 1
        /\ Front(p) = dir
    BY TreesAssumption DEF Children
  <2>2. Last(p) \notin Dots
    <3>1. Len(p) > 1
      BY <1>1, <2>1
    <3> QED
      BY <2>1, <3>1, TreesAssumption DEF Dots
  <2>3. Last(p) \in Int
    <3>1. Len(p) \in 1 .. Len(p)
      BY <1>1, <2>1
    <3> QED
      BY <2>1, <3>1, ElementOfSeq DEF Last
  <2>4. PICK r : r = Append(dir, Last(p))
    OBVIOUS
  <2>5. /\ r \in Seq(Int) /\ Len(r) = Len(p) /\ r[Len(p)] = Last(p)
        /\ \A l \in 1 .. Len(dir) : r[l] = dir[l]
    BY <1>1, <2>1, <2>3, <2>4, AppendProperties
  <2>6. dir = SubSeq(p, 1, Len(dir)) /\ Len(dir) \in 0 .. Len(p)
    BY <1>1, <2>1 DEF Front
  <2>7. \A l \in 1 .. Len(dir) : dir[l] = p[l]
    BY <2>1, <2>6, Beginning
  <2>8. ASSUME NEW l \in 1 .. Len(r) PROVE r[l] = p[l]
    <3>1. l \in 1 .. Len(dir) \/ l = Len(p)
      BY <1>1, <2>1, <2>5
    <3> QED
      BY <2>5, <2>7, <3>1 DEF Last
  <2>9. r = p
    BY <2>1, <2>5, <2>8, SamePath
  <2> QED
    BY <2>2, <2>3, <2>4, <2>9
<1>4. \A a \in names : a \in Int \ Dots /\ Append(dir, a) \in DOMAIN fs
  BY <1>3 DEF Children
<1>5. ASSUME NEW q \in DOMAIN fs, Under(dir, q) PROVE Through(dir, q) \in names
  <2>1. q \in Seq(Int) /\ Len(q) \in Nat /\ Len(dir) < Len(q)
    BY <1>5, TreesAssumption, LenProperties DEF Under
  <2>2. PICK m \in Nat : m = Len(dir) + 1
    BY <1>1
  <2>3. m \in 1 .. Len(q) /\ m \in 0 .. Len(q)
    BY <1>1, <2>1, <2>2
  <2>4. PICK p : p = SubSeq(q, 1, m)
    OBVIOUS
  <2>5. /\ p \in Seq(Int) /\ Len(p) = m
        /\ \A l \in 1 .. m : p[l] = q[l]
    BY <2>1, <2>3, <2>4, Beginning
  <2>6. p \in DOMAIN fs
    BY <2>3, <2>4, Ancestors
  <2>7. Front(p) = SubSeq(p, 1, Len(dir)) /\ Len(dir) \in 0 .. Len(p)
    BY <1>1, <2>2, <2>5 DEF Front
  <2>8. PICK r : r = SubSeq(p, 1, Len(dir))
    OBVIOUS
  <2>9. /\ r \in Seq(Int) /\ Len(r) = Len(dir)
        /\ \A l \in 1 .. Len(dir) : r[l] = p[l]
    BY <2>5, <2>7, <2>8, Beginning
  <2>10. ASSUME NEW l \in 1 .. Len(r) PROVE r[l] = dir[l]
    <3>1. l \in 1 .. Len(dir) /\ l \in 1 .. m
      BY <1>1, <2>2, <2>9
    <3>2. dir[l] = q[l]
      BY <1>5, <3>1 DEF Under
    <3> QED
      BY <2>5, <2>9, <3>1, <3>2
  <2>11. r = dir
    BY <1>1, <2>9, <2>10, SamePath
  <2>12. p \in Children(dir)
    BY <2>2, <2>5, <2>6, <2>7, <2>8, <2>11 DEF Children
  <2>13. Last(p) = Through(dir, q)
    BY <2>2, <2>3, <2>5 DEF Last, Through
  <2> QED
    BY <2>12, <2>13
<1> QED
  BY <1>1, <1>2, <1>4, <1>5

(* scandir lists a directory in the order of dirent_compare.               *)
LEMMA ScandirSorts ==
  ASSUME fs \in Trees, NEW dir \in DOMAIN fs
  PROVE  Sorted(fs, dir, scandir(dir))
<1> DEFINE inside == {Last(p) : p \in Children(dir)}
           names == inside \union {Dot, DotDot}
           R == {x \in names \X names : dirent_compare(dir, x[1], x[2])}
           r == [a \in names |-> Cardinality({b \in names : <<b, a>> \in R})]
           Rank(a) == Cardinality({b \in names : dirent_compare(dir, b, a)})
           N == Cardinality(names)
           e == [j \in 1 .. N |-> CHOOSE a \in names : Rank(a) = j - 1]
<1>1. scandir(dir) = e
  BY DEF scandir
<1>2. /\ IsFiniteSet(inside)
      /\ \A a \in inside : a \in Int \ Dots /\ Append(dir, a) \in DOMAIN fs
      /\ \A q \in DOMAIN fs : Under(dir, q) => Through(dir, q) \in inside
  BY ChildrenNamed
<1> HIDE DEF inside
<1>3. \A a \in names : a \in Int /\ (a \in Dots \/ a \in inside)
  BY <1>2, DotsAssumption DEF Dots
<1>4. IsFiniteSet(names)
  <2>1. IsFiniteSet(inside \union {Dot})
    BY <1>2, FS_AddElement
  <2>2. IsFiniteSet((inside \union {Dot}) \union {DotDot})
    BY <2>1, FS_AddElement
  <2>3. names = (inside \union {Dot}) \union {DotDot}
    OBVIOUS
  <2> QED
    BY <2>2, <2>3
<1>5. \A a, b \in names : <<a, b>> \in R <=> dirent_compare(dir, a, b)
  OBVIOUS
<1>6. ASSUME NEW a \in names PROVE r[a] = Rank(a)
  <2>1. {b \in names : <<b, a>> \in R} = {b \in names : dirent_compare(dir, b, a)}
    BY <1>5, <1>6
  <2> QED
    BY <1>6, <2>1
<1> DEFINE D(a) == IsDir(dir, a)
<1>7. \A a \in names : D(a) \in BOOLEAN
  BY DEF IsDir
<1>8. \A a, b \in names :
        <<a, b>> \in R <=> (D(a) /\ ~D(b)) \/ ((D(a) <=> D(b)) /\ a < b)
  <2> TAKE a \in names, b \in names
  <2>1. dirent_compare(dir, a, b) = IF D(a) /= D(b) THEN D(a) ELSE a < b
    BY DEF dirent_compare
  <2>2. D(a) \in BOOLEAN /\ D(b) \in BOOLEAN
    BY <1>7
  <2>3. <<a, b>> \in R <=> dirent_compare(dir, a, b)
    BY <1>5
  <2> HIDE DEF R, names, D
  <2> QED
    BY <2>1, <2>2, <2>3
<1>9. Sorted(fs, dir, e)
  <2> HIDE DEF R, names, D
  <2>1. \A a \in names : <<a, a>> \notin R
    BY <1>3, <1>8
  <2>2. \A a, b, c \in names : <<a, b>> \in R /\ <<b, c>> \in R => <<a, c>> \in R
    <3> TAKE a \in names, b \in names, c \in names
    <3>1. a \in Int /\ b \in Int /\ c \in Int
      BY <1>3
    <3>2. a < b /\ b < c => a < c
      BY <3>1
    <3>3. /\ <<a, b>> \in R <=> (D(a) /\ ~D(b)) \/ ((D(a) <=> D(b)) /\ a < b)
          /\ <<b, c>> \in R <=> (D(b) /\ ~D(c)) \/ ((D(b) <=> D(c)) /\ b < c)
          /\ <<a, c>> \in R <=> (D(a) /\ ~D(c)) \/ ((D(a) <=> D(c)) /\ a < c)
      BY <1>8
    <3> QED
      BY <3>2, <3>3, Zenon
  <2>3. \A a, b \in names : a = b \/ <<a, b>> \in R \/ <<b, a>> \in R
    <3> TAKE a \in names, b \in names
    <3>1. a \in Int /\ b \in Int
      BY <1>3
    <3>2. a < b \/ a = b \/ b < a
      BY <3>1
    <3>3. /\ <<a, b>> \in R <=> (D(a) /\ ~D(b)) \/ ((D(a) <=> D(b)) /\ a < b)
          /\ <<b, a>> \in R <=> (D(b) /\ ~D(a)) \/ ((D(b) <=> D(a)) /\ b < a)
      BY <1>8
    <3> QED
      BY <3>2, <3>3, Zenon
  <2>4. /\ N \in Nat
        /\ \A a \in names : r[a] \in 0 .. N - 1
        /\ \A k \in 0 .. N - 1 : \E a \in names : r[a] = k
        /\ \A a, b \in names : r[a] < r[b] => <<a, b>> \in R
        /\ \A a, b \in names : r[a] = r[b] => a = b
    BY <1>4, <2>1, <2>2, <2>3, Ranking
  <2> HIDE DEF r, N, Rank
  <2>5. ASSUME NEW j \in 1 .. N PROVE e[j] \in names /\ r[e[j]] = j - 1
    <3>1. j - 1 \in 0 .. N - 1
      BY <2>4
    <3>2. \E a \in names : Rank(a) = j - 1
      BY <1>6, <2>4, <3>1
    <3>3. e[j] = CHOOSE a \in names : Rank(a) = j - 1
      OBVIOUS
    <3>4. e[j] \in names /\ Rank(e[j]) = j - 1
      BY <3>2, <3>3, Zenon
    <3> QED
      BY <1>6, <3>4
  <2>6. e \in Seq(names)
    <3>1. e \in [1 .. N -> names] /\ N \in Nat
      BY <2>4, <2>5
    <3> HIDE DEF e
    <3>2. e \in UNION {[1 .. n -> names] : n \in Nat}
      BY <3>1
    <3> QED
      BY <3>2, SeqDef
  <2>7. IsSeq(e) /\ DOMAIN e = 1 .. N
    BY <2>6, OwnElements
  <2> HIDE DEF e
  <2>8. ASSUME NEW j \in DOMAIN e
        PROVE  e[j] \in Int /\ (e[j] \in Dots \/ Append(dir, e[j]) \in DOMAIN fs)
    <3>1. e[j] \in names
      BY <2>5, <2>7
    <3> QED
      BY <1>2, <1>3, <3>1
  <2>9. ASSUME NEW q \in DOMAIN fs, Under(dir, q)
        PROVE  \E j \in DOMAIN e : e[j] = Through(dir, q)
    <3>1. Through(dir, q) \in names
      BY <1>2, <2>9 DEF names
    <3>2. r[Through(dir, q)] \in 0 .. N - 1
      BY <2>4, <3>1
    <3>3. PICK j \in 1 .. N : j = r[Through(dir, q)] + 1
      BY <2>4, <3>2
    <3>4. e[j] \in names /\ r[e[j]] = r[Through(dir, q)]
      BY <2>4, <2>5, <3>2, <3>3
    <3> QED
      BY <2>4, <2>7, <3>1, <3>4
  <2>10. ASSUME NEW j \in DOMAIN e, NEW l \in DOMAIN e, j < l
         PROVE  e[j] /= e[l] /\ InOrder(fs, dir, e[j], e[l])
    <3>1. /\ e[j] \in names /\ r[e[j]] = j - 1
          /\ e[l] \in names /\ r[e[l]] = l - 1
      BY <2>5, <2>7
    <3>2. j \in Int /\ l \in Int
      BY <2>4, <2>7
    <3>3. r[e[j]] < r[e[l]]
      BY <2>10, <3>1, <3>2
    <3>4. <<e[j], e[l]>> \in R /\ e[j] /= e[l]
      BY <2>4, <2>1, <3>1, <3>3
    <3>5. \A a : D(a) <=> Folder(fs, dir, a)
      BY DEF D, IsDir, Folder, Dots, Dir
    <3>6. \/ D(e[j]) /\ ~D(e[l])
          \/ (D(e[j]) <=> D(e[l])) /\ e[j] < e[l]
      BY <1>8, <3>1, <3>4
    <3> QED
      BY <3>4, <3>5, <3>6 DEF InOrder
  <2>11. \E j \in DOMAIN e : e[j] = DotDot
    <3>1. DotDot \in names
      BY DEF names
    <3>2. r[DotDot] \in 0 .. N - 1
      BY <2>4, <3>1
    <3>3. PICK j \in 1 .. N : j = r[DotDot] + 1
      BY <2>4, <3>2
    <3>4. e[j] \in names /\ r[e[j]] = r[DotDot]
      BY <2>4, <2>5, <3>2, <3>3
    <3> QED
      BY <2>4, <2>7, <3>1, <3>4
  <2> QED
    BY <2>7, <2>8, <2>9, <2>10, <2>11 DEF Sorted
<1> QED
  BY <1>1, <1>9

-----------------------------------------------------------------------------
(* Being below.                                                            *)
LEMMA UnderUnder ==
  ASSUME NEW p \in Seq(Int), NEW q \in Seq(Int), NEW r \in Seq(Int),
         Under(p, q), r = q \/ Under(q, r)
  PROVE  Under(p, r) /\ Through(p, r) = Through(p, q)
<1>1. Len(p) \in Nat /\ Len(q) \in Nat /\ Len(r) \in Nat
  OBVIOUS
<1>2. CASE Under(q, r)
  <2>1. Len(p) < Len(q) /\ Len(q) < Len(r) /\ 1 <= Len(p)
    BY <1>2 DEF Under
  <2>2. Len(p) < Len(r) /\ Len(p) + 1 \in 1 .. Len(q)
    BY <1>1, <2>1
  <2>3. ASSUME NEW m \in 1 .. Len(p) PROVE p[m] = r[m]
    <3>1. m \in 1 .. Len(q)
      BY <1>1, <2>1
    <3> QED
      BY <1>2, <3>1 DEF Under
  <2>4. q[Len(p) + 1] = r[Len(p) + 1]
    BY <1>2, <2>2 DEF Under
  <2> QED
    BY <2>1, <2>2, <2>3, <2>4 DEF Under, Through
<1> QED
  BY <1>2

LEMMA Extended ==
  ASSUME NEW p \in Seq(Int), NEW a \in Int
  PROVE  LET r == Append(p, a)
         IN  /\ r \in Seq(Int) /\ Len(r) = Len(p) + 1 /\ r[Len(p) + 1] = a
             /\ \A l \in 1 .. Len(p) : r[l] = p[l]
             /\ Len(p) > 0 => Under(p, r) /\ Through(p, r) = a
<1>1. PICK r : r = Append(p, a)
  OBVIOUS
<1>2. /\ r \in Seq(Int) /\ Len(r) = Len(p) + 1 /\ r[Len(p) + 1] = a
      /\ \A l \in 1 .. Len(p) : r[l] = p[l]
  BY <1>1, AppendProperties
<1>3. Len(p) > 0 => Under(p, r) /\ Through(p, r) = a
  BY <1>2 DEF Under, Through
<1> QED
  BY <1>1, <1>2, <1>3

(* What is below p through a is p extended by a, or is below that.         *)
LEMMA UnderThrough ==
  ASSUME NEW p \in Seq(Int), NEW q \in Seq(Int), Under(p, q)
  PROVE  LET r == Append(p, Through(p, q))
         IN  /\ Through(p, q) \in Int
             /\ r = SubSeq(q, 1, Len(p) + 1)
             /\ q = r \/ Under(r, q)
<1>1. Len(p) \in Nat /\ Len(q) \in Nat /\ 1 <= Len(p) /\ Len(p) < Len(q)
  BY DEF Under
<1>2. Len(p) + 1 \in 1 .. Len(q) /\ Len(p) + 1 \in 0 .. Len(q)
  BY <1>1
<1>3. Through(p, q) \in Int
  BY <1>2, ElementOfSeq DEF Through
<1>4. PICK r : r = Append(p, Through(p, q))
  OBVIOUS
<1>5. /\ r \in Seq(Int) /\ Len(r) = Len(p) + 1 /\ r[Len(p) + 1] = Through(p, q)
      /\ \A l \in 1 .. Len(p) : r[l] = p[l]
  BY <1>3, <1>4, Extended
<1>6. ASSUME NEW l \in 1 .. Len(p) + 1 PROVE r[l] = q[l]
  <2>1. l \in 1 .. Len(p) \/ l = Len(p) + 1
    BY <1>1
  <2> QED
    BY <1>5, <2>1 DEF Under, Through
<1>7. PICK s : s = SubSeq(q, 1, Len(p) + 1)
  OBVIOUS
<1>8. /\ s \in Seq(Int) /\ Len(s) = Len(p) + 1
      /\ \A l \in 1 .. Len(p) + 1 : s[l] = q[l]
  BY <1>2, <1>7, Beginning
<1>9. r = s
  BY <1>5, <1>6, <1>8, SamePath
<1>10. q = r \/ Under(r, q)
  <2>1. CASE Len(q) = Len(p) + 1
    BY <1>5, <1>6, <2>1, SamePath
  <2>2. CASE Len(q) /= Len(p) + 1
    <3>1. Len(r) < Len(q) /\ 1 <= Len(r)
      BY <1>1, <1>5, <2>2
    <3> QED
      BY <1>5, <1>6, <3>1 DEF Under
  <2> QED
    BY <2>1, <2>2
<1> QED
  BY <1>3, <1>4, <1>7, <1>9, <1>10

-----------------------------------------------------------------------------
(* The calls of a chain.                                                   *)
LEMMA ChainFrames ==
  ASSUME NEW t, NEW root, NEW stk, Chain(t, root, stk)
  PROVE  /\ Len(stk) \in Nat /\ DOMAIN stk = 1 .. Len(stk)
         /\ \A d \in DOMAIN stk :
              /\ stk[d].dn \in Seq(Int) /\ stk[d].i \in Nat
              /\ stk[d].i > 0 =>
                   /\ stk[d].dn \in DOMAIN t
                   /\ Sorted(t, stk[d].dn, stk[d].entries)
                   /\ stk[d].i <= Len(stk[d].entries) + 1
                   /\ Len(stk[d].entries) \in Nat
                   /\ DOMAIN stk[d].entries = 1 .. Len(stk[d].entries)
<1>1. IsSeq(stk) /\ \A d \in DOMAIN stk : Frame(t, stk[d])
  BY DEF Chain
<1>2. Len(stk) \in Nat /\ DOMAIN stk = 1 .. Len(stk)
  BY <1>1, Elements
<1>3. ASSUME NEW d \in DOMAIN stk, stk[d].i > 0
      PROVE  /\ Len(stk[d].entries) \in Nat
             /\ DOMAIN stk[d].entries = 1 .. Len(stk[d].entries)
  <2>1. IsSeq(stk[d].entries)
    BY <1>1, <1>3 DEF Frame, Sorted
  <2> QED
    BY <2>1, Elements
<1> QED
  BY <1>1, <1>2, <1>3 DEF Frame

(* A call does not come again to where the next call is.                   *)
LEMMA Passed ==
  ASSUME NEW t, NEW root, NEW stk, Chain(t, root, stk),
         NEW d \in DOMAIN stk, NEW e \in DOMAIN stk, d < e,
         NEW q \in Seq(Int), q = stk[e].dn \/ Under(stk[e].dn, q)
  PROVE  ~Awaits(stk[d], q)
<1>1. /\ Len(stk) \in Nat /\ DOMAIN stk = 1 .. Len(stk)
      /\ stk[d].dn \in Seq(Int) /\ stk[e].dn \in Seq(Int) /\ stk[d].i \in Nat
  BY ChainFrames
<1>2. d < Len(stk)
  BY <1>1
<1>3. /\ stk[d].i > 1 /\ Under(stk[d].dn, stk[e].dn)
      /\ Through(stk[d].dn, stk[e].dn) = stk[d].entries[stk[d].i - 1]
  BY <1>2 DEF Chain
<1>4. stk[d].i > 0
  BY <1>1, <1>3
<1>5. /\ Sorted(t, stk[d].dn, stk[d].entries)
      /\ stk[d].i <= Len(stk[d].entries) + 1
      /\ Len(stk[d].entries) \in Nat
      /\ DOMAIN stk[d].entries = 1 .. Len(stk[d].entries)
  BY <1>4, ChainFrames
<1>6. Through(stk[d].dn, q) = stk[d].entries[stk[d].i - 1]
  BY <1>1, <1>3, UnderUnder
<1>7. ASSUME NEW j \in DOMAIN stk[d].entries, stk[d].i <= j
      PROVE  stk[d].entries[j] /= stk[d].entries[stk[d].i - 1]
  <2>1. stk[d].i - 1 \in DOMAIN stk[d].entries /\ stk[d].i - 1 < j
    <3>1. /\ stk[d].i \in Nat /\ stk[d].i > 1 /\ stk[d].i <= j
          /\ j \in 1 .. Len(stk[d].entries)
      BY <1>1, <1>3, <1>5, <1>7
    <3> QED
      BY <1>5, <3>1
  <2> QED
    BY <1>5, <2>1 DEF Sorted
<1> QED
  BY <1>4, <1>6, <1>7 DEF Awaits

(* Two paths part somewhere, or one is below the other, or they are one.   *)
LEMMA Parting ==
  ASSUME NEW p \in Seq(Int), NEW q \in Seq(Int), NEW m0 \in Nat,
         m0 <= Len(p), m0 <= Len(q), p[m0] /= q[m0], m0 > 0
  PROVE  \E m \in 1 .. Len(p) : /\ m <= Len(q) /\ p[m] /= q[m]
                                /\ \A l \in 1 .. m - 1 : p[l] = q[l]
<1> DEFINE T == {m \in 1 .. Len(p) : m <= Len(q) /\ p[m] /= q[m]}
<1>1. T \in SUBSET Nat /\ m0 \in T
  OBVIOUS
<1>2. PICK m \in T : \A y \in T : m <= y
  BY <1>1, Least
<1>3. ASSUME NEW l \in 1 .. m - 1 PROVE p[l] = q[l]
  <2>0. /\ m \in Nat /\ m <= Len(p) /\ m <= Len(q)
        /\ Len(p) \in Nat /\ Len(q) \in Nat
    BY LenProperties
  <2>1. ~(m <= l) /\ l \in 1 .. Len(p) /\ l <= Len(q)
    <3> HIDE DEF T
    <3>1. l \in Nat /\ 1 <= l /\ l < m
      BY <2>0
    <3> QED
      BY <2>0, <3>1
  <2>2. l \notin T
    BY <1>2, <2>1
  <2> QED
    BY <2>1, <2>2
<1> QED
  BY <1>2, <1>3

(* What the walk has come to comes before what it has still to come to.    *)
LEMMA WalkPrecedes ==
  ASSUME NEW t \in Trees, NEW root, NEW stk, Chain(t, root, stk),
         root \in Seq(Int),
         NEW p \in DOMAIN t, Under(root, p), ~Pending(stk, p),
         NEW q \in DOMAIN t, Under(root, q), Pending(stk, q)
  PROVE  Precedes(t, p, q)
<1>1. /\ p \in Seq(Int) /\ q \in Seq(Int)
      /\ Len(p) \in Nat /\ Len(q) \in Nat /\ Len(root) \in Nat
  BY TreesAssumption, LenProperties
<1>2. /\ Len(stk) \in Nat /\ DOMAIN stk = 1 .. Len(stk)
      /\ \A e \in DOMAIN stk : /\ stk[e].dn \in Seq(Int) /\ stk[e].i \in Nat
                               /\ Len(stk[e].dn) = Len(root) + e - 1
                               /\ e < Len(stk) => stk[e].i > 1
  BY ChainFrames DEF Chain
<1>3. PICK d \in DOMAIN stk : Awaits(stk[d], q)
  BY DEF Pending
<1>4. ~Awaits(stk[d], p)
  BY DEF Pending
<1>5. /\ Under(stk[d].dn, q) /\ Len(stk[d].dn) \in Nat
      /\ Len(stk[d].dn) < Len(q) /\ 1 <= Len(stk[d].dn)
  BY <1>2, <1>3, LenProperties DEF Awaits, Under
(* The call that awaits q would await p too.                               *)
<1>6. ASSUME Len(stk[d].dn) < Len(p),
             \A l \in 1 .. Len(stk[d].dn) + 1 : p[l] = q[l]
      PROVE  FALSE
  <2>1. Len(stk[d].dn) + 1 \in 1 .. Len(stk[d].dn) + 1
    BY <1>5
  <2>2. Through(stk[d].dn, p) = Through(stk[d].dn, q)
    BY <1>6, <2>1 DEF Through
  <2>3. ASSUME NEW l \in 1 .. Len(stk[d].dn) PROVE stk[d].dn[l] = p[l]
    <3>1. l \in 1 .. Len(stk[d].dn) + 1
      BY <1>5
    <3> QED
      BY <1>5, <1>6, <3>1 DEF Under
  <2>4. Under(stk[d].dn, p)
    BY <1>5, <1>6, <2>3 DEF Under
  <2> QED
    BY <1>3, <1>4, <2>2, <2>4 DEF Awaits
<1>7. CASE Under(p, q)
  BY <1>7 DEF Precedes
<1>8. CASE ~Under(p, q)
  <2>1. \E m \in Nat : m > 0 /\ m <= Len(p) /\ m <= Len(q) /\ p[m] /= q[m]
    <3> SUFFICES ASSUME \A m \in Nat : m > 0 /\ m <= Len(p) /\ m <= Len(q)
                                         => p[m] = q[m]
                 PROVE  FALSE
      OBVIOUS
    <3>1. Len(p) >= 1
      BY <1>1 DEF Under
    <3>2. ~(Len(p) < Len(q))
      <4>1. \A m \in 1 .. Len(p) : Len(p) < Len(q) => p[m] = q[m]
        BY <1>1
      <4> QED
        BY <1>8, <3>1, <4>1 DEF Under
    <3>3. Len(stk[d].dn) < Len(p)
      BY <1>1, <1>5, <3>2
    <3>4. ASSUME NEW l \in 1 .. Len(stk[d].dn) + 1 PROVE p[l] = q[l]
      <4>1. l \in Nat /\ l > 0 /\ l <= Len(q) /\ l <= Len(p)
        <5>1. l \in Nat /\ l > 0 /\ l <= Len(stk[d].dn) + 1
          BY <1>5
        <5>2. /\ Len(stk[d].dn) \in Nat /\ Len(p) \in Nat /\ Len(q) \in Nat
              /\ Len(stk[d].dn) < Len(p) /\ Len(stk[d].dn) < Len(q)
          BY <1>1, <1>5, <3>3
        <5> QED
          BY <5>1, <5>2
      <4> QED
        BY <4>1
    <3> QED
      BY <1>6, <3>3, <3>4
  <2>2. PICK m \in 1 .. Len(p) : /\ m <= Len(q) /\ p[m] /= q[m]
                                 /\ \A l \in 1 .. m - 1 : p[l] = q[l]
    BY <1>1, <2>1, Parting
  <2>3. m > Len(root)
    <3> SUFFICES ASSUME m <= Len(root) PROVE FALSE
      BY <1>1
    <3>1. m \in 1 .. Len(root)
      BY <1>1
    <3>2. root[m] = p[m] /\ root[m] = q[m]
      BY <3>1 DEF Under
    <3> QED
      BY <2>2, <3>2
  <2>4. m <= Len(stk[d].dn) + 1
    <3> SUFFICES ASSUME m > Len(stk[d].dn) + 1 PROVE FALSE
      BY <1>1, <1>5
    <3>1. \A l \in 1 .. Len(stk[d].dn) + 1 : l \in 1 .. m - 1
      BY <1>1, <1>5
    <3>2. Len(stk[d].dn) < Len(p)
      BY <1>1, <1>5
    <3> QED
      BY <1>6, <2>2, <3>1, <3>2
  <2>5. PICK e \in DOMAIN stk : e = m - Len(root)
    <3>1. Len(stk[d].dn) = Len(root) + d - 1 /\ d \in 1 .. Len(stk)
      BY <1>2
    <3>2. Len(root) \in Nat /\ m \in Nat /\ Len(stk) \in Nat
      BY <1>1, <1>2
    <3>3. m - Len(root) \in 1 .. Len(stk)
      BY <2>3, <2>4, <3>1, <3>2
    <3> QED
      BY <1>2, <3>3
  <2>6. /\ Len(stk[e].dn) = m - 1 /\ e <= d /\ stk[e].dn \in Seq(Int)
        /\ stk[e].i \in Nat
    <3>1. e \in 1 .. Len(stk) /\ d \in 1 .. Len(stk) /\ e = m - Len(root)
      BY <1>2, <2>5
    <3>2. /\ Len(stk[e].dn) = Len(root) + e - 1
          /\ Len(stk[d].dn) = Len(root) + d - 1
      BY <1>2
    <3>3. Len(root) \in Nat /\ m \in Nat
      BY <1>1
    <3>4. Len(stk[e].dn) = m - 1 /\ e <= d
      BY <2>4, <3>1, <3>2, <3>3
    <3> QED
      BY <1>2, <3>4
  <2> DEFINE dir == stk[e].dn
             names == stk[e].entries
  <2>7. Under(dir, q)
    <3>1. CASE e = d
      BY <1>5, <3>1
    <3>2. CASE e /= d
      <4>1. e < d
        BY <1>2, <2>6, <3>2
      <4>2. Under(dir, stk[d].dn)
        BY <4>1 DEF Chain
      <4> QED
        BY <1>1, <1>2, <1>5, <4>2, UnderUnder
    <3> QED
      BY <3>1, <3>2
  <2>8. Under(dir, p)
    <3>1. 1 <= Len(dir) /\ Len(dir) < Len(p)
      BY <1>1, <2>6, <2>7 DEF Under
    <3>2. ASSUME NEW l \in 1 .. Len(dir) PROVE dir[l] = p[l]
      BY <2>2, <2>6, <2>7 DEF Under
    <3> QED
      BY <3>1, <3>2 DEF Under
  <2>9. Through(dir, p) = p[m] /\ Through(dir, q) = q[m] /\ Len(dir) + 1 = m
    <3>1. Len(dir) + 1 = m
      BY <2>6
    <3> QED
      BY <3>1 DEF Through
  <2>10. ~Awaits(stk[e], p)
    BY DEF Pending
  <2>11. stk[e].i > 0
    BY <2>6, <2>8, <2>10 DEF Awaits
  <2>12. /\ dir \in DOMAIN t /\ Sorted(t, dir, names)
         /\ stk[e].i <= Len(names) + 1
         /\ Len(names) \in Nat /\ DOMAIN names = 1 .. Len(names)
    BY <2>11, ChainFrames
  <2>13. PICK j \in DOMAIN names : names[j] = p[m]
    BY <2>8, <2>9, <2>12 DEF Sorted
  <2>14. ~(stk[e].i <= j)
    BY <2>8, <2>9, <2>10, <2>13 DEF Awaits
  <2>15. \E l \in DOMAIN names : names[l] = q[m] /\ stk[e].i <= l + 1
    <3>1. CASE e = d
      <4>1. PICK l \in DOMAIN names : stk[e].i <= l /\ names[l] = Through(dir, q)
        BY <1>3, <2>6, <2>11, <3>1 DEF Awaits
      <4> QED
        BY <2>6, <2>9, <2>12, <4>1
    <3>2. CASE e /= d
      <4>1. e < d /\ e < Len(stk)
        BY <1>2, <2>6, <3>2
      <4>2. /\ Under(dir, stk[d].dn) /\ stk[e].i > 1
            /\ Through(dir, stk[d].dn) = names[stk[e].i - 1]
        BY <1>2, <4>1 DEF Chain
      <4>3. Through(dir, q) = names[stk[e].i - 1]
        BY <1>1, <1>2, <1>5, <4>2, UnderUnder
      <4>4. PICK l \in DOMAIN names : l = stk[e].i - 1
        BY <2>6, <2>12, <4>2
      <4> QED
        BY <2>6, <2>9, <2>12, <4>3, <4>4
    <3> QED
      BY <3>1, <3>2
  <2>16. PICK l \in DOMAIN names : names[l] = q[m] /\ stk[e].i <= l + 1
    BY <2>15
  <2>17. j < l
    <3>1. j \in Int /\ l \in Int /\ j /= l
      BY <2>2, <2>12, <2>13, <2>16
    <3> QED
      BY <2>6, <2>14, <2>16, <3>1
  <2>18. p[m] \notin Dots /\ q[m] \notin Dots
    <3>1. /\ m - 1 \in 1 .. Len(p) /\ m - 1 < Len(p)
          /\ m - 1 \in 1 .. Len(q) /\ m - 1 < Len(q) /\ m - 1 + 1 = m
      <4>1. m - 1 >= 1
        BY <2>6, <2>7 DEF Under
      <4> QED
        BY <1>1, <2>2, <4>1
    <3>2. p[m - 1 + 1] \notin Dots /\ q[m - 1 + 1] \notin Dots
      BY <3>1, Ancestors
    <3> QED
      BY <3>1, <3>2
  <2>19. /\ Append(dir, p[m]) = SubSeq(p, 1, m)
         /\ Append(dir, q[m]) = SubSeq(q, 1, m)
    BY <1>1, <2>6, <2>7, <2>8, <2>9, UnderThrough
  <2>21. \/ Dir(t, Append(dir, p[m])) /\ ~Dir(t, Append(dir, q[m]))
         \/ /\ Dir(t, Append(dir, p[m])) = Dir(t, Append(dir, q[m]))
            /\ p[m] < q[m]
    <3>1. InOrder(t, dir, names[j], names[l])
      <4> HIDE DEF dir, names
      <4> QED
        BY <2>12, <2>13, <2>16, <2>17 DEF Sorted
    <3>2. Dir(t, Append(dir, p[m])) \in BOOLEAN /\ Dir(t, Append(dir, q[m])) \in BOOLEAN
      BY DEF Dir
    <3> HIDE DEF dir, names
    <3>3. /\ Folder(t, dir, names[j]) <=> Dir(t, Append(dir, p[m]))
          /\ Folder(t, dir, names[l]) <=> Dir(t, Append(dir, q[m]))
      BY <2>13, <2>16, <2>18 DEF Folder
    <3> QED
      BY <2>13, <2>16, <3>1, <3>2, <3>3 DEF InOrder
  <2> QED
    BY <2>2, <2>19, <2>21 DEF Precedes
<1> QED
  BY <1>7, <1>8

-----------------------------------------------------------------------------
(* How the chain changes: the last call turns to its next entry, or reads  *)
(* its directory; calls processDir again; returns.                         *)
LEMMA ChainTurn ==
  ASSUME NEW t, NEW root, NEW stk, Chain(t, root, stk), stk /= <<>>,
         NEW f, Frame(t, f), f.dn = stk[Len(stk)].dn
  PROVE  LET new == [stk EXCEPT ![Len(stk)] = f]
         IN  /\ Chain(t, root, new) /\ Len(new) = Len(stk)
             /\ new[Len(stk)] = f
             /\ \A d \in 1 .. Len(stk) - 1 : new[d] = stk[d]
<1> DEFINE L == Len(stk)
<1>1. IsSeq(stk)
  BY DEF Chain
<1>2. L \in Nat /\ L > 0 /\ DOMAIN stk = 1 .. L /\ L \in DOMAIN stk
  BY <1>1, Elements
<1>3. PICK new : new = [stk EXCEPT ![L] = f]
  OBVIOUS
<1>4. /\ IsSeq(new) /\ Len(new) = L /\ new[L] = f
      /\ \A d \in DOMAIN stk : d /= L => new[d] = stk[d]
  BY <1>1, <1>2, <1>3, Replaced
<1>5. DOMAIN new = 1 .. L
  BY <1>4, Elements
<1>6. \A d \in 1 .. L - 1 : new[d] = stk[d]
  BY <1>2, <1>4
<1>7. \A d \in DOMAIN new : new[d].dn = stk[d].dn
  BY <1>2, <1>4, <1>5
<1>8. ASSUME NEW d \in DOMAIN new
      PROVE  /\ Frame(t, new[d])
             /\ Len(new[d].dn) = Len(root) + d - 1
             /\ d = 1 => new[d].dn = root
             /\ d < Len(new) => new[d].i > 1
  <2>1. d \in DOMAIN stk
    BY <1>2, <1>5
  <2>2. CASE d = L
    BY <1>4, <1>7, <2>1, <2>2 DEF Chain
  <2>3. CASE d /= L
    BY <1>4, <2>1, <2>3 DEF Chain
  <2> QED
    BY <2>2, <2>3
<1>9. ASSUME NEW d \in DOMAIN new, NEW e \in DOMAIN new, d < e
      PROVE  /\ Under(new[d].dn, new[e].dn)
             /\ Through(new[d].dn, new[e].dn) = new[d].entries[new[d].i - 1]
  <2>1. d \in DOMAIN stk /\ e \in DOMAIN stk /\ d /= L
    BY <1>2, <1>5, <1>9
  <2>2. new[d] = stk[d] /\ new[e].dn = stk[e].dn
    BY <1>4, <1>7, <2>1
  <2> QED
    BY <1>9, <2>1, <2>2 DEF Chain
<1>10. Chain(t, root, new)
  BY <1>4, <1>8, <1>9 DEF Chain
<1> QED
  BY <1>3, <1>4, <1>6, <1>10

LEMMA ChainCall ==
  ASSUME NEW t \in Trees, NEW root, NEW stk, Chain(t, root, stk), stk /= <<>>,
         root \in Seq(Int), stk[Len(stk)].i > 1,
         NEW a \in Int, a = stk[Len(stk)].entries[stk[Len(stk)].i - 1],
         NEW f, Frame(t, f), f.i = 0, f.dn = Append(stk[Len(stk)].dn, a)
  PROVE  LET new == Append(stk, f)
         IN  /\ Chain(t, root, new) /\ Len(new) = Len(stk) + 1
             /\ new[Len(stk) + 1] = f
             /\ \A d \in 1 .. Len(stk) : new[d] = stk[d]
<1> DEFINE L == Len(stk)
<1>1. IsSeq(stk)
  BY DEF Chain
<1>2. L \in Nat /\ L > 0 /\ DOMAIN stk = 1 .. L /\ L \in DOMAIN stk
  BY <1>1, Elements
<1>3. PICK new : new = Append(stk, f)
  OBVIOUS
<1>4. /\ IsSeq(new) /\ Len(new) = L + 1 /\ new[L + 1] = f
      /\ \A d \in 1 .. L : new[d] = stk[d]
  BY <1>1, <1>3, Appended
<1>5. DOMAIN new = 1 .. L + 1
  BY <1>4, Elements
<1>6. /\ stk[L].dn \in Seq(Int) /\ stk[L].i \in Nat /\ stk[L].i > 0
      /\ Len(stk[L].dn) = Len(root) + L - 1 /\ Len(root) \in Nat
  <2>1. stk[L].dn \in Seq(Int) /\ stk[L].i \in Nat
    BY <1>2, ChainFrames
  <2>2. Len(stk[L].dn) = Len(root) + L - 1
    BY <1>2 DEF Chain
  <2>3. Len(root) \in Nat /\ stk[L].i > 0
    BY <2>1
  <2> QED
    BY <2>1, <2>2, <2>3
<1>7. stk[L].dn \in DOMAIN t
  BY <1>2, <1>6, ChainFrames
<1>8. Len(stk[L].dn) > 0
  BY <1>6, <1>7, TreesAssumption
<1>9. /\ f.dn \in Seq(Int) /\ Len(f.dn) = Len(stk[L].dn) + 1
      /\ Under(stk[L].dn, f.dn) /\ Through(stk[L].dn, f.dn) = a
  <2>1. PICK p, r : p = stk[L].dn /\ r = Append(p, a)
    OBVIOUS
  <2>2. p \in Seq(Int) /\ Len(p) > 0
    BY <1>6, <1>8, <2>1
  <2>3. /\ r \in Seq(Int) /\ Len(r) = Len(p) + 1
        /\ Under(p, r) /\ Through(p, r) = a
    BY <2>1, <2>2, Extended
  <2>4. f.dn = r
    BY <2>1
  <2> QED
    BY <2>1, <2>3, <2>4
<1>10. ASSUME NEW d \in DOMAIN new
       PROVE  /\ Frame(t, new[d])
              /\ Len(new[d].dn) = Len(root) + d - 1
              /\ d = 1 => new[d].dn = root
              /\ d < Len(new) => new[d].i > 1
  <2>1. CASE d = L + 1
    BY <1>2, <1>4, <1>6, <1>9, <2>1
  <2>2. CASE d /= L + 1
    <3>1. d \in 1 .. L /\ d \in DOMAIN stk /\ new[d] = stk[d]
      BY <1>2, <1>4, <1>5, <2>2
    <3>2. CASE d = L
      BY <3>1, <3>2 DEF Chain
    <3>3. CASE d /= L
      <4>1. d < L
        BY <1>2, <3>1, <3>3
      <4> QED
        BY <3>1, <4>1 DEF Chain
    <3> QED
      BY <3>2, <3>3
  <2> QED
    BY <2>1, <2>2
<1>11. ASSUME NEW d \in DOMAIN new, NEW e \in DOMAIN new, d < e
       PROVE  /\ Under(new[d].dn, new[e].dn)
              /\ Through(new[d].dn, new[e].dn) = new[d].entries[new[d].i - 1]
  <2>1. d \in DOMAIN stk /\ new[d] = stk[d]
    BY <1>2, <1>4, <1>5, <1>11
  <2>2. CASE e = L + 1
    <3>1. CASE d = L
      BY <1>4, <1>9, <2>1, <2>2, <3>1
    <3>2. CASE d /= L
      <4>1. d < L
        BY <1>2, <2>1, <3>2
      <4>2. /\ Under(stk[d].dn, stk[L].dn)
            /\ Through(stk[d].dn, stk[L].dn) = stk[d].entries[stk[d].i - 1]
        BY <1>2, <2>1, <4>1 DEF Chain
      <4>3. stk[d].dn \in Seq(Int)
        BY <2>1, ChainFrames
      <4>4. /\ Under(stk[d].dn, f.dn)
            /\ Through(stk[d].dn, f.dn) = Through(stk[d].dn, stk[L].dn)
        BY <1>6, <1>9, <4>2, <4>3, UnderUnder
      <4> QED
        BY <1>4, <2>1, <2>2, <4>2, <4>4
    <3> QED
      BY <3>1, <3>2
  <2>3. CASE e /= L + 1
    <3>1. e \in DOMAIN stk /\ new[e] = stk[e]
      BY <1>2, <1>4, <1>5, <2>3
    <3> QED
      BY <1>11, <2>1, <3>1 DEF Chain
  <2> QED
    BY <2>2, <2>3
<1>12. Chain(t, root, new)
  BY <1>4, <1>10, <1>11 DEF Chain
<1> QED
  BY <1>3, <1>4, <1>12

LEMMA ChainReturn ==
  ASSUME NEW t, NEW root, NEW stk, Chain(t, root, stk), stk /= <<>>
  PROVE  LET new == Front(stk)
         IN  /\ Chain(t, root, new) /\ Len(new) = Len(stk) - 1
             /\ \A d \in 1 .. Len(new) : new[d] = stk[d]
<1>1. IsSeq(stk)
  BY DEF Chain
<1>2. Len(stk) \in Nat /\ Len(stk) > 0 /\ DOMAIN stk = 1 .. Len(stk)
  BY <1>1, Elements
<1>3. PICK new : new = Front(stk)
  OBVIOUS
<1>4. /\ IsSeq(new) /\ Len(new) = Len(stk) - 1
      /\ \A d \in 1 .. Len(new) : new[d] = stk[d]
  BY <1>1, <1>3, Popped
<1>5. DOMAIN new = 1 .. Len(new)
  BY <1>4, Elements
<1>6. \A d \in DOMAIN new : d \in DOMAIN stk /\ d < Len(stk) /\ new[d] = stk[d]
  BY <1>2, <1>4, <1>5
<1>7. Chain(t, root, new)
  BY <1>4, <1>6 DEF Chain
<1> QED
  BY <1>3, <1>4, <1>7

LEMMA ChainFirst ==
  ASSUME NEW t, NEW root \in Seq(Int), NEW f, Frame(t, f), f.dn = root
  PROVE  Chain(t, root, <<f>>)
<1>1. <<f>> \in Seq({f})
  OBVIOUS
<1>2. PICK s : s = <<f>>
  OBVIOUS
<1>3. IsSeq(s)
  BY <1>1, <1>2, OwnElements
<1>4. Len(s) = 1 /\ s[1] = f
  BY <1>2
<1>5. DOMAIN s = 1 .. 1
  BY <1>3, <1>4, Elements
<1>6. Len(root) \in Nat
  OBVIOUS
<1>7. Chain(t, root, s)
  BY <1>3, <1>4, <1>5, <1>6 DEF Chain
<1> QED
  BY <1>2, <1>7

LEMMA ChainEmpty ==
  ASSUME NEW t, NEW root
  PROVE  Chain(t, root, <<>>) /\ \A q : ~Pending(<<>>, q)
<1>1. <<>> \in Seq({})
  OBVIOUS
<1>2. PICK s : s = <<>>
  OBVIOUS
<1>3. IsSeq(s)
  BY <1>1, <1>2, OwnElements
<1>4. Len(s) = 0
  BY <1>2, <1>3, Elements
<1>5. DOMAIN s = {}
  BY <1>3, <1>4, Elements
<1>6. Chain(t, root, s) /\ \A q : ~Pending(s, q)
  BY <1>3, <1>5 DEF Chain, Pending
<1> QED
  BY <1>2, <1>6

-----------------------------------------------------------------------------
(* new is stk but for its last call, f.                                    *)
Differs(stk, new, f) ==
  /\ IsSeq(stk) /\ IsSeq(new) /\ Len(stk) > 0 /\ Len(new) = Len(stk)
  /\ new[Len(stk)] = f
  /\ \A d \in 1 .. Len(stk) - 1 : new[d] = stk[d]

LEMMA PendingSplit ==
  ASSUME NEW stk, IsSeq(stk), Len(stk) > 0, NEW q
  PROVE  Pending(stk, q) <=> \/ Awaits(stk[Len(stk)], q)
                             \/ \E d \in 1 .. Len(stk) - 1 : Awaits(stk[d], q)
<1>1. Len(stk) \in Nat /\ DOMAIN stk = 1 .. Len(stk)
  BY Elements
<1>2. \A d : d \in DOMAIN stk <=> d = Len(stk) \/ d \in 1 .. Len(stk) - 1
  BY <1>1
<1> QED
  BY <1>2 DEF Pending

LEMMA PendingDiffers ==
  ASSUME NEW stk, NEW new, NEW f, Differs(stk, new, f), NEW q
  PROVE  Pending(new, q) <=> \/ Awaits(f, q)
                             \/ \E d \in 1 .. Len(stk) - 1 : Awaits(stk[d], q)
<1>1. Pending(new, q) <=> \/ Awaits(new[Len(new)], q)
                          \/ \E d \in 1 .. Len(new) - 1 : Awaits(new[d], q)
  <2>1. IsSeq(new) /\ Len(new) > 0
    BY DEF Differs
  <2> QED
    BY <2>1, PendingSplit
<1> QED
  BY <1>1 DEF Differs

(* The last call turns to its next entry: what it awaited on the way       *)
(* through this one is pending no more.                                    *)
LEMMA PendingTurn ==
  ASSUME NEW t, NEW root, NEW stk, Chain(t, root, stk), stk /= <<>>,
         NEW f0, f0 = stk[Len(stk)], f0.i \in DOMAIN f0.entries, f0.i > 0,
         NEW f, f.dn = f0.dn, f.entries = f0.entries, f.i = f0.i + 1,
         NEW new, Differs(stk, new, f)
  PROVE  /\ \A q : Pending(new, q) => Pending(stk, q)
         /\ \A q : Pending(stk, q) /\ ~Pending(new, q) =>
              Under(f0.dn, q) /\ Through(f0.dn, q) = f0.entries[f0.i]
         /\ \A q \in Seq(Int) :
              Under(f0.dn, q) /\ Through(f0.dn, q) = f0.entries[f0.i] =>
                Pending(stk, q) /\ ~Pending(new, q)
<1> DEFINE L == Len(stk)
<1>1. /\ IsSeq(stk) /\ L \in Nat /\ L > 0 /\ L \in DOMAIN stk
      /\ DOMAIN stk = 1 .. L
  BY Elements DEF Chain
<1>2. /\ f0.i \in Nat /\ Sorted(t, f0.dn, f0.entries)
      /\ Len(f0.entries) \in Nat /\ DOMAIN f0.entries = 1 .. Len(f0.entries)
  BY <1>1, ChainFrames
<1>3. \A q : Pending(stk, q) <=> \/ Awaits(f0, q)
                                 \/ \E d \in 1 .. L - 1 : Awaits(stk[d], q)
  BY <1>1, PendingSplit
<1>4. \A q : Pending(new, q) <=> \/ Awaits(f, q)
                                 \/ \E d \in 1 .. L - 1 : Awaits(stk[d], q)
  BY PendingDiffers
<1>5. f0.i /= 0 /\ f.i /= 0 /\ \A j \in DOMAIN f0.entries : f0.i <= j <=> f.i <= j \/ j = f0.i
  BY <1>2
<1>6. ASSUME NEW q PROVE Awaits(f, q) => Awaits(f0, q)
  BY <1>5 DEF Awaits
<1>7. ASSUME NEW q, Awaits(f0, q), ~Awaits(f, q)
      PROVE  Under(f0.dn, q) /\ Through(f0.dn, q) = f0.entries[f0.i]
  BY <1>5, <1>7 DEF Awaits
<1>8. ASSUME NEW q \in Seq(Int), Under(f0.dn, q),
             Through(f0.dn, q) = f0.entries[f0.i]
      PROVE  Pending(stk, q) /\ ~Pending(new, q)
  <2>1. Awaits(f0, q)
    <3>1. f0.i <= f0.i
      BY <1>2
    <3> QED
      BY <1>8, <3>1 DEF Awaits
  <2>2. ~Awaits(f, q)
    <3>1. ASSUME NEW j \in DOMAIN f0.entries, f.i <= j
          PROVE  f0.entries[j] /= f0.entries[f0.i]
      <4>1. f0.i < j
        BY <1>2, <3>1
      <4> QED
        BY <1>2, <4>1 DEF Sorted
    <3> QED
      BY <1>5, <1>8, <3>1 DEF Awaits
  <2>3. ASSUME NEW d \in 1 .. L - 1 PROVE ~Awaits(stk[d], q)
    <3>1. d \in DOMAIN stk /\ d < L
      BY <1>1
    <3> QED
      BY <1>1, <1>8, <3>1, Passed
  <2> QED
    BY <1>3, <1>4, <2>1, <2>2, <2>3
<1> QED
  BY <1>3, <1>4, <1>6, <1>7, <1>8

(* The walk goes on: nothing becomes pending that was not, and what is     *)
(* pending no more and in the tree is printed, or failed or hidden now.    *)
Failures(o, n) == Line(o, n, "unreadable") \union Line(o, n, "gone")
KeepsLines(o, o2, n) ==
  /\ Line(o, n, "entry") \subseteq Line(o2, n, "entry")
  /\ Line(o, n, "gone") \subseteq Line(o2, n, "gone")
  /\ Line(o, n, "unreadable") \subseteq Line(o2, n, "unreadable")
  /\ \A j \in Line(o, n, "entry") \union Failures(o, n) : o2[j].path = o[j].path
LEMMA StillFaithful ==
  ASSUME NEW t \in Trees, NEW root \in Seq(Int), NEW stk, NEW stk2, NEW o,
         NEW o2, NEW n,
         Faithful(t, root, stk, o, n), KeepsLines(o, o2, n),
         \A j \in Failures(o, n) : o[j].path \in Seq(Int),
         \A q \in Seq(Int) : Pending(stk2, q) => Pending(stk, q),
         \A d \in DOMAIN stk2 : \A j \in Failures(o, n) :
           o[j].path /= stk2[d].dn,
         \A j \in Line(o2, n, "entry") \ Line(o, n, "entry") :
           Reached(t, root, o2, n, o2[j].path) /\ ~Pending(stk2, o2[j].path),
         \A j \in Failures(o2, n) \ Failures(o, n) :
           /\ o2[j].path \in Seq(Int) /\ ~Pending(stk2, o2[j].path)
           /\ \A d \in DOMAIN stk2 : o2[j].path /= stk2[d].dn
           /\ \A q \in DOMAIN t : Under(o2[j].path, q) => Pending(stk, q)
           /\ j \in Line(o2, n, "gone") => Pending(stk, o2[j].path),
         \A q \in DOMAIN t :
           Reached(t, root, o2, n, q) /\ Pending(stk, q) /\ ~Pending(stk2, q) =>
             Shown(o2, n, q)
  PROVE  Faithful(t, root, stk2, o2, n)
<1>1. Line(o2, n, "gone") \intersect Line(o2, n, "unreadable") = {}
  BY DEF Line
<1>2. ASSUME NEW q \in DOMAIN t, ~Pending(stk, q), Reached(t, root, o, n, q)
      PROVE  Reached(t, root, o2, n, q)
  <2>1. q \in Seq(Int) /\ Len(q) \in Nat /\ Len(root) \in Nat /\ Under(root, q)
    BY <1>2, TreesAssumption, LenProperties DEF Reached
  <2>2. ~Gone(o2, n, q)
    <3> SUFFICES ASSUME NEW j \in Line(o2, n, "gone"), o2[j].path = q
                 PROVE  FALSE
      BY DEF Gone
    <3>1. CASE j \in Failures(o, n)
      <4>1. j \in Line(o, n, "gone") /\ o[j].path = q
        BY <1>1, <3>1 DEF KeepsLines, Failures
      <4> QED
        BY <1>2, <4>1 DEF Reached, Gone
    <3>2. CASE j \notin Failures(o, n)
      <4>1. j \in Failures(o2, n) \ Failures(o, n)
        BY <3>2 DEF Failures
      <4> QED
        BY <1>2, <4>1
    <3> QED
      BY <3>1, <3>2
  <2>3. ASSUME NEW m \in Len(root) .. Len(q) - 1
        PROVE  ~Failed(o2, n, SubSeq(q, 1, m))
    <3> SUFFICES ASSUME NEW j \in Failures(o2, n), o2[j].path = SubSeq(q, 1, m)
                 PROVE  FALSE
      BY DEF Failed, Gone, Failures
    <3>1. CASE j \in Failures(o, n)
      <4>1. o[j].path = SubSeq(q, 1, m)
        BY <3>1 DEF KeepsLines
      <4>2. Failed(o, n, SubSeq(q, 1, m))
        BY <3>1, <4>1 DEF Failed, Gone, Failures
      <4> QED
        BY <1>2, <4>2 DEF Reached
    <3>2. CASE j \notin Failures(o, n)
      <4>1. m \in 1 .. Len(q) - 1
        BY <2>1 DEF Under
      <4>2. o2[j].path \in Seq(Int)
        BY <3>2
      <4>3. Under(o2[j].path, q)
        BY <2>1, <4>1, <4>2, PrefixUnder
      <4> QED
        BY <1>2, <3>2, <4>3
    <3> QED
      BY <3>1, <3>2
  <2> QED
    BY <1>2, <2>2, <2>3 DEF Reached
<1>3. ASSUME NEW j \in Line(o2, n, "entry")
      PROVE  Reached(t, root, o2, n, o2[j].path) /\ ~Pending(stk2, o2[j].path)
  <2>1. CASE j \in Line(o, n, "entry")
    <3>1. /\ Reached(t, root, o, n, o[j].path) /\ ~Pending(stk, o[j].path)
          /\ o2[j].path = o[j].path
      BY <2>1 DEF Faithful, KeepsLines
    <3>2. o[j].path \in DOMAIN t
      BY <3>1 DEF Reached
    <3>3. o[j].path \in Seq(Int)
      BY <3>2, TreesAssumption
    <3> QED
      BY <1>2, <3>1, <3>2, <3>3
  <2>2. CASE j \notin Line(o, n, "entry")
    BY <2>2
  <2> QED
    BY <2>1, <2>2
<1>4. ASSUME NEW q \in DOMAIN t, Reached(t, root, o2, n, q), ~Pending(stk2, q)
      PROVE  Shown(o2, n, q)
  <2>1. CASE Pending(stk, q)
    BY <1>4, <2>1
  <2>2. CASE ~Pending(stk, q)
    <3>1. ~Gone(o, n, q)
      BY <1>4 DEF Reached, Gone, KeepsLines, Failures
    <3>2. \A r : Failed(o, n, r) => Failed(o2, n, r)
      BY DEF Failed, Gone, KeepsLines, Failures
    <3>3. Reached(t, root, o, n, q)
      BY <1>4, <3>1, <3>2 DEF Reached
    <3>4. Shown(o, n, q)
      BY <2>2, <3>3 DEF Faithful
    <3> QED
      BY <3>4 DEF Shown, KeepsLines
  <2> QED
    BY <2>1, <2>2
<1>5. ASSUME NEW j \in Failures(o2, n)
      PROVE  /\ ~Pending(stk2, o2[j].path)
             /\ \A d \in DOMAIN stk2 : o2[j].path /= stk2[d].dn
  <2>1. CASE j \in Failures(o, n)
    <3>1. /\ ~Pending(stk, o[j].path) /\ o2[j].path = o[j].path
          /\ o[j].path \in Seq(Int)
      BY <2>1 DEF Faithful, KeepsLines, Failures
    <3> QED
      BY <2>1, <3>1
  <2>2. CASE j \notin Failures(o, n)
    BY <2>2
  <2> QED
    BY <2>1, <2>2
<1> QED
  BY <1>3, <1>4, <1>5 DEF Faithful, Failures

-----------------------------------------------------------------------------
(* What is printed says the same of argument n in o2 as in o.              *)
SameLines(o, o2, n) ==
  \A k \in {"entry", "gone", "unreadable"} :
    /\ Line(o2, n, k) = Line(o, n, k)
    /\ \A j \in Line(o, n, k) : o2[j] = o[j]
LEMMA SameFaithful ==
  ASSUME NEW t, NEW root, NEW stk, NEW o, NEW o2, NEW n, SameLines(o, o2, n)
  PROVE  /\ Faithful(t, root, stk, o, n) => Faithful(t, root, stk, o2, n)
         /\ Ordered(t, o, n) => Ordered(t, o2, n)
<1>1. /\ Line(o2, n, "entry") = Line(o, n, "entry")
      /\ Line(o2, n, "gone") = Line(o, n, "gone")
      /\ Line(o2, n, "unreadable") = Line(o, n, "unreadable")
      /\ \A j \in Line(o, n, "entry") : o2[j] = o[j]
      /\ \A j \in Line(o, n, "gone") : o2[j] = o[j]
      /\ \A j \in Line(o, n, "unreadable") : o2[j] = o[j]
  BY DEF SameLines
<1>2. \A q : /\ Shown(o2, n, q) <=> Shown(o, n, q)
             /\ Gone(o2, n, q) <=> Gone(o, n, q)
             /\ Failed(o2, n, q) <=> Failed(o, n, q)
  BY <1>1 DEF Shown, Gone, Failed
<1>3. \A q : Reached(t, root, o2, n, q) <=> Reached(t, root, o, n, q)
  BY <1>2 DEF Reached
<1>4. ASSUME Faithful(t, root, stk, o, n)
      PROVE  Faithful(t, root, stk, o2, n)
  BY <1>1, <1>2, <1>3, <1>4 DEF Faithful
<1>5. ASSUME Ordered(t, o, n)
      PROVE  Ordered(t, o2, n)
  BY <1>1, <1>5 DEF Ordered
<1> QED
  BY <1>4, <1>5

(* A line is printed.                                                      *)
Grown(o, o2, l) ==
  /\ Len(o) + 1 \notin DOMAIN o
  /\ DOMAIN o2 = DOMAIN o \union {Len(o) + 1}
  /\ o2[Len(o) + 1] = l
  /\ \A j \in DOMAIN o : j < Len(o) + 1 /\ o2[j] = o[j]
LEMMA Growing ==
  ASSUME NEW o, IsSeq(o), NEW l
  PROVE  IsSeq(Append(o, l)) /\ Grown(o, Append(o, l), l)
<1>1. Len(o) \in Nat /\ DOMAIN o = 1 .. Len(o)
  BY Elements
<1>2. PICK o2 : o2 = Append(o, l)
  OBVIOUS
<1>3. /\ IsSeq(o2) /\ Len(o2) = Len(o) + 1 /\ o2[Len(o) + 1] = l
      /\ \A j \in 1 .. Len(o) : o2[j] = o[j]
  BY <1>2, Appended
<1>4. DOMAIN o2 = 1 .. Len(o) + 1
  BY <1>3, Elements
<1>5. 1 .. Len(o) + 1 = 1 .. Len(o) \union {Len(o) + 1}
  BY <1>1
<1>6. Grown(o, o2, l)
  BY <1>1, <1>3, <1>4, <1>5 DEF Grown
<1> QED
  BY <1>2, <1>3, <1>6

LEMMA GrownLines ==
  ASSUME NEW o, NEW o2, NEW l, Grown(o, o2, l), NEW n, NEW k
  PROVE  /\ \A j \in Line(o, n, k) : o2[j] = o[j] /\ j < Len(o) + 1
         /\ l.arg = n /\ l.kind = k =>
              Line(o2, n, k) = Line(o, n, k) \union {Len(o) + 1}
         /\ l.arg /= n \/ l.kind /= k => Line(o2, n, k) = Line(o, n, k)
         /\ Len(o) + 1 \notin Line(o, n, k)
<1>1. /\ DOMAIN o2 = DOMAIN o \union {Len(o) + 1} /\ o2[Len(o) + 1] = l
      /\ Len(o) + 1 \notin DOMAIN o
      /\ \A j \in DOMAIN o : o2[j] = o[j]
  BY DEF Grown
<1>2. \A j \in DOMAIN o2 : j \in DOMAIN o \/ j = Len(o) + 1
  BY <1>1
<1>3. \A j \in Line(o, n, k) : o2[j] = o[j] /\ j < Len(o) + 1
  BY DEF Line, Grown
<1>4. ASSUME l.arg = n, l.kind = k
      PROVE  Line(o2, n, k) = Line(o, n, k) \union {Len(o) + 1}
  BY <1>1, <1>2, <1>4 DEF Line
<1>5. ASSUME l.arg /= n \/ l.kind /= k
      PROVE  Line(o2, n, k) = Line(o, n, k)
  BY <1>1, <1>2, <1>5 DEF Line
<1> QED
  BY <1>1, <1>3, <1>4, <1>5 DEF Line

LEMMA GrownOther ==
  ASSUME NEW o, NEW o2, NEW l, Grown(o, o2, l), NEW n, l.arg /= n
  PROVE  SameLines(o, o2, n)
BY GrownLines DEF SameLines

(* A line of the walk over n: it is the only new one.                      *)
LEMMA GrownHere ==
  ASSUME NEW o, NEW o2, NEW l, Grown(o, o2, l), NEW n, l.arg = n
  PROVE  /\ KeepsLines(o, o2, n)
         /\ \A k : Line(o2, n, k) \ Line(o, n, k) =
                     IF l.kind = k THEN {Len(o) + 1} ELSE {}
         /\ Failures(o2, n) \ Failures(o, n) =
              IF l.kind \in {"gone", "unreadable"} THEN {Len(o) + 1} ELSE {}
<1>1. ASSUME NEW k
      PROVE  /\ Line(o, n, k) \subseteq Line(o2, n, k)
             /\ \A j \in Line(o, n, k) : o2[j] = o[j]
             /\ Line(o2, n, k) \ Line(o, n, k) =
                  IF l.kind = k THEN {Len(o) + 1} ELSE {}
  <2>1. /\ \A j \in Line(o, n, k) : o2[j] = o[j]
        /\ l.kind = k => Line(o2, n, k) = Line(o, n, k) \union {Len(o) + 1}
        /\ l.kind /= k => Line(o2, n, k) = Line(o, n, k)
        /\ Len(o) + 1 \notin Line(o, n, k)
    BY GrownLines
  <2> QED
    BY <2>1
<1>2. Len(o) + 1 \notin Failures(o, n)
  BY GrownLines DEF Failures
<1>3. KeepsLines(o, o2, n)
  BY <1>1 DEF KeepsLines, Failures
<1>4. Failures(o2, n) \ Failures(o, n) =
        IF l.kind \in {"gone", "unreadable"} THEN {Len(o) + 1} ELSE {}
  <2>1. /\ Line(o2, n, "gone") \ Line(o, n, "gone") =
             IF l.kind = "gone" THEN {Len(o) + 1} ELSE {}
        /\ Line(o2, n, "unreadable") \ Line(o, n, "unreadable") =
             IF l.kind = "unreadable" THEN {Len(o) + 1} ELSE {}
    BY <1>1
  <2>2. CASE l.kind = "gone"
    BY <1>2, <2>1, <2>2 DEF Failures
  <2>3. CASE l.kind = "unreadable"
    BY <1>2, <2>1, <2>3 DEF Failures
  <2>4. CASE l.kind \notin {"gone", "unreadable"}
    BY <2>1, <2>4 DEF Failures
  <2> QED
    BY <2>2, <2>3, <2>4
<1> QED
  BY <1>1, <1>3, <1>4

(* Lines that are not of the walk: headers and summaries.                  *)
LEMMA QuietLines ==
  ASSUME NEW o, IsSeq(o), NEW r, IsSeq(r),
         \A j \in DOMAIN r : r[j].kind \notin {"entry", "gone", "unreadable"},
         NEW n
  PROVE  LET o2 == o \o r
         IN  /\ IsSeq(o2) /\ SameLines(o, o2, n)
             /\ \A j \in DOMAIN o2 : \/ j \in DOMAIN o /\ o2[j] = o[j]
                                     \/ \E i \in DOMAIN r : o2[j] = r[i]
             /\ \A j \in DOMAIN o : j \in DOMAIN o2
<1>1. Len(o) \in Nat /\ DOMAIN o = 1 .. Len(o) /\ Len(r) \in Nat /\ DOMAIN r = 1 .. Len(r)
  BY Elements
<1>2. PICK o2 : o2 = o \o r
  OBVIOUS
<1>3. /\ IsSeq(o2) /\ Len(o2) = Len(o) + Len(r)
      /\ \A j \in 1 .. Len(o) : o2[j] = o[j]
      /\ \A j \in Len(o) + 1 .. Len(o2) : o2[j] = r[j - Len(o)]
  BY <1>2, Joined
<1>4. DOMAIN o2 = 1 .. Len(o2)
  BY <1>3, Elements
<1>5. \A j \in DOMAIN o : j \in DOMAIN o2 /\ o2[j] = o[j]
  BY <1>1, <1>3, <1>4
<1>6. ASSUME NEW j \in DOMAIN o2, j \notin DOMAIN o
      PROVE  \E i \in DOMAIN r : o2[j] = r[i]
  <2>1. j \in Len(o) + 1 .. Len(o2)
    BY <1>1, <1>3, <1>4, <1>6
  <2>2. j - Len(o) \in DOMAIN r
    BY <1>1, <1>3, <2>1
  <2> QED
    BY <1>3, <2>1, <2>2
<1>7. SameLines(o, o2, n)
  <2> SUFFICES ASSUME NEW k \in {"entry", "gone", "unreadable"}
               PROVE  /\ Line(o2, n, k) = Line(o, n, k)
                      /\ \A j \in Line(o, n, k) : o2[j] = o[j]
    BY DEF SameLines
  <2>1. \A j \in DOMAIN o2 : o2[j].kind = k => j \in DOMAIN o
    BY <1>6
  <2> QED
    BY <1>5, <2>1 DEF Line
<1> QED
  BY <1>2, <1>3, <1>5, <1>6, <1>7

-----------------------------------------------------------------------------
(* All that path is in, from the argument on, are directories of calls.    *)
ByWayOf(root, stk, path) ==
  \A m \in Len(root) .. Len(path) - 1 :
    \E d \in DOMAIN stk : SubSeq(path, 1, m) = stk[d].dn

(* What is in the directory of the last call is below the argument, by way of    *)
(* the directories of the calls.                                           *)
InLast(t, root, stk, path) ==
  /\ t \in Trees /\ root \in Seq(Int) /\ Chain(t, root, stk) /\ stk /= <<>>
  /\ path \in Seq(Int) /\ Under(stk[Len(stk)].dn, path)
  /\ Len(path) = Len(stk[Len(stk)].dn) + 1
LEMMA WayDown ==
  ASSUME NEW t, NEW root, NEW stk, NEW path, InLast(t, root, stk, path)
  PROVE  /\ Under(root, path)
         /\ Len(path) = Len(root) + Len(stk)
         /\ ByWayOf(root, stk, path)
<1> DEFINE L == Len(stk)
           dn == stk[L].dn
<1>0. t \in Trees /\ root \in Seq(Int) /\ Chain(t, root, stk) /\ stk /= <<>>
  BY DEF InLast
<1>1. L \in Nat /\ L > 0 /\ DOMAIN stk = 1 .. L /\ L \in DOMAIN stk
  BY <1>0, Elements DEF Chain
<1>2. dn \in Seq(Int) /\ Len(dn) = Len(root) + L - 1
  BY <1>0, <1>1, ChainFrames DEF Chain
<1>3. Len(root) \in Nat
  BY <1>0
<1>5. path \in Seq(Int) /\ Len(path) = Len(dn) + 1 /\ Under(dn, path)
  BY DEF InLast
<1>6. ASSUME NEW d \in DOMAIN stk
      PROVE  /\ stk[d].dn \in Seq(Int) /\ Under(stk[d].dn, path)
             /\ Len(stk[d].dn) = Len(root) + d - 1
  <2>1. stk[d].dn \in Seq(Int) /\ Len(stk[d].dn) = Len(root) + d - 1
    BY <1>0, ChainFrames DEF Chain
  <2>2. CASE d = L
    BY <1>5, <2>1, <2>2
  <2>3. CASE d /= L
    <3>1. d < L
      BY <1>1, <2>3
    <3>2. Under(stk[d].dn, dn)
      BY <1>0, <1>1, <3>1 DEF Chain
    <3> QED
      BY <1>2, <1>5, <2>1, <3>2, UnderUnder
  <2> QED
    BY <2>2, <2>3
<1>7. Under(root, path)
  <2>1. 1 \in DOMAIN stk
    BY <1>1
  <2>2. stk[1].dn = root
    BY <1>0, <2>1 DEF Chain
  <2> QED
    BY <1>6, <2>1, <2>2
<1>8. ASSUME NEW m \in Len(root) .. Len(path) - 1
      PROVE  \E d \in DOMAIN stk : SubSeq(path, 1, m) = stk[d].dn
  <2> DEFINE d == m - Len(root) + 1
  <2>1. d \in DOMAIN stk /\ m \in 0 .. Len(path) /\ Len(root) + d - 1 = m
    BY <1>1, <1>2, <1>3, <1>5
  <2>2. PICK p : p = SubSeq(path, 1, m)
    OBVIOUS
  <2>3. p \in Seq(Int) /\ Len(p) = m /\ \A l \in 1 .. m : p[l] = path[l]
    BY <1>5, <2>1, <2>2, Beginning
  <2>4. stk[d].dn \in Seq(Int) /\ Len(stk[d].dn) = m /\ Under(stk[d].dn, path)
    BY <1>6, <2>1
  <2>5. \A l \in 1 .. m : stk[d].dn[l] = path[l]
    BY <2>4 DEF Under
  <2>6. p = stk[d].dn
    <3>1. PICK r : r = stk[d].dn
      OBVIOUS
    <3>2. r \in Seq(Int) /\ Len(r) = Len(p) /\ \A l \in 1 .. Len(p) : p[l] = r[l]
      BY <2>3, <2>4, <2>5, <3>1
    <3> QED
      BY <2>3, <3>1, <3>2, SamePath
  <2> QED
    BY <2>1, <2>2, <2>6
<1> QED
  BY <1>1, <1>2, <1>3, <1>5, <1>7, <1>8 DEF ByWayOf

(* The state of the walk when the loop of the last call is at entry a.     *)
AtEntry(t, root, stk, o, n, f, new, a, path) ==
  /\ t \in Trees /\ root \in Seq(Int) /\ IsSeq(stk) /\ stk /= <<>>
  /\ Chain(t, root, stk) /\ Faithful(t, root, stk, o, n)
  /\ \A j \in DOMAIN o : o[j].path \in Seq(Int)
  /\ LET f0 == stk[Len(stk)]
     IN  /\ f0.i \in DOMAIN f0.entries /\ f0.i > 0 /\ a = f0.entries[f0.i]
         /\ f.dn = f0.dn /\ f.entries = f0.entries /\ f.i = f0.i + 1
         /\ Frame(t, f)
  /\ new = [stk EXCEPT ![Len(stk)] = f]
  /\ path = Append(stk[Len(stk)].dn, a)

LEMMA AtEntryTurns ==
  ASSUME NEW t, NEW root, NEW stk, NEW o, NEW n, NEW f, NEW new, NEW a,
         NEW path, AtEntry(t, root, stk, o, n, f, new, a, path)
  PROVE  LET dn == stk[Len(stk)].dn
         IN  /\ Chain(t, root, new) /\ Len(new) = Len(stk) /\ new[Len(stk)] = f
             /\ \A d \in DOMAIN new : d \in DOMAIN stk /\ new[d].dn = stk[d].dn
             /\ dn \in DOMAIN t /\ dn \in Seq(Int) /\ a \in Int
             /\ path = Append(dn, a)
             /\ a \in Dots \/ Append(dn, a) \in DOMAIN t
             /\ new /= <<>>
             /\ \A q : Pending(new, q) => Pending(stk, q)
             /\ \A q : Pending(stk, q) /\ ~Pending(new, q) =>
                  Under(dn, q) /\ Through(dn, q) = a
             /\ \A q \in Seq(Int) : Under(dn, q) /\ Through(dn, q) = a =>
                  Pending(stk, q) /\ ~Pending(new, q)
<1> DEFINE L == Len(stk)
           f0 == stk[L]
<1>1. /\ t \in Trees /\ root \in Seq(Int) /\ IsSeq(stk) /\ stk /= <<>>
      /\ Chain(t, root, stk) /\ f0.i \in DOMAIN f0.entries /\ f0.i > 0
      /\ a = f0.entries[f0.i] /\ f.dn = f0.dn /\ f.entries = f0.entries
      /\ f.i = f0.i + 1 /\ Frame(t, f) /\ new = [stk EXCEPT ![L] = f]
  BY DEF AtEntry
<1>2. L \in Nat /\ L > 0 /\ DOMAIN stk = 1 .. L /\ L \in DOMAIN stk
  BY <1>1, Elements
<1>3. /\ Chain(t, root, new) /\ Len(new) = L /\ new[L] = f
      /\ \A d \in 1 .. L - 1 : new[d] = stk[d]
  <2>1. f.dn = stk[Len(stk)].dn /\ Chain(t, root, stk) /\ stk /= <<>> /\ Frame(t, f)
    BY <1>1
  <2>2. new = [stk EXCEPT ![Len(stk)] = f]
    BY <1>1
  <2>3. /\ Chain(t, root, new) /\ Len(new) = Len(stk) /\ new[Len(stk)] = f
        /\ \A d \in 1 .. Len(stk) - 1 : new[d] = stk[d]
    <3>1. LET m == [stk EXCEPT ![Len(stk)] = f]
          IN  /\ Chain(t, root, m) /\ Len(m) = Len(stk) /\ m[Len(stk)] = f
              /\ \A d \in 1 .. Len(stk) - 1 : m[d] = stk[d]
      BY <2>1, ChainTurn
    <3> QED
      BY <2>2, <3>1
  <2> QED
    BY <2>3
<1>4. IsSeq(new) /\ DOMAIN new = 1 .. L
  BY <1>3, Elements DEF Chain
<1>5. Differs(stk, new, f)
  BY <1>1, <1>2, <1>3, <1>4 DEF Differs
<1>6. \A d \in DOMAIN new : d \in DOMAIN stk /\ new[d].dn = stk[d].dn
  <2> SUFFICES ASSUME NEW d \in DOMAIN new
               PROVE  d \in DOMAIN stk /\ new[d].dn = stk[d].dn
    OBVIOUS
  <2>1. CASE d = L
    BY <1>1, <1>2, <1>3, <2>1
  <2>2. CASE d /= L
    <3>1. d \in 1 .. L - 1
      BY <1>2, <1>4, <2>2
    <3> QED
      BY <1>2, <1>3, <3>1
  <2> QED
    BY <2>1, <2>2
<1>7. /\ f0.dn \in DOMAIN t /\ f0.dn \in Seq(Int) /\ Sorted(t, f0.dn, f0.entries)
  BY <1>1, <1>2, ChainFrames
<1>8. /\ a \in Int /\ (a \in Dots \/ Append(f0.dn, a) \in DOMAIN t)
      /\ path = Append(f0.dn, a)
  BY <1>1, <1>7 DEF Sorted, AtEntry
<1>9. new /= <<>>
  BY <1>2, <1>3, <1>4, Elements
<1>10. /\ \A q : Pending(new, q) => Pending(stk, q)
       /\ \A q : Pending(stk, q) /\ ~Pending(new, q) =>
            Under(f0.dn, q) /\ Through(f0.dn, q) = a
       /\ \A q \in Seq(Int) : Under(f0.dn, q) /\ Through(f0.dn, q) = a =>
            Pending(stk, q) /\ ~Pending(new, q)
  <2> HIDE DEF f0
  <2>1. f0 = stk[Len(stk)] /\ f0.i \in DOMAIN f0.entries /\ f0.i > 0
    BY <1>1 DEF f0
  <2>2. a = f0.entries[f0.i] /\ f.dn = f0.dn /\ f.entries = f0.entries
        /\ f.i = f0.i + 1
    BY <1>1 DEF f0
  <2>3. Chain(t, root, stk) /\ stk /= <<>>
    BY <1>1
  <2>4. /\ \A q : Pending(new, q) => Pending(stk, q)
        /\ \A q : Pending(stk, q) /\ ~Pending(new, q) =>
             Under(f0.dn, q) /\ Through(f0.dn, q) = f0.entries[f0.i]
        /\ \A q \in Seq(Int) :
             Under(f0.dn, q) /\ Through(f0.dn, q) = f0.entries[f0.i] =>
               Pending(stk, q) /\ ~Pending(new, q)
    BY <1>5, <2>1, <2>2, <2>3, PendingTurn
  <2> QED
    BY <2>2, <2>4
<1> QED
  BY <1>3, <1>6, <1>7, <1>8, <1>9, <1>10

(* Nothing that has failed is in one of the calls' directories.            *)
LEMMA AtEntryFailures ==
  ASSUME NEW t, NEW root, NEW stk, NEW o, NEW n, NEW f, NEW new, NEW a,
         NEW path, AtEntry(t, root, stk, o, n, f, new, a, path)
  PROVE  /\ \A j \in Failures(o, n) :
              /\ o[j].path \in Seq(Int) /\ ~Pending(stk, o[j].path)
              /\ \A d \in DOMAIN stk : o[j].path /= stk[d].dn
         /\ \A d \in DOMAIN new : \A j \in Failures(o, n) :
              o[j].path /= new[d].dn
<1>1. ASSUME NEW j \in Failures(o, n)
      PROVE  /\ o[j].path \in Seq(Int) /\ ~Pending(stk, o[j].path)
             /\ \A d \in DOMAIN stk : o[j].path /= stk[d].dn
  <2>1. j \in DOMAIN o
    BY DEF Failures, Line
  <2> QED
    BY <2>1 DEF AtEntry, Faithful, Failures
<1>2. \A d \in DOMAIN new : d \in DOMAIN stk /\ new[d].dn = stk[d].dn
  BY AtEntryTurns
<1> QED
  BY <1>1, <1>2

-----------------------------------------------------------------------------
(* The loop skips a dot: nothing is below it.                              *)
LEMMA SkippedFaithful ==
  ASSUME NEW t, NEW root, NEW stk, NEW o, NEW n, NEW f, NEW new, NEW a,
         NEW path, AtEntry(t, root, stk, o, n, f, new, a, path), a \in Dots
  PROVE  Faithful(t, root, new, o, n)
<1>1. /\ t \in Trees /\ root \in Seq(Int) /\ Faithful(t, root, stk, o, n)
      /\ \A j \in Line(o, n, "unreadable") \union Line(o, n, "gone") :
           o[j].path \in Seq(Int)
  BY DEF AtEntry, Line
<1>2. /\ \A q : Pending(new, q) => Pending(stk, q)
      /\ \A q : Pending(stk, q) /\ ~Pending(new, q) =>
           Under(stk[Len(stk)].dn, q) /\ Through(stk[Len(stk)].dn, q) = a
      /\ stk[Len(stk)].dn \in Seq(Int)
  BY AtEntryTurns
<1>3. ASSUME NEW q \in DOMAIN t, Pending(stk, q)
      PROVE  Pending(new, q)
  <2> SUFFICES ASSUME Under(stk[Len(stk)].dn, q),
                      Through(stk[Len(stk)].dn, q) = a
               PROVE  FALSE
    BY <1>2, <1>3
  <2>1. PICK m : m = Len(stk[Len(stk)].dn)
    OBVIOUS
  <2>2. q \in Seq(Int) /\ Len(q) \in Nat
    BY <1>1, TreesAssumption, LenProperties
  <2>3. m \in Nat
    BY <1>2, <2>1
  <2>4. m \in 1 .. Len(q) /\ m < Len(q) /\ q[m + 1] = a
    BY <2>1, <2>2, <2>3 DEF Under, Through
  <2>5. q[m + 1] \notin Dots
    BY <1>1, <2>4, Ancestors
  <2> QED
    BY <2>4, <2>5
<1>4. KeepsLines(o, o, n)
  BY DEF KeepsLines
<1>5. \A d \in DOMAIN new : \A j \in Failures(o, n) : o[j].path /= new[d].dn
  BY AtEntryFailures
<1> QED
  BY <1>1, <1>2, <1>3, <1>4, <1>5, StillFaithful DEF Failures

(* lstat fails: the entry and what is below it are no longer reached.      *)
LEMMA GoneFaithful ==
  ASSUME NEW t, NEW root, NEW stk, NEW o, NEW n, NEW f, NEW new, NEW a,
         NEW path, AtEntry(t, root, stk, o, n, f, new, a, path), a \notin Dots,
         NEW l, l.arg = n, l.kind = "gone",
         l.path = path,
         NEW o2, Grown(o, o2, l)
  PROVE  Faithful(t, root, new, o2, n)
<1>1. /\ t \in Trees /\ root \in Seq(Int) /\ Faithful(t, root, stk, o, n)
      /\ Chain(t, root, stk) /\ stk /= <<>>
      /\ \A j \in Failures(o, n) : o[j].path \in Seq(Int)
  BY DEF AtEntry, Line, Failures
<1>2. PICK dn : dn = stk[Len(stk)].dn
  OBVIOUS
<1>3. PICK k : k = Len(o) + 1
  OBVIOUS
<1>4. /\ Chain(t, root, new) /\ Len(new) = Len(stk) /\ a \in Int
      /\ \A d \in DOMAIN new : d \in DOMAIN stk /\ new[d].dn = stk[d].dn
      /\ dn \in DOMAIN t /\ dn \in Seq(Int)
      /\ \A q : Pending(new, q) => Pending(stk, q)
      /\ \A q : Pending(stk, q) /\ ~Pending(new, q) =>
           Under(dn, q) /\ Through(dn, q) = a
      /\ \A q \in Seq(Int) : Under(dn, q) /\ Through(dn, q) = a =>
           Pending(stk, q) /\ ~Pending(new, q)
  BY <1>2, AtEntryTurns
<1>5. path = Append(dn, a)
  BY <1>2, AtEntryTurns
<1>6. /\ path \in Seq(Int) /\ Under(root, path) /\ Under(dn, path)
      /\ Through(dn, path) = a /\ Len(path) = Len(root) + Len(stk)
  <2>1. Len(dn) > 0
    BY <1>1, <1>4, TreesAssumption, LenProperties
  <2>2. /\ path \in Seq(Int) /\ Len(path) = Len(dn) + 1 /\ Under(dn, path)
        /\ Through(dn, path) = a
    BY <1>4, <1>5, <2>1, Extended
  <2>3. Under(root, path) /\ Len(path) = Len(root) + Len(stk)
    <3>1. InLast(t, root, stk, path)
      BY <1>1, <1>2, <2>2 DEF InLast
    <3> QED
      BY <3>1, WayDown
  <2> QED
    BY <2>2, <2>3
<1>7. /\ KeepsLines(o, o2, n)
      /\ Line(o2, n, "entry") \ Line(o, n, "entry") = {}
      /\ Failures(o2, n) \ Failures(o, n) = {k}
      /\ o2[k].path = path /\ k \in Line(o2, n, "gone")
  <2>1. /\ KeepsLines(o, o2, n)
        /\ \A kd : Line(o2, n, kd) \ Line(o, n, kd) =
                     IF l.kind = kd THEN {k} ELSE {}
        /\ Failures(o2, n) \ Failures(o, n) =
             IF l.kind \in {"gone", "unreadable"} THEN {k} ELSE {}
    BY <1>3, GrownHere
  <2>2. o2[k] = l
    BY <1>3 DEF Grown
  <2>3. k \in Line(o2, n, "gone") \ Line(o, n, "gone")
    BY <2>1
  <2> QED
    BY <1>2, <1>5, <2>1, <2>2, <2>3
<1>8. Pending(stk, path) /\ ~Pending(new, path)
  BY <1>4, <1>6
<1>9. ASSUME NEW d \in DOMAIN new PROVE path /= new[d].dn
  <2>1. /\ d \in DOMAIN stk /\ new[d].dn = stk[d].dn
        /\ DOMAIN stk = 1 .. Len(stk) /\ Len(stk) \in Nat
        /\ Len(stk[d].dn) = Len(root) + d - 1
    BY <1>1, <1>4, ChainFrames DEF Chain
  <2> QED
    BY <1>1, <1>6, <2>1
<1>10. ASSUME NEW q \in DOMAIN t, Under(path, q)
       PROVE  Under(dn, q) /\ Through(dn, q) = a /\ Pending(stk, q)
  <2>1. q \in Seq(Int)
    BY <1>1, TreesAssumption
  <2>2. Under(dn, q) /\ Through(dn, q) = Through(dn, path)
    BY <1>4, <1>6, <1>10, <2>1, UnderUnder
  <2> QED
    BY <1>4, <1>6, <2>1, <2>2
<1>11. ASSUME NEW q \in DOMAIN t, Reached(t, root, o2, n, q),
              Pending(stk, q), ~Pending(new, q)
       PROVE  FALSE
  <2>1. q \in Seq(Int) /\ Under(dn, q) /\ Through(dn, q) = a
    BY <1>1, <1>4, <1>11, TreesAssumption
  <2>2. q = path \/ Under(path, q)
    BY <1>4, <1>5, <2>1, UnderThrough
  <2>3. CASE q = path
    BY <1>7, <1>11, <2>3 DEF Reached, Gone
  <2>4. CASE Under(path, q)
    <3>1. PICK m \in 1 .. Len(q) - 1 : path = SubSeq(q, 1, m)
      BY <1>6, <2>1, <2>4, PrefixUnder
    <3>2. Len(q) \in Nat /\ Len(path) = m
      BY <2>1, <3>1, Beginning
    <3>3. Len(stk) \in Nat /\ Len(root) \in Nat
      BY <1>1, ChainFrames
    <3>4. m \in Len(root) .. Len(q) - 1
      BY <1>6, <3>2, <3>3
    <3>5. Failed(o2, n, path)
      BY <1>7 DEF Failed, Gone
    <3> QED
      BY <1>11, <3>1, <3>4, <3>5 DEF Reached
  <2> QED
    BY <2>2, <2>3, <2>4
<1>12. \A d \in DOMAIN new : \A j \in Failures(o, n) : o[j].path /= new[d].dn
  BY AtEntryFailures
<1>13. \A j \in Line(o2, n, "entry") \ Line(o, n, "entry") : FALSE
  BY <1>7
<1>14. ASSUME NEW j \in Failures(o2, n) \ Failures(o, n)
       PROVE  /\ o2[j].path \in Seq(Int) /\ ~Pending(new, o2[j].path)
              /\ \A d \in DOMAIN new : o2[j].path /= new[d].dn
              /\ \A q \in DOMAIN t : Under(o2[j].path, q) => Pending(stk, q)
              /\ j \in Line(o2, n, "gone") => Pending(stk, o2[j].path)
  <2>1. o2[j].path = path
    BY <1>7
  <2> QED
    BY <1>6, <1>8, <1>9, <1>10, <2>1
<1> QED
  BY <1>1, <1>4, <1>7, <1>11, <1>12, <1>13, <1>14, StillFaithful

(* The directory of the last call cannot be read.                          *)
LEMMA UnreadableFaithful ==
  ASSUME NEW t \in Trees, NEW root \in Seq(Int), NEW stk, stk /= <<>>,
         Chain(t, root, stk), NEW o, NEW n, Faithful(t, root, stk, o, n),
         \A j \in DOMAIN o : o[j].path \in Seq(Int),
         stk[Len(stk)].i = 0,
         NEW l, l.arg = n, l.kind = "unreadable", l.path = stk[Len(stk)].dn,
         NEW o2, Grown(o, o2, l)
  PROVE  Faithful(t, root, Front(stk), o2, n)
<1>1. IsSeq(stk) /\ \A j \in Failures(o, n) : o[j].path \in Seq(Int)
  BY DEF Chain, Failures, Line
<1>2. PICK f : f = stk[Len(stk)]
  OBVIOUS
<1>3. PICK k : k = Len(o) + 1
  OBVIOUS
<1>4. PICK new : new = Front(stk)
  OBVIOUS
<1>5. /\ Chain(t, root, new) /\ Len(new) = Len(stk) - 1
      /\ \A d \in 1 .. Len(new) : new[d] = stk[d]
  BY <1>4, ChainReturn
<1>6. /\ Len(stk) \in Nat /\ Len(stk) > 0 /\ DOMAIN stk = 1 .. Len(stk)
      /\ DOMAIN new = 1 .. Len(new) /\ Len(stk) \in DOMAIN stk
  BY <1>1, <1>5, Elements DEF Chain
<1>7. \A d \in DOMAIN new : d \in DOMAIN stk /\ d < Len(stk) /\ new[d] = stk[d]
  BY <1>5, <1>6
<1>8. f.dn \in Seq(Int) /\ Len(f.dn) = Len(root) + Len(stk) - 1 /\ f.i = 0
  BY <1>2, <1>6, ChainFrames DEF Chain
<1>9. \A q : Pending(new, q) => Pending(stk, q)
  BY <1>7 DEF Pending
<1>10. ASSUME NEW q, Pending(stk, q), ~Pending(new, q)
       PROVE  Under(f.dn, q)
  <2>1. PICK d \in DOMAIN stk : Awaits(stk[d], q)
    BY <1>10 DEF Pending
  <2>2. d = Len(stk)
    <3>1. d \notin DOMAIN new
      BY <1>7, <1>10, <2>1 DEF Pending
    <3> QED
      BY <1>5, <1>6, <3>1
  <2> QED
    BY <1>2, <2>1, <2>2 DEF Awaits
<1>11. \A q : Under(f.dn, q) => Pending(stk, q)
  BY <1>2, <1>6, <1>8 DEF Pending, Awaits
<1>12. ~Pending(new, f.dn)
  <2>1. ASSUME NEW d \in DOMAIN new PROVE ~Awaits(new[d], f.dn)
    <3>1. ~Awaits(stk[d], f.dn)
      BY <1>2, <1>6, <1>7, <1>8, Passed
    <3> QED
      BY <1>7, <3>1
  <2> QED
    BY <2>1 DEF Pending
<1>13. \A d \in DOMAIN new : f.dn /= new[d].dn
  <2>1. \A d \in DOMAIN new : Len(new[d].dn) = Len(root) + d - 1
    BY <1>5 DEF Chain
  <2>2. Len(root) \in Nat
    OBVIOUS
  <2> QED
    BY <1>5, <1>6, <1>8, <2>1, <2>2
<1>14. /\ KeepsLines(o, o2, n)
       /\ Line(o2, n, "entry") \ Line(o, n, "entry") = {}
       /\ Failures(o2, n) \ Failures(o, n) = {k}
       /\ o2[k].path = f.dn /\ k \in Line(o2, n, "unreadable")
       /\ k \notin Line(o2, n, "gone")
  <2>1. /\ KeepsLines(o, o2, n)
        /\ \A kd : Line(o2, n, kd) \ Line(o, n, kd) =
                     IF l.kind = kd THEN {k} ELSE {}
        /\ Failures(o2, n) \ Failures(o, n) =
             IF l.kind \in {"gone", "unreadable"} THEN {k} ELSE {}
    BY <1>3, GrownHere
  <2>2. o2[k] = l
    BY <1>3 DEF Grown
  <2>3. k \in Line(o2, n, "unreadable") \ Line(o, n, "unreadable")
    BY <2>1
  <2>4. k \notin Line(o2, n, "gone")
    BY <2>2 DEF Line
  <2> QED
    BY <1>2, <2>1, <2>2, <2>3, <2>4
<1>15. ASSUME NEW q \in DOMAIN t, Reached(t, root, o2, n, q),
              Pending(stk, q), ~Pending(new, q)
       PROVE  FALSE
  <2>1. q \in Seq(Int) /\ Under(f.dn, q)
    BY <1>10, <1>15, TreesAssumption
  <2>2. PICK m \in 1 .. Len(q) - 1 : f.dn = SubSeq(q, 1, m)
    BY <1>8, <2>1, PrefixUnder
  <2>3. Len(q) \in Nat /\ Len(f.dn) = m /\ Len(root) \in Nat
    BY <2>1, <2>2, Beginning
  <2>4. m \in Len(root) .. Len(q) - 1
    BY <1>6, <1>8, <2>3
  <2>5. Failed(o2, n, f.dn)
    BY <1>14 DEF Failed
  <2> QED
    BY <1>15, <2>2, <2>4, <2>5 DEF Reached
<1>16. \A d \in DOMAIN new : \A j \in Failures(o, n) : o[j].path /= new[d].dn
  BY <1>7 DEF Faithful, Failures
<1>17. \A j \in Line(o2, n, "entry") \ Line(o, n, "entry") : FALSE
  BY <1>14
<1>18. ASSUME NEW j \in Failures(o2, n) \ Failures(o, n)
       PROVE  /\ o2[j].path \in Seq(Int) /\ ~Pending(new, o2[j].path)
              /\ \A d \in DOMAIN new : o2[j].path /= new[d].dn
              /\ \A q \in DOMAIN t : Under(o2[j].path, q) => Pending(stk, q)
              /\ j \in Line(o2, n, "gone") => Pending(stk, o2[j].path)
  <2>1. o2[j].path = f.dn /\ j = k
    BY <1>14
  <2> QED
    BY <1>8, <1>11, <1>12, <1>13, <1>14, <2>1
<1>19. Faithful(t, root, new, o2, n)
  BY <1>1, <1>9, <1>14, <1>15, <1>16, <1>17, <1>18, StillFaithful
<1> QED
  BY <1>4, <1>19

(* An entry is printed, and processDir called for it if it is a directory. *)
CallsOn(t, path, new, stk2) ==
  \/ ~Dir(t, path) /\ stk2 = new
  \/ /\ Dir(t, path)
     /\ \E g : Frame(t, g) /\ g.i = 0 /\ g.dn = path /\ stk2 = Append(new, g)
LEMMA PrintedFaithful ==
  ASSUME NEW t, NEW root, NEW stk, NEW o, NEW n, NEW f, NEW new, NEW a,
         NEW path, AtEntry(t, root, stk, o, n, f, new, a, path), a \notin Dots,
         IsSeq(o),
         NEW l, l.arg = n, l.kind = "entry", l.path = path,
         NEW o2, Grown(o, o2, l),
         NEW stk2, CallsOn(t, path, new, stk2)
  PROVE  /\ Chain(t, root, stk2) /\ Faithful(t, root, stk2, o2, n)
         /\ Ordered(t, o, n) => Ordered(t, o2, n)
<1>1. /\ t \in Trees /\ root \in Seq(Int) /\ Faithful(t, root, stk, o, n)
      /\ Chain(t, root, stk) /\ stk /= <<>>
      /\ \A j \in Failures(o, n) : o[j].path \in Seq(Int)
  BY DEF AtEntry, Line, Failures
<1>2. PICK dn : dn = stk[Len(stk)].dn
  OBVIOUS
<1>3. PICK k : k = Len(o) + 1
  OBVIOUS
<1>4. /\ Chain(t, root, new) /\ Len(new) = Len(stk) /\ a \in Int
      /\ new[Len(stk)] = f /\ new /= <<>>
      /\ \A d \in DOMAIN new : d \in DOMAIN stk /\ new[d].dn = stk[d].dn
      /\ dn \in DOMAIN t /\ dn \in Seq(Int)
      /\ a \in Dots \/ Append(dn, a) \in DOMAIN t
      /\ path = Append(dn, a)
      /\ \A q : Pending(new, q) => Pending(stk, q)
      /\ \A q : Pending(stk, q) /\ ~Pending(new, q) =>
           Under(dn, q) /\ Through(dn, q) = a
      /\ \A q \in Seq(Int) : Under(dn, q) /\ Through(dn, q) = a =>
           Pending(stk, q) /\ ~Pending(new, q)
  BY <1>2, AtEntryTurns
<1>5. /\ path \in Seq(Int) /\ Under(root, path) /\ Under(dn, path)
      /\ Through(dn, path) = a /\ Len(path) = Len(root) + Len(stk)
      /\ ByWayOf(root, stk, path)
  <2>1. Len(dn) > 0 /\ path = Append(dn, a)
    BY <1>1, <1>2, <1>4, TreesAssumption, LenProperties
  <2>2. /\ path \in Seq(Int) /\ Len(path) = Len(dn) + 1 /\ Under(dn, path)
        /\ Through(dn, path) = a
    BY <1>4, <2>1, Extended
  <2>3. /\ Under(root, path) /\ Len(path) = Len(root) + Len(stk)
        /\ ByWayOf(root, stk, path)
    <3>1. InLast(t, root, stk, path)
      BY <1>1, <1>2, <2>2 DEF InLast
    <3> QED
      BY <3>1, WayDown
  <2> QED
    BY <2>2, <2>3
<1>6. path \in DOMAIN t /\ Pending(stk, path) /\ ~Pending(new, path)
  BY <1>2, <1>4, <1>5
<1>7. /\ KeepsLines(o, o2, n)
      /\ Line(o2, n, "entry") \ Line(o, n, "entry") = {k}
      /\ Failures(o2, n) = Failures(o, n)
      /\ o2[k].path = path /\ k \in Line(o2, n, "entry")
      /\ Line(o2, n, "gone") = Line(o, n, "gone")
  <2>1. /\ KeepsLines(o, o2, n)
        /\ \A kd : Line(o2, n, kd) \ Line(o, n, kd) =
                     IF l.kind = kd THEN {k} ELSE {}
        /\ Failures(o2, n) \ Failures(o, n) =
             IF l.kind \in {"gone", "unreadable"} THEN {k} ELSE {}
    BY <1>3, GrownHere
  <2>2. o2[k] = l
    BY <1>3 DEF Grown
  <2>3. /\ Line(o2, n, "gone") = Line(o, n, "gone")
        /\ Line(o2, n, "unreadable") = Line(o, n, "unreadable")
    BY GrownLines
  <2>4. k \in Line(o2, n, "entry") \ Line(o, n, "entry")
    BY <2>1
  <2> QED
    BY <2>1, <2>2, <2>3, <2>4 DEF Failures
<1>8. /\ \A j \in Failures(o, n) :
           /\ ~Pending(stk, o[j].path) /\ o2[j].path = o[j].path
           /\ \A d \in DOMAIN stk : o[j].path /= stk[d].dn
  BY <1>7, AtEntryFailures DEF KeepsLines
<1>9. Reached(t, root, o2, n, path)
  <2>1. ~Gone(o2, n, path)
    BY <1>6, <1>7, <1>8 DEF Gone, Failures
  <2>2. ASSUME NEW d \in DOMAIN stk PROVE ~Failed(o2, n, stk[d].dn)
    BY <1>7, <1>8 DEF Failed, Gone, Failures
  <2> QED
    BY <1>5, <1>6, <2>1, <2>2 DEF Reached, ByWayOf
<1>10. /\ Chain(t, root, stk2)
       /\ \A q \in Seq(Int) : Pending(stk2, q) => Pending(stk, q)
       /\ ~Pending(stk2, path)
       /\ \A d \in DOMAIN stk2 : stk2[d].dn = path \/
            \E e \in DOMAIN stk : stk2[d].dn = stk[e].dn
       /\ \A q \in DOMAIN t : Pending(stk, q) /\ ~Pending(stk2, q) => q = path
  <2>1. ASSUME NEW q \in DOMAIN t, Pending(stk, q), ~Pending(new, q)
        PROVE  q = path \/ Under(path, q)
    <3>1. q \in Seq(Int) /\ Under(dn, q) /\ Through(dn, q) = a
      BY <1>1, <1>4, <2>1, TreesAssumption
    <3> QED
      BY <1>2, <1>4, <3>1, UnderThrough
  <2>2. CASE ~Dir(t, path) /\ stk2 = new
    <3>1. ASSUME NEW q \in DOMAIN t, Under(path, q) PROVE FALSE
      <4>1. q \in Seq(Int)
        BY <1>1, TreesAssumption
      <4>2. PICK m \in 1 .. Len(q) - 1 : path = SubSeq(q, 1, m)
        BY <1>5, <3>1, <4>1, PrefixUnder
      <4>3. m \in 1 .. Len(q) /\ m < Len(q)
        BY <4>1, <4>2
      <4> QED
        BY <1>1, <2>2, <4>2, <4>3, Ancestors
    <3> QED
      BY <1>4, <1>6, <2>1, <2>2, <3>1
  <2>3. ASSUME NEW g, Frame(t, g), g.i = 0, g.dn = path, stk2 = Append(new, g)
        PROVE  /\ Chain(t, root, stk2)
               /\ \A q \in Seq(Int) : Pending(stk2, q) => Pending(stk, q)
               /\ ~Pending(stk2, path)
               /\ \A d \in DOMAIN stk2 : stk2[d].dn = path \/
                    \E e \in DOMAIN stk : stk2[d].dn = stk[e].dn
               /\ \A q \in DOMAIN t :
                    Pending(stk, q) /\ ~Pending(stk2, q) => q = path
    <3>1. /\ f.i > 1 /\ a = f.entries[f.i - 1] /\ f.dn = dn
          /\ Len(stk) \in Nat /\ DOMAIN stk = 1 .. Len(stk)
      <4>1. Len(stk) \in Nat /\ DOMAIN stk = 1 .. Len(stk) /\ Len(stk) \in DOMAIN stk
        BY <1>1, Elements DEF Chain
      <4>2. stk[Len(stk)].i \in Nat
        BY <1>1, <4>1, ChainFrames
      <4>3. /\ stk[Len(stk)].i > 0 /\ f.i = stk[Len(stk)].i + 1
            /\ a = f.entries[stk[Len(stk)].i] /\ f.dn = dn
        BY <1>2 DEF AtEntry
      <4> QED
        BY <4>1, <4>2, <4>3
    <3>2. /\ Chain(t, root, stk2) /\ Len(stk2) = Len(new) + 1
          /\ stk2[Len(new) + 1] = g
          /\ \A d \in 1 .. Len(new) : stk2[d] = new[d]
      <4>1. new[Len(new)].i > 1 /\ a = new[Len(new)].entries[new[Len(new)].i - 1]
        BY <1>4, <3>1
      <4>2. g.dn = Append(new[Len(new)].dn, a)
        BY <1>2, <1>4, <2>3, <3>1
      <4>3. LET r == Append(new, g)
            IN  /\ Chain(t, root, r) /\ Len(r) = Len(new) + 1
                /\ r[Len(new) + 1] = g
                /\ \A d \in 1 .. Len(new) : r[d] = new[d]
        <5>1. /\ t \in Trees /\ root \in Seq(Int) /\ Chain(t, root, new)
              /\ new /= <<>> /\ a \in Int /\ Frame(t, g) /\ g.i = 0
          BY <1>1, <1>4, <2>3
        <5> QED
          BY <4>1, <4>2, <5>1, ChainCall
      <4> QED
        BY <2>3, <4>3
    <3>3. DOMAIN new = 1 .. Len(new) /\ DOMAIN stk2 = 1 .. Len(new) + 1
      <4>1. IsSeq(new) /\ IsSeq(stk2)
        BY <1>4, <3>2 DEF Chain
      <4> QED
        BY <3>2, <4>1, Elements
    <3>4. \A d \in DOMAIN stk2 : \/ d = Len(new) + 1 /\ stk2[d] = g
                                 \/ d \in DOMAIN new /\ stk2[d] = new[d]
      BY <1>4, <3>1, <3>2, <3>3
    <3>5. \A d \in DOMAIN new : d \in DOMAIN stk2 /\ stk2[d] = new[d]
      BY <1>4, <3>1, <3>2, <3>3
    <3>6. Len(new) + 1 \in DOMAIN stk2
      BY <1>4, <3>1, <3>3
    <3>7. \A q : Pending(stk2, q) <=> Pending(new, q) \/ Awaits(g, q)
      BY <3>2, <3>4, <3>5, <3>6 DEF Pending
    <3>8. \A q : Awaits(g, q) <=> Under(path, q)
      BY <2>3 DEF Awaits
    <3>9. ASSUME NEW q \in Seq(Int), Under(path, q) PROVE Pending(stk, q)
      <4>1. Under(dn, q) /\ Through(dn, q) = a
        BY <1>4, <1>5, <3>9, UnderUnder
      <4> QED
        BY <1>4, <4>1
    <3>10. ~Under(path, path)
      BY <1>5 DEF Under
    <3>11. \A d \in DOMAIN stk2 : stk2[d].dn = path \/
             \E e \in DOMAIN stk : stk2[d].dn = stk[e].dn
      BY <1>4, <2>3, <3>4
    <3>12. \A q \in DOMAIN t : Pending(stk, q) /\ ~Pending(stk2, q) => q = path
      BY <2>1, <3>7, <3>8
    <3> QED
      BY <1>4, <1>6, <3>2, <3>7, <3>8, <3>9, <3>10, <3>11, <3>12
  <2> QED
    BY <2>2, <2>3 DEF CallsOn
<1>11. \A d \in DOMAIN stk2 : \A j \in Failures(o, n) : o[j].path /= stk2[d].dn
  BY <1>6, <1>8, <1>10
<1>12. ASSUME NEW q \in DOMAIN t, Reached(t, root, o2, n, q), Pending(stk, q),
              ~Pending(stk2, q)
       PROVE  Shown(o2, n, q)
  BY <1>7, <1>10, <1>12 DEF Shown
<1>13. \A j \in Line(o2, n, "entry") \ Line(o, n, "entry") :
         Reached(t, root, o2, n, o2[j].path) /\ ~Pending(stk2, o2[j].path)
  BY <1>7, <1>9, <1>10
<1>14. \A j \in Failures(o2, n) \ Failures(o, n) : FALSE
  BY <1>7
<1>15. Faithful(t, root, stk2, o2, n)
  BY <1>1, <1>7, <1>10, <1>11, <1>12, <1>13, <1>14, StillFaithful
<1>16. ASSUME Ordered(t, o, n) PROVE Ordered(t, o2, n)
  <2> SUFFICES ASSUME NEW i \in Line(o2, n, "entry"),
                      NEW j \in Line(o2, n, "entry"), i < j
               PROVE  Precedes(t, o2[i].path, o2[j].path)
    BY DEF Ordered
  <2>1. \A m \in Line(o, n, "entry") :
          m \in DOMAIN o /\ m < k /\ o2[m].path = o[m].path
    BY <1>3, <1>7 DEF Line, Grown, KeepsLines
  <2>2. \A m \in Line(o2, n, "entry") : m = k \/ m \in Line(o, n, "entry")
    BY <1>7
  <2>3. CASE i \in Line(o, n, "entry") /\ j \in Line(o, n, "entry")
    BY <1>16, <2>1, <2>3 DEF Ordered
  <2>4. CASE i \in Line(o, n, "entry") /\ j = k
    <3>1. /\ Reached(t, root, o, n, o[i].path) /\ ~Pending(stk, o[i].path)
          /\ o2[i].path = o[i].path
      BY <1>1, <2>1, <2>4 DEF Faithful
    <3>2. o[i].path \in DOMAIN t /\ Under(root, o[i].path)
      BY <3>1 DEF Reached
    <3>3. Precedes(t, o[i].path, path)
      BY <1>1, <1>5, <1>6, <3>1, <3>2, WalkPrecedes
    <3> QED
      BY <1>7, <2>4, <3>1, <3>3
  <2>5. CASE i = k
    <3>1. k \in Nat /\ DOMAIN o = 1 .. Len(o) /\ Len(o) \in Nat
      BY <1>3, Elements
    <3>2. j = k \/ (j \in Int /\ j < k)
      BY <2>1, <2>2, <3>1
    <3> QED
      BY <2>5, <3>1, <3>2
  <2> QED
    BY <2>2, <2>3, <2>4, <2>5
<1> QED
  BY <1>10, <1>15, <1>16

(* The last call returns after its last entry.                             *)
LEMMA ReturnFaithful ==
  ASSUME NEW t \in Trees, NEW root \in Seq(Int), NEW stk, stk /= <<>>,
         Chain(t, root, stk), NEW o, NEW n, Faithful(t, root, stk, o, n),
         \A j \in DOMAIN o : o[j].path \in Seq(Int),
         stk[Len(stk)].i > Len(stk[Len(stk)].entries), stk[Len(stk)].i > 0
  PROVE  Faithful(t, root, Front(stk), o, n)
<1>1. IsSeq(stk) /\ \A j \in Failures(o, n) : o[j].path \in Seq(Int)
  BY DEF Chain, Failures, Line
<1>2. PICK f : f = stk[Len(stk)]
  OBVIOUS
<1>3. PICK new : new = Front(stk)
  OBVIOUS
<1>4. /\ Chain(t, root, new) /\ Len(new) = Len(stk) - 1
      /\ \A d \in 1 .. Len(new) : new[d] = stk[d]
  BY <1>3, ChainReturn
<1>5. /\ Len(stk) \in Nat /\ Len(stk) > 0 /\ DOMAIN stk = 1 .. Len(stk)
      /\ DOMAIN new = 1 .. Len(new) /\ Len(stk) \in DOMAIN stk
  BY <1>1, <1>4, Elements DEF Chain
<1>6. \A d \in DOMAIN new : d \in DOMAIN stk /\ d < Len(stk) /\ new[d] = stk[d]
  BY <1>4, <1>5
<1>7. \A q : Pending(new, q) => Pending(stk, q)
  BY <1>6 DEF Pending
<1>8. \A q : ~Awaits(f, q)
  <2>1. /\ f.i \in Nat /\ f.i /= 0 /\ f.i > Len(f.entries)
        /\ Len(f.entries) \in Nat /\ DOMAIN f.entries = 1 .. Len(f.entries)
    BY <1>2, <1>5, ChainFrames
  <2>2. \A j \in DOMAIN f.entries : ~(f.i <= j)
    BY <2>1
  <2> QED
    BY <2>1, <2>2 DEF Awaits
<1>9. ASSUME NEW q, Pending(stk, q) PROVE Pending(new, q)
  <2>1. PICK d \in DOMAIN stk : Awaits(stk[d], q)
    BY <1>9 DEF Pending
  <2>2. d /= Len(stk)
    BY <1>2, <1>8, <2>1
  <2>3. d \in DOMAIN new
    BY <1>4, <1>5, <2>2
  <2> QED
    BY <1>6, <2>1, <2>3 DEF Pending
<1>10. KeepsLines(o, o, n)
  BY DEF KeepsLines
<1>11. \A d \in DOMAIN new : \A j \in Failures(o, n) : o[j].path /= new[d].dn
  BY <1>6 DEF Faithful, Failures
<1>12. Faithful(t, root, new, o, n)
  BY <1>1, <1>7, <1>9, <1>10, <1>11, StillFaithful
<1> QED
  BY <1>3, <1>12

(* The last call has read its directory.                                   *)
LEMMA OpenedFaithful ==
  ASSUME NEW t \in Trees, NEW root \in Seq(Int), NEW stk, stk /= <<>>,
         Chain(t, root, stk), NEW o, NEW n, Faithful(t, root, stk, o, n),
         \A j \in DOMAIN o : o[j].path \in Seq(Int),
         stk[Len(stk)].i = 0,
         NEW f, Frame(t, f), f.i = 1, f.dn = stk[Len(stk)].dn,
         NEW new, Differs(stk, new, f)
  PROVE  Faithful(t, root, new, o, n)
<1>1. IsSeq(stk) /\ \A j \in Failures(o, n) : o[j].path \in Seq(Int)
  BY DEF Chain, Failures, Line
<1>2. PICK f0 : f0 = stk[Len(stk)]
  OBVIOUS
<1>3. /\ Len(stk) \in Nat /\ Len(stk) > 0 /\ DOMAIN stk = 1 .. Len(stk)
      /\ IsSeq(new) /\ Len(new) = Len(stk) /\ new[Len(stk)] = f
      /\ \A d \in 1 .. Len(stk) - 1 : new[d] = stk[d]
  BY <1>1, Elements DEF Differs
<1>4. DOMAIN new = 1 .. Len(stk)
  BY <1>3, Elements
<1>5. \A q : Pending(stk, q) <=> \/ Awaits(f0, q)
                                 \/ \E d \in 1 .. Len(stk) - 1 : Awaits(stk[d], q)
  BY <1>1, <1>2, <1>3, PendingSplit
<1>6. \A q : Pending(new, q) <=> \/ Awaits(f, q)
                                 \/ \E d \in 1 .. Len(stk) - 1 : Awaits(stk[d], q)
  BY PendingDiffers
<1>7. \A q : Awaits(f, q) => Awaits(f0, q)
  BY <1>2 DEF Awaits
<1>8. ASSUME NEW q \in DOMAIN t, Awaits(f0, q) PROVE Awaits(f, q)
  <2>1. Under(f.dn, q)
    BY <1>2, <1>8 DEF Awaits
  <2>2. Sorted(t, f.dn, f.entries)
    BY DEF Frame
  <2>3. PICK j \in DOMAIN f.entries : f.entries[j] = Through(f.dn, q)
    BY <2>1, <2>2 DEF Sorted
  <2>4. 1 <= j
    BY <2>2, Elements DEF Sorted
  <2> QED
    BY <2>1, <2>3, <2>4 DEF Awaits
<1>9. KeepsLines(o, o, n)
  BY DEF KeepsLines
<1>10. \A d \in DOMAIN new : d \in DOMAIN stk /\ new[d].dn = stk[d].dn
  <2> SUFFICES ASSUME NEW d \in DOMAIN new
               PROVE  d \in DOMAIN stk /\ new[d].dn = stk[d].dn
    OBVIOUS
  <2>1. CASE d = Len(stk)
    BY <1>3, <2>1
  <2>2. CASE d /= Len(stk)
    <3>1. d \in 1 .. Len(stk) - 1
      BY <1>3, <1>4, <2>2
    <3> QED
      BY <1>3, <3>1
  <2> QED
    BY <2>1, <2>2
<1>11. \A d \in DOMAIN new : \A j \in Failures(o, n) : o[j].path /= new[d].dn
  BY <1>10 DEF Faithful, Failures
<1>12. \A q : Pending(new, q) => Pending(stk, q)
  BY <1>5, <1>6, <1>7
<1>13. \A q \in DOMAIN t : Pending(stk, q) => Pending(new, q)
  BY <1>5, <1>6, <1>8
<1> QED
  BY <1>1, <1>9, <1>11, <1>12, <1>13, StillFaithful

(* Changing fields of the last call is giving the stack a new last call.   *)
Turned(f0) ==
  [dn |-> f0.dn, pstr |-> f0.pstr, entries |-> f0.entries, i |-> f0.i + 1]
Opened(f0, e) ==
  [dn |-> f0.dn, pstr |-> f0.pstr, entries |-> e, i |-> 1]
LEMMA LastChanged ==
  ASSUME NEW stk, IsSeq(stk), stk /= <<>>, NEW t, Frame(t, stk[Len(stk)]), NEW e
  PROVE  /\ [stk EXCEPT ![Len(stk)].i = @ + 1] =
              [stk EXCEPT ![Len(stk)] = Turned(stk[Len(stk)])]
         /\ [stk EXCEPT ![Len(stk)].entries = e, ![Len(stk)].i = 1] =
              [stk EXCEPT ![Len(stk)] = Opened(stk[Len(stk)], e)]
<1>1. Len(stk) \in DOMAIN stk
  BY Elements
<1>2. PICK f0 : f0 = stk[Len(stk)]
  OBVIOUS
<1>3. f0 = [dn |-> f0.dn, pstr |-> f0.pstr, entries |-> f0.entries, i |-> f0.i]
  BY <1>2 DEF Frame
<1>4. [f0 EXCEPT !.i = @ + 1] = Turned(f0)
  BY <1>3 DEF Turned
<1>5. [[f0 EXCEPT !.entries = e] EXCEPT !.i = 1] = Opened(f0, e)
  <2>1. PICK g : g = [f0 EXCEPT !.entries = e]
    OBVIOUS
  <2>2. g = [dn |-> f0.dn, pstr |-> f0.pstr, entries |-> e, i |-> f0.i]
    BY <1>3, <2>1
  <2>3. [g EXCEPT !.i = 1] = Opened(f0, e)
    BY <2>2 DEF Opened
  <2> QED
    BY <2>1, <2>3
<1>6. [stk EXCEPT ![Len(stk)].i = @ + 1] = [stk EXCEPT ![Len(stk)] = Turned(f0)]
  BY <1>1, <1>2, <1>4
<1>7. [stk EXCEPT ![Len(stk)].entries = e, ![Len(stk)].i = 1] =
        [stk EXCEPT ![Len(stk)] = Opened(f0, e)]
  BY <1>1, <1>2, <1>5
<1> QED
  BY <1>2, <1>6, <1>7

-----------------------------------------------------------------------------
(* The steps.  While processDir runs it walks over args[arg].              *)
LEMMA Walking ==
  ASSUME DirInv, stack /= <<>>
  PROVE  /\ fs \in Trees /\ arg \in DOMAIN args /\ arg \in Nat
         /\ arg <= Len(args) /\ args[arg] \in Seq(Int)
         /\ IsSeq(stack) /\ Len(stack) \in Nat /\ Len(stack) > 0
         /\ DOMAIN stack = 1 .. Len(stack) /\ Len(stack) \in DOMAIN stack
         /\ Chain(fs, args[arg], stack)
         /\ Faithful(fs, args[arg], stack, out, arg)
         /\ IsSeq(out) /\ \A j \in DOMAIN out : out[j].path \in Seq(Int)
         /\ Frame(fs, Top)
<1>1. /\ fs \in Trees /\ args \in Seq(Seq(Int)) /\ arg \in 1 .. Len(args) + 2
      /\ IsSeq(out) /\ \A j \in DOMAIN out : out[j].path \in Seq(Int)
  BY DEF DirInv, Types
<1>2. Len(args) \in Nat /\ DOMAIN args = 1 .. Len(args)
  BY <1>1
<1>3. arg <= Len(args) /\ arg \in Nat /\ arg \in DOMAIN args
  BY <1>1, <1>2 DEF DirInv, Walks
<1>4. args[arg] \in Seq(Int) /\ Chain(fs, args[arg], stack)
  BY <1>1, <1>3 DEF DirInv, Walks
<1>5. Faithful(fs, args[arg], stack, out, arg)
  BY <1>3 DEF DirInv, Lists
<1>6. /\ IsSeq(stack) /\ Len(stack) \in Nat /\ Len(stack) > 0
      /\ DOMAIN stack = 1 .. Len(stack) /\ Len(stack) \in DOMAIN stack
  BY <1>4, Elements DEF Chain
<1>7. Frame(fs, Top)
  BY <1>4, <1>6 DEF Chain, Top
<1> QED
  BY <1>1, <1>3, <1>4, <1>5, <1>6, <1>7

(* A step of the walk.                                                     *)
LEMMA WalkStep ==
  ASSUME DirInv, stack /= <<>>, UNCHANGED <<input, arg>>,
         IsSeq(out'),
         \A j \in DOMAIN out' : out'[j].path \in Seq(Int) /\ out'[j].arg \in 1 .. arg,
         Chain(fs, args[arg], stack'),
         Faithful(fs, args[arg], stack', out', arg),
         Ordered(fs, out, arg) => Ordered(fs, out', arg),
         \A n : n /= arg => SameLines(out, out', n),
         dirsOpen' = Reading(stack')
  PROVE  DirInv'
<1>1. fs' = fs /\ args' = args /\ arg' = arg
  BY DEF input
<1>2. arg <= Len(args) /\ arg \in Nat /\ arg \in DOMAIN args
  BY Walking
<1>3. Types'
  BY <1>1 DEF DirInv, Types
<1>4. Walks'
  BY <1>1, <1>2 DEF Walks
<1>5. Open'
  BY DEF Open
<1>6. ASSUME NEW n \in DOMAIN args
      PROVE  /\ n < arg => Faithful(fs, args[n], <<>>, out', n)
             /\ Ordered(fs, out', n)
  <2>1. Ordered(fs, out, n)
    BY DEF DirInv, Lists
  <2>2. CASE n = arg
    BY <1>2, <2>1, <2>2
  <2>3. CASE n /= arg
    <3>1. n < arg => Faithful(fs, args[n], <<>>, out, n)
      BY <2>3 DEF DirInv, Lists
    <3>2. SameLines(out, out', n)
      BY <2>3
    <3> QED
      BY <2>1, <3>1, <3>2, SameFaithful
  <2> QED
    BY <2>2, <2>3
<1>7. Lists'
  <2> SUFFICES ASSUME NEW n \in DOMAIN args
               PROVE  /\ n < arg \/ (n = arg /\ (stack' /= <<>> \/ Begun(out', n))) =>
                           Faithful(fs, args[n], IF n = arg THEN stack' ELSE <<>>, out', n)
                      /\ Ordered(fs, out', n)
    BY <1>1 DEF Lists
  <2>1. CASE n = arg
    BY <1>6, <2>1
  <2>2. CASE n /= arg
    BY <1>6, <2>2
  <2> QED
    BY <2>1, <2>2
<1> QED
  BY <1>3, <1>4, <1>5, <1>7 DEF DirInv

(* A line printed by the walk, or none.                                    *)
LEMMA WalkPrints ==
  ASSUME DirInv, stack /= <<>>, NEW l, l.arg = arg, l.path \in Seq(Int),
         out' = Append(out, l)
  PROVE  /\ IsSeq(out') /\ Grown(out, out', l)
         /\ \A j \in DOMAIN out' :
              out'[j].path \in Seq(Int) /\ out'[j].arg \in 1 .. arg
         /\ \A n : n /= arg => SameLines(out, out', n)
<1>3. PICK o2 : o2 = out'
  OBVIOUS
<1>4. IsSeq(out) /\ arg \in Nat /\ arg \in 1 .. arg
  BY Walking DEF DirInv, Types
<1>5. IsSeq(o2) /\ Grown(out, o2, l)
  BY <1>3, <1>4, Growing
<1>6. ASSUME NEW j \in DOMAIN o2
      PROVE  o2[j].path \in Seq(Int) /\ o2[j].arg \in 1 .. arg
  <2>1. CASE j \in DOMAIN out
    <3>1. o2[j] = out[j]
      BY <1>5, <2>1 DEF Grown
    <3> QED
      BY <2>1, <3>1 DEF DirInv, Types
  <2>2. CASE j \notin DOMAIN out
    <3>1. o2[j] = l
      BY <1>5, <2>2 DEF Grown
    <3> QED
      BY <1>4, <3>1
  <2> QED
    BY <2>1, <2>2
<1>7. ASSUME NEW n, n /= arg PROVE SameLines(out, o2, n)
  BY <1>5, <1>7, GrownOther
<1> QED
  BY <1>3, <1>5, <1>6, <1>7

LEMMA WalkSilent ==
  ASSUME DirInv, stack /= <<>>, out' = out
  PROVE  /\ IsSeq(out')
         /\ \A j \in DOMAIN out' :
              out'[j].path \in Seq(Int) /\ out'[j].arg \in 1 .. arg
         /\ \A n : n /= arg => SameLines(out, out', n)
<1>1. \A n : SameLines(out, out, n)
  BY DEF SameLines
<1> QED
  BY <1>1 DEF DirInv, Types

(* What is open before and after.                                          *)
LEMMA ReadingFront ==
  ASSUME NEW t, NEW root, NEW stk, Chain(t, root, stk), stk /= <<>>
  PROVE  Reading(Front(stk)) = Len(stk) - 1
<1>1. PICK new : new = Front(stk)
  OBVIOUS
<1>2. /\ Chain(t, root, new) /\ Len(new) = Len(stk) - 1
      /\ \A d \in 1 .. Len(new) : new[d] = stk[d]
  BY <1>1, ChainReturn
<1>3. Len(stk) \in Nat /\ Len(stk) > 0 /\ DOMAIN stk = 1 .. Len(stk)
  BY Elements DEF Chain
<1>4. CASE new = <<>>
  BY <1>1, <1>2, <1>4 DEF Reading
<1>5. CASE new /= <<>>
  <2>1. Len(new) \in 1 .. Len(new) /\ Len(new) < Len(stk) /\ Len(new) \in DOMAIN stk
    <3>1. IsSeq(new)
      BY <1>2 DEF Chain
    <3>2. Len(new) \in DOMAIN new /\ DOMAIN new = 1 .. Len(new)
      BY <1>5, <3>1, Elements
    <3> QED
      BY <1>2, <1>3, <3>2
  <2>2. new[Len(new)].i > 1 /\ stk[Len(new)].i \in Nat
    BY <1>2, <2>1, ChainFrames DEF Chain
  <2>3. new[Len(new)].i /= 0
    BY <1>2, <2>1, <2>2
  <2> QED
    BY <1>1, <1>2, <2>3 DEF Reading
<1> QED
  BY <1>4, <1>5

-----------------------------------------------------------------------------
LEMMA EntryTurn ==
  ASSUME DirInv, MoreEntries
  PROVE  \E f, new :
           /\ AtEntry(fs, args[arg], stack, out, arg, f, new, Name, Path)
           /\ new = NextEntry
           /\ Chain(fs, args[arg], new) /\ Len(new) = Len(stack)
           /\ new /= <<>> /\ Reading(new) = Len(new)
           /\ dirsOpen = Len(new)
           /\ Path \in Seq(Int) /\ Name \in Int /\ Top.dn \in DOMAIN fs
<1>1. stack /= <<>> /\ Top.i \in DOMAIN Top.entries
  BY DEF MoreEntries
<1>2. PICK root : root = args[arg]
  OBVIOUS
<1>3. /\ fs \in Trees /\ root \in Seq(Int) /\ IsSeq(stack)
      /\ Len(stack) \in DOMAIN stack /\ Chain(fs, root, stack)
      /\ Faithful(fs, root, stack, out, arg)
      /\ \A j \in DOMAIN out : out[j].path \in Seq(Int)
  BY <1>1, <1>2, Walking
<1>4. PICK f0 : f0 = stack[Len(stack)]
  OBVIOUS
<1>5. Frame(fs, f0) /\ f0.i \in DOMAIN f0.entries
  BY <1>1, <1>4, Walking DEF Top
<1>6. f0.i \in Nat /\ f0.i > 0
  <2>1. f0.i \in Nat /\ f0.i /= 0
    BY <1>5 DEF Frame
  <2> QED
    BY <2>1
<1>7. /\ f0.dn \in DOMAIN fs /\ Sorted(fs, f0.dn, f0.entries)
      /\ f0 = [dn |-> f0.dn, pstr |-> f0.pstr, entries |-> f0.entries, i |-> f0.i]
      /\ f0.dn \in Seq(Int)
  BY <1>5, <1>6 DEF Frame
<1>8. Len(f0.entries) \in Nat /\ DOMAIN f0.entries = 1 .. Len(f0.entries)
  BY <1>7, Elements DEF Sorted
<1>9. PICK f : f = Turned(f0)
  OBVIOUS
<1>10. f.dn = f0.dn /\ f.pstr = f0.pstr /\ f.entries = f0.entries /\ f.i = f0.i + 1
  BY <1>9 DEF Turned
<1>11. Frame(fs, f)
  <2>1. f = [dn |-> f.dn, pstr |-> f.pstr, entries |-> f.entries, i |-> f.i]
    BY <1>9 DEF Turned
  <2>2. f.i \in Nat /\ f.i /= 0 /\ f.i <= Len(f.entries) + 1
    BY <1>5, <1>6, <1>8, <1>10
  <2> QED
    BY <1>7, <1>10, <2>1, <2>2 DEF Frame
<1>12. PICK new : new = [stack EXCEPT ![Len(stack)] = f]
  OBVIOUS
<1>13. new = NextEntry
  <2>1. IsSeq(stack) /\ stack /= <<>> /\ Frame(fs, stack[Len(stack)])
    BY <1>1, <1>3, <1>4, <1>5
  <2>2. [stack EXCEPT ![Len(stack)].i = @ + 1] =
          [stack EXCEPT ![Len(stack)] = Turned(stack[Len(stack)])]
    BY <2>1, LastChanged
  <2> QED
    BY <1>4, <1>9, <1>12, <2>2 DEF NextEntry
<1>14. PICK a, path : a = Name /\ path = Path
  OBVIOUS
<1>15. AtEntry(fs, root, stack, out, arg, f, new, a, path)
  <2>1. a = f0.entries[f0.i]
    BY <1>4, <1>14 DEF Name, Top
  <2>2. path = Append(stack[Len(stack)].dn, a)
    BY <1>14 DEF Path, Top
  <2>3. /\ stack[Len(stack)].i \in DOMAIN stack[Len(stack)].entries
        /\ stack[Len(stack)].i > 0
        /\ a = stack[Len(stack)].entries[stack[Len(stack)].i]
        /\ f.dn = stack[Len(stack)].dn /\ f.entries = stack[Len(stack)].entries
        /\ f.i = stack[Len(stack)].i + 1
    BY <1>4, <1>5, <1>6, <1>10, <2>1
  <2> QED
    BY <1>1, <1>3, <1>11, <1>12, <2>2, <2>3 DEF AtEntry
<1>16. /\ Chain(fs, root, new) /\ Len(new) = Len(stack) /\ new[Len(stack)] = f
       /\ new /= <<>> /\ a \in Int /\ path = Append(stack[Len(stack)].dn, a)
  BY <1>15, AtEntryTurns
<1>17. Reading(new) = Len(new)
  <2>1. new[Len(new)].i /= 0
    BY <1>6, <1>10, <1>16
  <2> QED
    BY <2>1 DEF Reading
<1>18. dirsOpen = Len(new)
  <2>1. Reading(stack) = Len(stack)
    BY <1>4, <1>6 DEF Reading
  <2> QED
    BY <1>16, <2>1 DEF DirInv, Open
<1>19. path \in Seq(Int)
  BY <1>4, <1>7, <1>16
<1> QED
  BY <1>2, <1>4, <1>7, <1>13, <1>14, <1>15, <1>16, <1>17, <1>18, <1>19 DEF Top

LEMMA SkipDotsKeeps ==
  ASSUME DirInv, SkipDots
  PROVE  DirInv'
<1>1. /\ MoreEntries /\ Name \in Dots /\ stack' = NextEntry
      /\ UNCHANGED <<input, arg>> /\ out' = out /\ dirsOpen' = dirsOpen
      /\ stack /= <<>>
  BY DEF SkipDots, MoreEntries, Dots
<1>2. PICK f, new : /\ AtEntry(fs, args[arg], stack, out, arg, f, new, Name, Path)
                    /\ new = NextEntry
                    /\ Chain(fs, args[arg], new) /\ Len(new) = Len(stack)
                    /\ new /= <<>> /\ Reading(new) = Len(new)
                    /\ dirsOpen = Len(new)
  BY <1>1, EntryTurn
<1>3. Faithful(fs, args[arg], new, out, arg)
  BY <1>1, <1>2, SkippedFaithful
<1>4. stack' = new
  BY <1>1, <1>2
<1>5. /\ Chain(fs, args[arg], stack') /\ Faithful(fs, args[arg], stack', out', arg)
      /\ Ordered(fs, out, arg) => Ordered(fs, out', arg)
      /\ dirsOpen' = Reading(stack')
  BY <1>1, <1>2, <1>3, <1>4
<1>6. /\ IsSeq(out')
      /\ \A j \in DOMAIN out' :
           out'[j].path \in Seq(Int) /\ out'[j].arg \in 1 .. arg
      /\ \A n : n /= arg => SameLines(out, out', n)
  BY <1>1, WalkSilent
<1> QED
  BY <1>1, <1>5, <1>6, WalkStep

LEMMA LstatFailsKeeps ==
  ASSUME DirInv, LstatFails
  PROVE  DirInv'
<1>1. /\ MoreEntries /\ Name \notin Dots /\ stack' = NextEntry
      /\ UNCHANGED <<input, arg>> /\ out' = Append(out, Printed("gone", Path, {}))
      /\ dirsOpen' = dirsOpen /\ stack /= <<>>
  BY DEF LstatFails, MoreEntries, Dots
<1>2. PICK f, new : /\ AtEntry(fs, args[arg], stack, out, arg, f, new, Name, Path)
                    /\ new = NextEntry
                    /\ Chain(fs, args[arg], new) /\ Len(new) = Len(stack)
                    /\ new /= <<>> /\ Reading(new) = Len(new)
                    /\ dirsOpen = Len(new) /\ Path \in Seq(Int)
  BY <1>1, EntryTurn
<1>3. PICK l : l = Printed("gone", Path, {})
  OBVIOUS
<1>4. PICK o2 : o2 = out'
  OBVIOUS
<1>la. l.arg = arg /\ l.kind = "gone" /\ l.path = Path
  BY <1>3 DEF Printed
<1>lb. out' = Append(out, l) /\ l.path \in Seq(Int)
  BY <1>1, <1>2, <1>3, <1>3, <1>la
<1>5. /\ l.arg = arg /\ l.kind = "gone" /\ l.path = Path
      /\ IsSeq(out') /\ Grown(out, o2, l)
      /\ \A j \in DOMAIN out' :
           out'[j].path \in Seq(Int) /\ out'[j].arg \in 1 .. arg
      /\ \A n : n /= arg => SameLines(out, out', n)
  BY <1>1, <1>4, <1>la, <1>lb, WalkPrints
<1>6. Faithful(fs, args[arg], new, o2, arg)
  BY <1>1, <1>2, <1>5, GoneFaithful
<1>7. Ordered(fs, out, arg) => Ordered(fs, o2, arg)
  <2>1. /\ Line(o2, arg, "entry") = Line(out, arg, "entry")
        /\ \A j \in Line(out, arg, "entry") : o2[j] = out[j]
    BY <1>5, GrownLines
  <2> QED
    BY <2>1 DEF Ordered
<1>8. /\ Chain(fs, args[arg], stack') /\ Faithful(fs, args[arg], stack', out', arg)
      /\ Ordered(fs, out, arg) => Ordered(fs, out', arg)
      /\ dirsOpen' = Reading(stack')
  BY <1>1, <1>2, <1>4, <1>6, <1>7
<1> QED
  BY <1>1, <1>5, <1>8, WalkStep

LEMMA PrintEntryKeeps ==
  ASSUME DirInv, PrintEntry
  PROVE  DirInv'
<1>1. /\ MoreEntries /\ Name \notin Dots
      /\ UNCHANGED <<input, arg>> /\ dirsOpen' = dirsOpen /\ stack /= <<>>
      /\ stack' = IF IsDir(Top.dn, Name)
                  THEN Append(NextEntry, processDir(Path, Append(Prefix, "blank")))
                  ELSE NextEntry
  BY DEF PrintEntry, MoreEntries, Dots
<1>2. PICK content : out' = Append(out, Printed("entry", Path, content))
  BY DEF PrintEntry
<1>3. PICK f, new : /\ AtEntry(fs, args[arg], stack, out, arg, f, new, Name, Path)
                    /\ new = NextEntry
                    /\ Chain(fs, args[arg], new) /\ Len(new) = Len(stack)
                    /\ new /= <<>> /\ Reading(new) = Len(new)
                    /\ dirsOpen = Len(new) /\ Path \in Seq(Int)
  BY <1>1, EntryTurn
<1>4. PICK l : l = Printed("entry", Path, content)
  OBVIOUS
<1>5. PICK o2 : o2 = out'
  OBVIOUS
<1>la. l.arg = arg /\ l.kind = "entry" /\ l.path = Path
  BY <1>4 DEF Printed
<1>lb. out' = Append(out, l) /\ l.path \in Seq(Int)
  BY <1>1, <1>2, <1>3, <1>4, <1>la
<1>6. /\ l.arg = arg /\ l.kind = "entry" /\ l.path = Path
      /\ IsSeq(out') /\ Grown(out, o2, l)
      /\ \A j \in DOMAIN out' :
           out'[j].path \in Seq(Int) /\ out'[j].arg \in 1 .. arg
      /\ \A n : n /= arg => SameLines(out, out', n)
  BY <1>1, <1>5, <1>la, <1>lb, WalkPrints
<1>7. PICK stk2 : stk2 = stack'
  OBVIOUS
<1>8. PICK g : g = processDir(Path, Append(Prefix, "blank"))
  OBVIOUS
<1>9. Frame(fs, g) /\ g.i = 0 /\ g.dn = Path
  <2>1. /\ g = [dn |-> g.dn, pstr |-> g.pstr, entries |-> g.entries, i |-> g.i]
        /\ g.dn = Path /\ g.i = 0 /\ g.entries = <<>>
    BY <1>8 DEF processDir
  <2> QED
    BY <1>3, <2>1 DEF Frame
<1>10. IsDir(Top.dn, Name) <=> Dir(fs, Path)
  BY <1>1 DEF IsDir, Dir, Path, Dots
<1>11. \/ stk2 = new /\ ~Dir(fs, Path)
       \/ stk2 = Append(new, g) /\ Dir(fs, Path)
  <2>1. stk2 = IF Dir(fs, Path) THEN Append(new, g) ELSE new
    BY <1>1, <1>3, <1>7, <1>8, <1>10
  <2> QED
    BY <2>1
<1>12. CallsOn(fs, Path, new, stk2)
  BY <1>9, <1>11 DEF CallsOn
<1>13. IsSeq(out) /\ fs \in Trees
  BY <1>1, Walking
<1>14. /\ Chain(fs, args[arg], stk2) /\ Faithful(fs, args[arg], stk2, o2, arg)
       /\ Ordered(fs, out, arg) => Ordered(fs, o2, arg)
  BY <1>1, <1>3, <1>6, <1>12, <1>13, PrintedFaithful
<1>15. Reading(stk2) = dirsOpen
  <2>1. CASE stk2 = new
    BY <1>3, <2>1
  <2>2. CASE stk2 = Append(new, g)
    <3>1. IsSeq(new)
      BY <1>3 DEF Chain
    <3>2. PICK s : s = Append(new, g)
      OBVIOUS
    <3>3. /\ IsSeq(s) /\ Len(s) = Len(new) + 1 /\ s[Len(new) + 1] = g
      BY <3>1, <3>2, Appended
    <3>4. s /= <<>> /\ Len(new) \in Nat
      BY <3>1, <3>3, Elements
    <3>5. Reading(s) = Len(new)
      BY <1>9, <3>3, <3>4 DEF Reading
    <3> QED
      BY <1>3, <2>2, <3>2, <3>5
  <2> QED
    BY <1>11, <2>1, <2>2
<1>16. /\ Chain(fs, args[arg], stack') /\ Faithful(fs, args[arg], stack', out', arg)
       /\ Ordered(fs, out, arg) => Ordered(fs, out', arg)
       /\ dirsOpen' = Reading(stack')
  BY <1>1, <1>5, <1>7, <1>14, <1>15
<1> QED
  BY <1>1, <1>6, <1>16, WalkStep

LEMMA OpenDirKeeps ==
  ASSUME DirInv, OpenDir
  PROVE  DirInv'
<1>1. /\ stack /= <<>> /\ UNCHANGED <<input, arg>> /\ out' = out
      /\ dirsOpen' = dirsOpen + 1
      /\ stack' = [stack EXCEPT ![Len(stack)].entries = scandir(Top.dn),
                                ![Len(stack)].i = 1]
  BY DEF OpenDir
<1>2. PICK root : root = args[arg]
  OBVIOUS
<1>3. /\ fs \in Trees /\ root \in Seq(Int) /\ IsSeq(stack)
      /\ Len(stack) \in Nat /\ Len(stack) > 0 /\ DOMAIN stack = 1 .. Len(stack)
      /\ Chain(fs, root, stack)
      /\ Faithful(fs, root, stack, out, arg)
      /\ \A j \in DOMAIN out : out[j].path \in Seq(Int)
  BY <1>1, <1>2, Walking
<1>4. PICK f0 : f0 = stack[Len(stack)]
  OBVIOUS
<1>5. Frame(fs, f0) /\ f0.i = 0 /\ f0.dn \in DOMAIN fs
  BY <1>1, <1>4, Walking DEF Top, OpenDir
<1>6. PICK e : e = scandir(f0.dn)
  OBVIOUS
<1>7. Sorted(fs, f0.dn, e)
  BY <1>3, <1>5, <1>6, ScandirSorts
<1>8. PICK f : f = Opened(f0, e)
  OBVIOUS
<1>9. f.dn = f0.dn /\ f.pstr = f0.pstr /\ f.entries = e /\ f.i = 1
  BY <1>8 DEF Opened
<1>10. Frame(fs, f)
  <2>1. f = [dn |-> f.dn, pstr |-> f.pstr, entries |-> f.entries, i |-> f.i]
    BY <1>8 DEF Opened
  <2>2. Len(e) \in Nat
    BY <1>7, Elements DEF Sorted
  <2>3. f.i \in Nat /\ f.i /= 0 /\ f.i <= Len(f.entries) + 1 /\ f.dn \in Seq(Int)
    BY <1>5, <1>9, <2>2 DEF Frame
  <2> QED
    BY <1>5, <1>7, <1>9, <2>1, <2>3 DEF Frame
<1>11. PICK new : new = [stack EXCEPT ![Len(stack)] = f]
  OBVIOUS
<1>12. stack' = new
  <2>1. IsSeq(stack) /\ stack /= <<>> /\ Frame(fs, stack[Len(stack)])
    BY <1>1, <1>3, <1>4, <1>5
  <2>2. [stack EXCEPT ![Len(stack)].entries = e, ![Len(stack)].i = 1] =
          [stack EXCEPT ![Len(stack)] = Opened(stack[Len(stack)], e)]
    BY <2>1, LastChanged
  <2> QED
    BY <1>1, <1>4, <1>6, <1>8, <1>11, <2>2 DEF Top
<1>13. /\ Chain(fs, root, new) /\ Len(new) = Len(stack) /\ new[Len(stack)] = f
       /\ \A d \in 1 .. Len(stack) - 1 : new[d] = stack[d]
  <2>1. f.dn = stack[Len(stack)].dn
    BY <1>4, <1>9
  <2>2. LET m == [stack EXCEPT ![Len(stack)] = f]
        IN  /\ Chain(fs, root, m) /\ Len(m) = Len(stack) /\ m[Len(stack)] = f
            /\ \A d \in 1 .. Len(stack) - 1 : m[d] = stack[d]
    <3>1. Chain(fs, root, stack) /\ stack /= <<>> /\ Frame(fs, f)
      BY <1>1, <1>3, <1>10
    <3> QED
      BY <2>1, <3>1, ChainTurn
  <2> QED
    BY <1>11, <2>2
<1>14. Differs(stack, new, f)
  BY <1>3, <1>13 DEF Differs, Chain
<1>15. Faithful(fs, root, new, out, arg)
  <2>1. stack[Len(stack)].i = 0 /\ f.dn = stack[Len(stack)].dn /\ f.i = 1
    BY <1>4, <1>5, <1>9
  <2> QED
    BY <1>1, <1>3, <1>10, <1>14, <2>1, OpenedFaithful
<1>16. dirsOpen' = Reading(new)
  <2>1. dirsOpen = Len(stack) - 1
    BY <1>1, <1>4, <1>5 DEF DirInv, Open, Reading
  <2>2. Reading(new) = Len(new)
    BY <1>9, <1>13 DEF Reading
  <2> QED
    BY <1>1, <1>3, <1>13, <2>1, <2>2
<1>17. /\ Chain(fs, args[arg], stack') /\ Faithful(fs, args[arg], stack', out', arg)
       /\ Ordered(fs, out, arg) => Ordered(fs, out', arg)
       /\ dirsOpen' = Reading(stack')
  BY <1>1, <1>2, <1>12, <1>13, <1>15, <1>16
<1>18. /\ IsSeq(out')
       /\ \A j \in DOMAIN out' :
            out'[j].path \in Seq(Int) /\ out'[j].arg \in 1 .. arg
       /\ \A n : n /= arg => SameLines(out, out', n)
  BY <1>1, WalkSilent
<1> QED
  BY <1>1, <1>17, <1>18, WalkStep

LEMMA OpenFailsKeeps ==
  ASSUME DirInv, OpenFails
  PROVE  DirInv'
<1>1. /\ stack /= <<>> /\ UNCHANGED <<input, arg>>
      /\ out' = Append(out, Printed("unreadable", Top.dn, {}))
      /\ dirsOpen' = dirsOpen /\ stack' = Front(stack) /\ Top.i = 0
  BY DEF OpenFails, Return
<1>2. PICK root : root = args[arg]
  OBVIOUS
<1>3. /\ fs \in Trees /\ root \in Seq(Int) /\ IsSeq(stack)
      /\ Len(stack) \in Nat /\ Len(stack) > 0 /\ DOMAIN stack = 1 .. Len(stack)
      /\ Chain(fs, root, stack)
      /\ Faithful(fs, root, stack, out, arg)
      /\ \A j \in DOMAIN out : out[j].path \in Seq(Int)
      /\ Top.dn \in Seq(Int)
  BY <1>1, <1>2, Walking DEF Frame
<1>4. PICK l : l = Printed("unreadable", Top.dn, {})
  OBVIOUS
<1>5. l.arg = arg /\ l.kind = "unreadable" /\ l.path = stack[Len(stack)].dn
  BY <1>4 DEF Printed, Top
<1>6. out' = Append(out, l) /\ l.path \in Seq(Int)
  BY <1>1, <1>3, <1>4 DEF Printed
<1>7. PICK o2 : o2 = out'
  OBVIOUS
<1>8. /\ IsSeq(out') /\ Grown(out, o2, l)
      /\ \A j \in DOMAIN out' :
           out'[j].path \in Seq(Int) /\ out'[j].arg \in 1 .. arg
      /\ \A n : n /= arg => SameLines(out, out', n)
  BY <1>1, <1>5, <1>6, <1>7, WalkPrints
<1>9. Faithful(fs, root, Front(stack), o2, arg)
  <2>1. stack[Len(stack)].i = 0
    BY <1>1 DEF Top
  <2> QED
    BY <1>1, <1>3, <1>5, <1>8, <2>1, UnreadableFaithful
<1>10. Ordered(fs, out, arg) => Ordered(fs, o2, arg)
  <2>1. /\ Line(o2, arg, "entry") = Line(out, arg, "entry")
        /\ \A j \in Line(out, arg, "entry") : o2[j] = out[j]
    BY <1>5, <1>8, GrownLines
  <2> QED
    BY <2>1 DEF Ordered
<1>11. Chain(fs, root, Front(stack))
  BY <1>1, <1>3, ChainReturn
<1>12. dirsOpen' = Reading(Front(stack))
  <2>1. dirsOpen = Len(stack) - 1
    BY <1>1 DEF DirInv, Open, Reading, Top
  <2>2. Reading(Front(stack)) = Len(stack) - 1
    BY <1>1, <1>3, ReadingFront
  <2> QED
    BY <1>1, <2>1, <2>2
<1>13. /\ Chain(fs, args[arg], stack') /\ Faithful(fs, args[arg], stack', out', arg)
       /\ Ordered(fs, out, arg) => Ordered(fs, out', arg)
       /\ dirsOpen' = Reading(stack')
  BY <1>1, <1>2, <1>7, <1>9, <1>10, <1>11, <1>12
<1> QED
  BY <1>1, <1>8, <1>13, WalkStep

LEMMA CloseDirKeeps ==
  ASSUME DirInv, CloseDir
  PROVE  DirInv'
<1>1. /\ stack /= <<>> /\ UNCHANGED <<input, arg>> /\ out' = out
      /\ dirsOpen' = dirsOpen - 1 /\ stack' = Front(stack)
      /\ Top.i > Len(Top.entries) /\ Top.i > 0
  BY DEF CloseDir, Return
<1>2. PICK root : root = args[arg]
  OBVIOUS
<1>3. /\ fs \in Trees /\ root \in Seq(Int) /\ IsSeq(stack)
      /\ Len(stack) \in Nat /\ Len(stack) > 0 /\ DOMAIN stack = 1 .. Len(stack)
      /\ Chain(fs, root, stack)
      /\ Faithful(fs, root, stack, out, arg)
      /\ \A j \in DOMAIN out : out[j].path \in Seq(Int)
      /\ Top.i \in Nat
  BY <1>1, <1>2, Walking DEF Frame
<1>4. Faithful(fs, root, Front(stack), out, arg)
  <2>1. /\ stack[Len(stack)].i > Len(stack[Len(stack)].entries)
        /\ stack[Len(stack)].i > 0
    BY <1>1 DEF Top
  <2> QED
    BY <1>1, <1>3, <2>1, ReturnFaithful
<1>5. Chain(fs, root, Front(stack))
  BY <1>1, <1>3, ChainReturn
<1>6. dirsOpen' = Reading(Front(stack))
  <2>1. Top.i /= 0
    BY <1>1, <1>3
  <2>2. dirsOpen = Len(stack)
    BY <1>1, <2>1 DEF DirInv, Open, Reading, Top
  <2>3. Reading(Front(stack)) = Len(stack) - 1
    BY <1>1, <1>3, ReadingFront
  <2> QED
    BY <1>1, <2>2, <2>3
<1>7. /\ Chain(fs, args[arg], stack') /\ Faithful(fs, args[arg], stack', out', arg)
      /\ Ordered(fs, out, arg) => Ordered(fs, out', arg)
      /\ dirsOpen' = Reading(stack')
  BY <1>1, <1>2, <1>4, <1>5, <1>6
<1>8. /\ IsSeq(out')
      /\ \A j \in DOMAIN out' :
           out'[j].path \in Seq(Int) /\ out'[j].arg \in 1 .. arg
      /\ \A n : n /= arg => SameLines(out, out', n)
  BY <1>1, WalkSilent
<1> QED
  BY <1>1, <1>7, <1>8, WalkStep

-----------------------------------------------------------------------------
(* What main prints between the arguments.                                 *)
Fit(o, a) ==
  IsSeq(o) /\ \A j \in DOMAIN o : o[j].path \in Seq(Int) /\ o[j].arg \in 1 .. a
Quiet(r, a) ==
  /\ IsSeq(r)
  /\ \A j \in DOMAIN r : /\ r[j].kind \notin {"entry", "gone", "unreadable"}
                         /\ r[j].path \in Seq(Int) /\ r[j].arg = a
Follows(o, o2, a) ==
  \A n : SameLines(o, o2, n) /\ (Begun(o2, n) => Begun(o, n) \/ n = a)
LEMMA MainPrints ==
  ASSUME NEW a \in Nat \ {0}, NEW o, Fit(o, a), NEW r, Quiet(r, a),
         NEW o2, o2 = o \o r
  PROVE  Fit(o2, a) /\ Follows(o, o2, a)
<1>1. /\ IsSeq(o) /\ IsSeq(r)
      /\ \A j \in DOMAIN r : r[j].kind \notin {"entry", "gone", "unreadable"}
  BY DEF Fit, Quiet
<1>2. ASSUME NEW n
      PROVE  /\ IsSeq(o2) /\ SameLines(o, o2, n)
             /\ \A j \in DOMAIN o2 : \/ j \in DOMAIN o /\ o2[j] = o[j]
                                     \/ \E i \in DOMAIN r : o2[j] = r[i]
  <2>1. LET s == o \o r
        IN  /\ IsSeq(s) /\ SameLines(o, s, n)
            /\ \A j \in DOMAIN s : \/ j \in DOMAIN o /\ s[j] = o[j]
                                   \/ \E i \in DOMAIN r : s[j] = r[i]
            /\ \A j \in DOMAIN o : j \in DOMAIN s
    BY <1>1, QuietLines
  <2> QED
    BY <2>1
<1>3. ASSUME NEW j \in DOMAIN o2
      PROVE  o2[j].path \in Seq(Int) /\ o2[j].arg \in 1 .. a
  <2>1. CASE j \in DOMAIN o /\ o2[j] = o[j]
    BY <2>1 DEF Fit
  <2>2. CASE \E i \in DOMAIN r : o2[j] = r[i]
    <3>1. a \in 1 .. a
      OBVIOUS
    <3> QED
      BY <2>2, <3>1 DEF Quiet
  <2> QED
    BY <1>2, <2>1, <2>2
<1>4. ASSUME NEW n, Begun(o2, n) PROVE Begun(o, n) \/ n = a
  <2>1. PICK j \in DOMAIN o2 : o2[j].arg = n
    BY <1>4 DEF Begun
  <2>2. CASE j \in DOMAIN o /\ o2[j] = o[j]
    BY <2>1, <2>2 DEF Begun
  <2>3. CASE \E i \in DOMAIN r : o2[j] = r[i]
    BY <2>1, <2>3 DEF Quiet
  <2> QED
    BY <1>2, <2>1, <2>2, <2>3
<1> QED
  BY <1>2, <1>3, <1>4 DEF Fit, Follows

LEMMA FollowsOn ==
  ASSUME NEW a, NEW o, NEW o2, NEW o3, Follows(o, o2, a), Follows(o2, o3, a)
  PROVE  Follows(o, o3, a)
<1> SUFFICES ASSUME NEW n
             PROVE  SameLines(o, o3, n) /\ (Begun(o3, n) => Begun(o, n) \/ n = a)
  BY DEF Follows
<1>1. /\ SameLines(o, o2, n) /\ (Begun(o2, n) => Begun(o, n) \/ n = a)
      /\ SameLines(o2, o3, n) /\ (Begun(o3, n) => Begun(o2, n) \/ n = a)
  BY DEF Follows
<1>2. SameLines(o, o3, n)
  BY <1>1 DEF SameLines
<1> QED
  BY <1>1, <1>2

LEMMA QuietOne ==
  ASSUME NEW a
  PROVE  /\ Quiet(<<>>, a)
         /\ \A l : /\ l.kind \notin {"entry", "gone", "unreadable"}
                  /\ l.path \in Seq(Int) /\ l.arg = a => Quiet(<<l>>, a)
<1>1. PICK r : r = <<>>
  OBVIOUS
<1>2. r \in Seq({})
  BY <1>1
<1>3. IsSeq(r) /\ DOMAIN r = {}
  <2>1. IsSeq(r)
    BY <1>2, OwnElements
  <2>2. Len(r) = 0
    BY <1>1
  <2> QED
    BY <2>1, <2>2, Elements
<1>4. Quiet(r, a)
  BY <1>3 DEF Quiet
<1>5. ASSUME NEW l, l.kind \notin {"entry", "gone", "unreadable"},
             l.path \in Seq(Int), l.arg = a
      PROVE  Quiet(<<l>>, a)
  <2>1. PICK s : s = <<l>>
    OBVIOUS
  <2>2. s \in Seq({l}) /\ Len(s) = 1 /\ s[1] = l
    BY <2>1
  <2>3. IsSeq(s)
    BY <2>2, OwnElements
  <2>4. DOMAIN s = 1 .. 1
    BY <2>2, <2>3, Elements
  <2>5. Quiet(s, a)
    BY <1>5, <2>2, <2>3, <2>4 DEF Quiet
  <2> QED
    BY <2>1, <2>5
<1> QED
  BY <1>1, <1>4, <1>5

LEMMA StartArgumentKeeps ==
  ASSUME DirInv, StartArgument
  PROVE  DirInv'
<1>1. /\ stack = <<>> /\ arg <= Len(args) /\ UNCHANGED <<input, arg>>
      /\ \A j \in DOMAIN out : out[j].arg < arg
      /\ dirsOpen' = dirsOpen
  BY DEF StartArgument
<1>2. fs' = fs /\ args' = args /\ arg' = arg
  BY <1>1 DEF input
<1>3. PICK root : root = args[arg]
  OBVIOUS
<1>4. /\ fs \in Trees /\ args \in Seq(Seq(Int)) /\ Len(args) \in Nat
      /\ arg \in Nat \ {0} /\ arg \in DOMAIN args /\ root \in Seq(Int)
      /\ DOMAIN args = 1 .. Len(args)
  <2>1. args \in Seq(Seq(Int)) /\ arg \in 1 .. Len(args) + 2 /\ fs \in Trees
    BY DEF DirInv, Types
  <2>2. Len(args) \in Nat /\ DOMAIN args = 1 .. Len(args)
    BY <2>1
  <2>3. arg \in Nat \ {0} /\ arg \in DOMAIN args
    BY <1>1, <2>1, <2>2
  <2> QED
    BY <1>3, <2>1, <2>2, <2>3
<1>5. Fit(out', arg) /\ Follows(out, out', arg)
  <2>1. PICK r1 : r1 = IF "s" \in flags THEN <<Printed("header", <<>>, {})>> ELSE <<>>
    OBVIOUS
  <2>2. PICK r2 : r2 = <<Printed("base", args[arg], {})>>
    OBVIOUS
  <2>3. out' = (out \o r1) \o r2
    BY <2>1, <2>2 DEF StartArgument
  <2>4. Quiet(r1, arg)
    <3>1. PICK l : l = Printed("header", <<>>, {})
      OBVIOUS
    <3>2. l.kind = "header" /\ l.path \in Seq(Int) /\ l.arg = arg
      BY <3>1 DEF Printed
    <3>3. Quiet(<<l>>, arg) /\ Quiet(<<>>, arg)
      BY <3>2, QuietOne
    <3> QED
      BY <2>1, <3>1, <3>3
  <2>5. Quiet(r2, arg)
    <3>1. PICK l : l = Printed("base", args[arg], {})
      OBVIOUS
    <3>2. l.kind = "base" /\ l.path \in Seq(Int) /\ l.arg = arg
      BY <1>3, <1>4, <3>1 DEF Printed
    <3>3. Quiet(<<l>>, arg)
      BY <3>2, QuietOne
    <3> QED
      BY <2>2, <3>1, <3>3
  <2>6. Fit(out, arg)
    BY DEF Fit, DirInv, Types
  <2>7. PICK o1 : o1 = out \o r1
    OBVIOUS
  <2>8. Fit(o1, arg) /\ Follows(out, o1, arg)
    BY <1>4, <2>4, <2>6, <2>7, MainPrints
  <2>9. PICK o2 : o2 = o1 \o r2
    OBVIOUS
  <2>10. Fit(o2, arg) /\ Follows(o1, o2, arg)
    BY <1>4, <2>5, <2>8, <2>9, MainPrints
  <2>11. out' = o2
    BY <2>3, <2>7, <2>9
  <2> QED
    BY <2>8, <2>10, <2>11, FollowsOn
<1>6. PICK f : f = processDir(args[arg], <<IF "t" \in flags THEN "bar" ELSE "blank">>)
  OBVIOUS
<1>7. stack' = <<f>>
  BY <1>6 DEF StartArgument
<1>8. /\ f = [dn |-> f.dn, pstr |-> f.pstr, entries |-> f.entries, i |-> f.i]
      /\ f.dn = root /\ f.i = 0 /\ f.entries = <<>>
  BY <1>3, <1>6 DEF processDir
<1>9. Frame(fs, f)
  BY <1>4, <1>8 DEF Frame
<1>10. Chain(fs, root, <<f>>)
  BY <1>4, <1>8, <1>9, ChainFirst
<1>11. PICK stk : stk = <<f>>
  OBVIOUS
<1>12. IsSeq(stk) /\ Len(stk) = 1 /\ stk[1] = f /\ stk /= <<>>
  BY <1>10, <1>11 DEF Chain
<1>13. DOMAIN stk = 1 .. 1
  BY <1>12, Elements
<1>14. Open'
  <2>1. dirsOpen = 0
    BY <1>1 DEF DirInv, Open, Reading
  <2>2. Reading(stk) = 0
    BY <1>8, <1>12 DEF Reading
  <2> QED
    BY <1>1, <1>7, <1>11, <2>1, <2>2 DEF Open
<1>15. Types'
  BY <1>2, <1>5 DEF DirInv, Types, Fit
<1>16. Walks'
  BY <1>1, <1>2, <1>3, <1>7, <1>10 DEF Walks
<1>17. PICK o2 : o2 = out'
  OBVIOUS
<1>18. Faithful(fs, root, stk, o2, arg)
  <2>1. ASSUME NEW k \in {"entry", "gone", "unreadable"}
        PROVE  Line(o2, arg, k) = {}
    <3>1. Line(o2, arg, k) = Line(out, arg, k)
      BY <1>5, <1>17 DEF Follows, SameLines
    <3>2. \A j \in DOMAIN out : out[j].arg /= arg
      BY <1>1, <1>4 DEF DirInv, Types
    <3> QED
      BY <3>1, <3>2 DEF Line
  <2>2. ASSUME NEW q, Under(root, q) PROVE Pending(stk, q)
    BY <1>8, <1>12, <1>13, <2>2 DEF Pending, Awaits
  <2> QED
    BY <2>1, <2>2 DEF Faithful, Reached
<1>19. Lists'
  <2> SUFFICES ASSUME NEW n \in DOMAIN args
               PROVE  /\ n < arg \/ n = arg =>
                           Faithful(fs, args[n], IF n = arg THEN stk ELSE <<>>, o2, n)
                      /\ Ordered(fs, o2, n)
    BY <1>2, <1>7, <1>11, <1>17 DEF Lists
  <2>1. SameLines(out, o2, n) /\ Ordered(fs, out, n)
    BY <1>5, <1>17 DEF Follows, DirInv, Lists
  <2>2. Ordered(fs, o2, n)
    BY <2>1, SameFaithful
  <2>3. CASE n = arg
    BY <1>3, <1>18, <2>2, <2>3
  <2>4. CASE n /= arg
    <3>1. n < arg => Faithful(fs, args[n], <<>>, out, n)
      BY <2>4 DEF DirInv, Lists
    <3>2. n < arg => Faithful(fs, args[n], <<>>, o2, n)
      BY <2>1, <3>1, SameFaithful
    <3> QED
      BY <2>2, <2>4, <3>2
  <2> QED
    BY <2>3, <2>4
<1> QED
  BY <1>14, <1>15, <1>16, <1>19 DEF DirInv

(* After the last line of an argument main goes on to the next.            *)
LEMMA MainStep ==
  ASSUME DirInv, stack = <<>>, stack' = <<>>, UNCHANGED <<input, dirsOpen>>,
         arg' = arg + 1, arg <= Len(args) + 1,
         arg <= Len(args) => Begun(out, arg),
         NEW r, Quiet(r, arg), out' = out \o r
  PROVE  DirInv'
<1>1. fs' = fs /\ args' = args /\ arg' = arg + 1 /\ dirsOpen' = dirsOpen
  BY DEF input
<1>2. /\ fs \in Trees /\ args \in Seq(Seq(Int)) /\ Len(args) \in Nat
      /\ arg \in Nat \ {0} /\ DOMAIN args = 1 .. Len(args)
      /\ arg + 1 \in 1 .. Len(args) + 2
  <2>1. args \in Seq(Seq(Int)) /\ arg \in 1 .. Len(args) + 2 /\ fs \in Trees
    BY DEF DirInv, Types
  <2>2. Len(args) \in Nat /\ DOMAIN args = 1 .. Len(args)
    BY <2>1
  <2> QED
    BY <2>1, <2>2
<1>3. PICK o2 : o2 = out'
  OBVIOUS
<1>4. Fit(o2, arg) /\ Follows(out, o2, arg)
  <2>1. Fit(out, arg)
    BY DEF Fit, DirInv, Types
  <2> QED
    BY <1>2, <1>3, <2>1, MainPrints
<1>5. Types'
  <2>1. \A j \in DOMAIN o2 : o2[j].arg \in 1 .. arg + 1
    BY <1>2, <1>4 DEF Fit
  <2> QED
    BY <1>1, <1>2, <1>3, <1>4, <2>1 DEF Types, Fit
<1>6. Walks'
  BY <1>1, ChainEmpty DEF Walks
<1>7. Open'
  BY <1>1 DEF DirInv, Open
<1>8. Lists'
  <2> SUFFICES ASSUME NEW n \in DOMAIN args
               PROVE  /\ n < arg + 1 \/ (n = arg + 1 /\ Begun(o2, n)) =>
                           Faithful(fs, args[n], <<>>, o2, n)
                      /\ Ordered(fs, o2, n)
    BY <1>1, <1>3 DEF Lists
  <2>1. SameLines(out, o2, n) /\ Ordered(fs, out, n)
    BY <1>4 DEF Follows, DirInv, Lists
  <2>2. n < arg \/ n = arg => Faithful(fs, args[n], <<>>, out, n)
    <3>1. n = arg => Begun(out, n)
      BY <1>2
    <3> QED
      BY <3>1 DEF DirInv, Lists
  <2>3. n = arg + 1 => ~Begun(o2, n)
    BY <1>2, <1>4 DEF Begun, Fit
  <2>4. n < arg + 1 => n < arg \/ n = arg
    BY <1>2
  <2> QED
    BY <2>1, <2>2, <2>3, <2>4, SameFaithful
<1> QED
  BY <1>5, <1>6, <1>7, <1>8 DEF DirInv

LEMMA FinishArgumentKeeps ==
  ASSUME DirInv, FinishArgument
  PROVE  DirInv'
<1>1. /\ stack = <<>> /\ stack' = <<>> /\ UNCHANGED <<input, dirsOpen>>
      /\ arg' = arg + 1 /\ arg <= Len(args) /\ out /= <<>>
      /\ Last(out).arg = arg /\ out' = out \o Summary
  BY DEF FinishArgument, ArgumentDone
<1>2. args \in Seq(Seq(Int)) /\ arg \in 1 .. Len(args) + 2 /\ IsSeq(out)
  BY DEF DirInv, Types
<1>3. Len(args) \in Nat /\ DOMAIN args = 1 .. Len(args)
  BY <1>2
<1>4. arg <= Len(args) + 1 /\ args[arg] \in Seq(Int)
  BY <1>1, <1>2, <1>3
<1>5. Begun(out, arg)
  <2>1. Len(out) \in DOMAIN out
    BY <1>1, <1>2, Elements
  <2>2. out[Len(out)].arg = arg
    BY <1>1 DEF Last
  <2> QED
    BY <2>1, <2>2 DEF Begun
<1>6. Quiet(Summary, arg)
  <2>1. PICK l : l = Printed("summary", args[arg], tstat)
    OBVIOUS
  <2>2. l.kind = "summary" /\ l.path \in Seq(Int) /\ l.arg = arg
    BY <1>4, <2>1 DEF Printed
  <2>3. Quiet(<<l>>, arg) /\ Quiet(<<>>, arg)
    BY <2>2, QuietOne
  <2> QED
    BY <2>1, <2>3 DEF Summary
<1> QED
  BY <1>1, <1>4, <1>5, <1>6, MainStep

LEMMA GrandTotalKeeps ==
  ASSUME DirInv, GrandTotal
  PROVE  DirInv'
<1>1. args \in Seq(Seq(Int))
  BY DEF DirInv, Types
<1>2. Len(args) \in Nat
  BY <1>1
<1>3. PICK r : r = IF "s" \in flags /\ Len(args) > 1
                   THEN <<Printed("total", <<>>, total)>> ELSE <<>>
  OBVIOUS
<1>4. /\ stack' = stack /\ UNCHANGED <<input, dirsOpen>> /\ arg' = arg + 1
      /\ arg = Len(args) + 1 /\ out' = out \o r
  BY <1>3 DEF GrandTotal
<1>5. arg <= Len(args) + 1 /\ ~(arg <= Len(args))
  BY <1>2, <1>4
<1>6. stack = <<>>
  BY <1>5 DEF DirInv, Walks
<1>7. Quiet(r, arg)
  <2>1. PICK l : l = Printed("total", <<>>, total)
    OBVIOUS
  <2>2. l.kind = "total" /\ l.path \in Seq(Int) /\ l.arg = arg
    BY <2>1 DEF Printed
  <2>3. Quiet(<<l>>, arg) /\ Quiet(<<>>, arg)
    BY <2>2, QuietOne
  <2> QED
    BY <1>3, <2>1, <2>3
<1>8. stack' = <<>>
  BY <1>4, <1>6
<1> QED
  BY <1>4, <1>5, <1>6, <1>7, <1>8, MainStep

-----------------------------------------------------------------------------
LEMMA InitDirInv == Init => DirInv
<1> SUFFICES ASSUME Init PROVE DirInv
  OBVIOUS
<1>1. /\ fs \in Trees /\ stack = <<>> /\ out = <<>> /\ dirsOpen = 0
      /\ \/ args \in Seq(Seq(Int)) /\ arg = 1
         \/ args = <<>> /\ arg = 2
  <2>1. PICK argv \in CommandLines :
             /\ args = IF Usage(argv) THEN <<>> ELSE Directories(argv)
             /\ arg = IF Usage(argv) THEN 2 ELSE 1
    BY DEF Init
  <2>2. Directories(argv) \in Seq(Seq(Int))
    BY PathsAssumption
  <2> QED
    BY <2>1, <2>2 DEF Init
<1>2. args \in Seq(Seq(Int))
  <2>1. \A S : <<>> \in Seq(S)
    OBVIOUS
  <2>2. <<>> \in Seq(Seq(Int))
    BY <2>1, Zenon
  <2> QED
    BY <1>1, <2>2
<1>3. Len(args) \in Nat /\ DOMAIN args = 1 .. Len(args)
  BY <1>2
<1>4. IsSeq(out) /\ DOMAIN out = {}
  <2>1. out \in Seq({}) /\ Len(out) = 0
    BY <1>1
  <2>2. IsSeq(out)
    BY <2>1, OwnElements
  <2> QED
    BY <2>1, <2>2, Elements
<1>5. arg \in 1 .. Len(args) + 2 /\ \A n \in DOMAIN args : ~(n < arg)
  <2>1. CASE arg = 1
    BY <1>3, <2>1
  <2>2. CASE args = <<>> /\ arg = 2
    <3>1. Len(args) = 0
      BY <2>2
    <3> QED
      BY <1>3, <2>2, <3>1
  <2> QED
    BY <1>1, <2>1, <2>2
<1>6. Types
  BY <1>1, <1>2, <1>4, <1>5 DEF Types
<1>7. Walks
  BY <1>1, ChainEmpty DEF Walks
<1>8. Open
  BY <1>1 DEF Open, Reading
<1>9. Lists
  BY <1>1, <1>4, <1>5 DEF Lists, Begun, Ordered, Line
<1> QED
  BY <1>6, <1>7, <1>8, <1>9 DEF DirInv

LEMMA StepDirInv == DirInv /\ [Next]_vars => DirInv'
<1> SUFFICES ASSUME DirInv, [Next]_vars PROVE DirInv'
  OBVIOUS
<1>1. CASE StartArgument
  BY <1>1, StartArgumentKeeps
<1>2. CASE OpenDir
  BY <1>2, OpenDirKeeps
<1>3. CASE OpenFails
  BY <1>3, OpenFailsKeeps
<1>4. CASE SkipDots
  BY <1>4, SkipDotsKeeps
<1>5. CASE LstatFails
  BY <1>5, LstatFailsKeeps
<1>6. CASE PrintEntry
  BY <1>6, PrintEntryKeeps
<1>7. CASE CloseDir
  BY <1>7, CloseDirKeeps
<1>8. CASE FinishArgument
  BY <1>8, FinishArgumentKeeps
<1>9. CASE GrandTotal
  BY <1>9, GrandTotalKeeps
<1>10. CASE UNCHANGED vars
  <2>1. /\ fs' = fs /\ args' = args /\ arg' = arg /\ stack' = stack
        /\ out' = out /\ dirsOpen' = dirsOpen
    BY <1>10 DEF vars, input
  <2>2. Types' /\ Walks' /\ Open'
    BY <2>1 DEF DirInv, Types, Walks, Open
  <2>3. Lists'
    BY <2>1 DEF DirInv, Lists
  <2> QED
    BY <2>2, <2>3 DEF DirInv
<1> QED
  BY <1>1, <1>2, <1>3, <1>4, <1>5, <1>6, <1>7, <1>8, <1>9, <1>10 DEF Next

-----------------------------------------------------------------------------
(* The reference of the model, Listed, is what is reached, and its order   *)
(* that of the walk.                                                       *)
LEMMA AboveUnder ==
  ASSUME NEW q \in Seq(Int), NEW p \in Seq(Int)
  PROVE  p \in Above(q) <=> Under(p, q)
BY PrefixUnder DEF Above

LEMMA HiddenAbove ==
  ASSUME NEW q \in Seq(Int), NEW root \in Seq(Int), Under(root, q)
  PROVE  Above(q) \ Above(root) =
           {SubSeq(q, 1, m) : m \in Len(root) .. Len(q) - 1}
<1>1. /\ Len(q) \in Nat /\ Len(root) \in Nat /\ 1 <= Len(root)
      /\ Len(root) < Len(q) /\ \A l \in 1 .. Len(root) : root[l] = q[l]
  BY DEF Under
<1>2. ASSUME NEW m \in 1 .. Len(q) - 1
      PROVE  SubSeq(q, 1, m) \in Above(root) <=> m < Len(root)
  <2>1. PICK p : p = SubSeq(q, 1, m)
    OBVIOUS
  <2>2. p \in Seq(Int) /\ Len(p) = m /\ \A l \in 1 .. m : p[l] = q[l]
    <3>1. m \in 0 .. Len(q)
      BY <1>1
    <3> QED
      BY <2>1, <3>1, Beginning
  <2>3. p \in Above(root) <=> Under(p, root)
    BY <2>2, AboveUnder
  <2>4. Under(p, root) => m < Len(root)
    BY <2>2 DEF Under
  <2>5. ASSUME m < Len(root) PROVE Under(p, root)
    <3>1. \A l \in 1 .. m : l \in 1 .. Len(root)
      BY <1>1, <2>5
    <3>2. \A l \in 1 .. Len(p) : p[l] = root[l]
      BY <1>1, <2>2, <3>1
    <3>3. 1 <= Len(p) /\ Len(p) < Len(root)
      BY <1>1, <2>2, <2>5
    <3> QED
      BY <3>2, <3>3 DEF Under
  <2> QED
    BY <2>1, <2>3, <2>4, <2>5
<1>3. \A m : m \in Len(root) .. Len(q) - 1 <=>
               m \in 1 .. Len(q) - 1 /\ ~(m < Len(root))
  BY <1>1
<1>4. ASSUME NEW x
      PROVE  x \in Above(q) \ Above(root) <=>
               \E m \in Len(root) .. Len(q) - 1 : x = SubSeq(q, 1, m)
  <2>1. x \in Above(q) <=> \E m \in 1 .. Len(q) - 1 : x = SubSeq(q, 1, m)
    BY DEF Above
  <2> QED
    BY <1>2, <1>3, <2>1
<1> QED
  BY <1>4

LEMMA ListedReached ==
  ASSUME Types, NEW n \in DOMAIN args, NEW q \in DOMAIN fs
  PROVE  q \in Listed(n) <=> Reached(fs, args[n], out, n, q)
<1>1. q \in Seq(Int) /\ args[n] \in Seq(Int)
  BY TreesAssumption DEF Types
<1>2. args[n] \in Above(q) <=> Under(args[n], q)
  BY <1>1, AboveUnder
<1>3. \A x : x \in Paths(n, "gone") <=> Gone(out, n, x)
  BY DEF Paths, Numbers, Gone, Line
<1>4. \A x : x \in Paths(n, "unreadable") \union Paths(n, "gone") <=>
               Failed(out, n, x)
  BY <1>3 DEF Paths, Numbers, Failed, Line
<1>5. CASE Under(args[n], q)
  <2>1. Above(q) \ Above(args[n]) =
          {SubSeq(q, 1, m) : m \in Len(args[n]) .. Len(q) - 1}
    BY <1>1, <1>5, HiddenAbove
  <2>2. (Above(q) \ Above(args[n])) \intersect
          (Paths(n, "unreadable") \union Paths(n, "gone")) = {} <=>
        \A m \in Len(args[n]) .. Len(q) - 1 : ~Failed(out, n, SubSeq(q, 1, m))
    BY <1>4, <2>1
  <2> QED
    BY <1>2, <1>3, <1>5, <2>2 DEF Listed, Reached
<1>6. CASE ~Under(args[n], q)
  BY <1>2, <1>6 DEF Listed, Reached
<1> QED
  BY <1>5, <1>6

LEMMA PrecedesBefore ==
  ASSUME NEW p \in Seq(Int), NEW q \in Seq(Int), Precedes(fs, p, q)
  PROVE  Before(p, q)
<1>1. CASE Under(p, q)
  BY <1>1, AboveUnder DEF Before
<1>2. ASSUME NEW m \in 1 .. Len(p), m <= Len(q), p[m] /= q[m],
             \A l \in 1 .. m - 1 : p[l] = q[l],
             \/ Dir(fs, SubSeq(p, 1, m)) /\ ~Dir(fs, SubSeq(q, 1, m))
             \/ /\ Dir(fs, SubSeq(p, 1, m)) = Dir(fs, SubSeq(q, 1, m))
                /\ p[m] < q[m]
      PROVE  Before(p, q)
  <2>1. PICK a, b : a = SubSeq(p, 1, m - 1) /\ b = SubSeq(q, 1, m - 1)
    OBVIOUS
  <2>2. m - 1 \in 0 .. Len(p) /\ m - 1 \in 0 .. Len(q)
    BY <1>2
  <2>3. /\ a \in Seq(Int) /\ Len(a) = m - 1 /\ \A l \in 1 .. m - 1 : a[l] = p[l]
        /\ b \in Seq(Int) /\ Len(b) = m - 1 /\ \A l \in 1 .. m - 1 : b[l] = q[l]
    BY <2>1, <2>2, Beginning
  <2>4. a = b
    <3>1. \A l \in 1 .. Len(a) : a[l] = b[l]
      BY <1>2, <2>3
    <3> QED
      BY <2>3, <3>1, SamePath
  <2>5. /\ m <= Len(q) /\ p[m] /= q[m]
        /\ SubSeq(p, 1, m - 1) = SubSeq(q, 1, m - 1)
        /\ LET first == fs[SubSeq(p, 1, m)].type = "dir"
               second == fs[SubSeq(q, 1, m)].type = "dir"
           IN  (first /\ ~second) \/ (first = second /\ p[m] < q[m])
    BY <1>2, <2>1, <2>4, Zenon DEF Dir
  <2> QED
    BY <2>5, Zenon DEF Before
<1> QED
  BY <1>1, <1>2 DEF Precedes

LEMMA DirInvLists == DirInv => EntriesListed
<1> SUFFICES ASSUME DirInv, Done PROVE EntriesListed
  BY DEF EntriesListed
<1>1. args \in Seq(Seq(Int)) /\ arg = Len(args) + 2
  BY DEF DirInv, Types, Done
<1>2. Len(args) \in Nat /\ DOMAIN args = 1 .. Len(args)
  BY <1>1
<1>3. stack = <<>>
  BY <1>1, <1>2 DEF DirInv, Walks
<1>4. dirsOpen = 0
  BY <1>3 DEF DirInv, Open, Reading
<1>5. ASSUME NEW n \in DOMAIN args
      PROVE  /\ Paths(n, "entry") = Listed(n)
             /\ \A i, j \in Numbers(n, "entry") :
                  i < j => Before(out[i].path, out[j].path)
  <2>1. n < arg /\ n /= arg
    BY <1>1, <1>2
  <2>2. Faithful(fs, args[n], <<>>, out, n) /\ Ordered(fs, out, n)
    BY <2>1 DEF DirInv, Lists
  <2>3. \A q \in DOMAIN fs : q \in Listed(n) <=> Reached(fs, args[n], out, n, q)
    BY ListedReached DEF DirInv
  <2>4. \A q \in Listed(n) : q \in DOMAIN fs
    BY DEF Listed
  <2>5. Numbers(n, "entry") = Line(out, n, "entry")
    BY DEF Numbers, Line
  <2>6. \A j \in Line(out, n, "entry") :
          Reached(fs, args[n], out, n, out[j].path) /\ out[j].path \in DOMAIN fs
    BY <2>2 DEF Faithful, Reached
  <2>7. \A q \in DOMAIN fs : Reached(fs, args[n], out, n, q) => Shown(out, n, q)
    BY <2>2, ChainEmpty DEF Faithful
  <2>8. \A q : q \in Paths(n, "entry") <=> Shown(out, n, q)
    BY <2>5 DEF Paths, Shown
  <2>9. Paths(n, "entry") = Listed(n)
    BY <2>3, <2>4, <2>6, <2>7, <2>8 DEF Shown
  <2>10. ASSUME NEW i \in Numbers(n, "entry"), NEW j \in Numbers(n, "entry"), i < j
         PROVE  Before(out[i].path, out[j].path)
    <3>1. Precedes(fs, out[i].path, out[j].path)
      BY <2>2, <2>5, <2>10 DEF Ordered
    <3>2. out[i].path \in Seq(Int) /\ out[j].path \in Seq(Int)
      BY <2>5 DEF DirInv, Types, Line
    <3> QED
      BY <3>1, <3>2, PrecedesBefore
  <2> QED
    BY <2>9, <2>10
<1> QED
  BY <1>4, <1>5 DEF EntriesListed

(* Each entry below an argument is printed once, in order, unless a system *)
(* call failed on it or on the way to it, and every directory that was     *)
(* opened is closed: for every tree, however deep, every command line and  *)
(* any failing calls of opendir, scandir and lstat.                        *)
THEOREM EntriesOnce == Spec => []EntriesListed
<1>1. Init => DirInv
  BY InitDirInv
<1>2. DirInv /\ [Next]_vars => DirInv'
  BY StepDirInv
<1>3. DirInv => EntriesListed
  BY DirInvLists
<1> QED
  BY <1>1, <1>2, <1>3, PTL DEF Spec

-----------------------------------------------------------------------------
(* TreeDrawn.  A column shows whether the entry on its level is the last   *)
(* of the directory that it is in.                                         *)
Beside(q, p) == Len(q) = Len(p) /\ \A l \in 1 .. Len(p) - 1 : q[l] = p[l]
Sooner(t, q, p) ==
  \/ Dir(t, q) /\ ~Dir(t, p)
  \/ Dir(t, q) = Dir(t, p) /\ q[Len(q)] < p[Len(p)]
Ends(t, p) == \A q \in DOMAIN t : Beside(q, p) => q = p \/ Sooner(t, q, p)

(* The prefix of the entry p, in the listing of a directory with a path of *)
(* that length, and the string of a call in the directory p.               *)
Column(t, p, m, last) ==
  IF ~Ends(t, SubSeq(p, 1, m)) THEN "bar"
  ELSE IF last THEN "corner" ELSE "blank"
Drawn(t, base, p, prefix) ==
  /\ IsSeq(prefix) /\ Len(prefix) = Len(p) - base
  /\ \A c \in 1 .. Len(prefix) :
       prefix[c] = Column(t, p, base + c, c = Len(prefix))
Strung(t, base, f) ==
  \E prefix, x : Drawn(t, base, f.dn, prefix) /\ f.pstr = Append(prefix, x)

(* DotsNotLast, for any tree t: where there is an entry, one comes after   *)
(* the dots.                                                               *)
Child(t, dir, a) == a \in Int /\ Append(dir, a) \in DOMAIN t
Tidy(t) ==
  \A dir \in DOMAIN t : \A a : Child(t, dir, a) =>
    \E b : Child(t, dir, b) /\ (~Dir(t, Append(dir, b)) \/ DotDot < b)

(* The dots are not the last that scandir finds then.                      *)
LEMMA DotsInside ==
  ASSUME NEW t \in Trees, Tidy(t), NEW dir \in DOMAIN t, NEW e,
         Sorted(t, dir, e), NEW a, Child(t, dir, a)
  PROVE  Len(e) \in DOMAIN e /\ e[Len(e)] \notin Dots
<1>1. /\ IsSeq(e) /\ Len(e) \in Nat /\ DOMAIN e = 1 .. Len(e)
      /\ dir \in Seq(Int) /\ Len(dir) \in Nat /\ Len(dir) > 0
  BY Elements, TreesAssumption, LenProperties DEF Sorted
<1>2. PICK b \in Int : /\ Append(dir, b) \in DOMAIN t
                       /\ ~Dir(t, Append(dir, b)) \/ DotDot < b
  BY DEF Tidy, Child
<1>3. PICK q : q = Append(dir, b)
  OBVIOUS
<1>4. Under(dir, q) /\ Through(dir, q) = b
  BY <1>1, <1>3, Extended
<1>5. PICK j \in DOMAIN e : e[j] = b
  BY <1>2, <1>3, <1>4 DEF Sorted
<1>6. b \notin Dots
  <2>1. /\ q \in Seq(Int) /\ Len(q) = Len(dir) + 1 /\ q[Len(dir) + 1] = b
    BY <1>1, <1>3, Extended
  <2>2. Len(dir) \in 1 .. Len(q) /\ Len(dir) < Len(q)
    BY <1>1, <2>1
  <2> QED
    BY <1>2, <1>3, <2>1, <2>2, Ancestors
<1>7. PICK d \in DOMAIN e : e[d] = DotDot
  BY DEF Sorted
<1>8. PICK N : N = Len(e)
  OBVIOUS
<1>9. N \in DOMAIN e /\ \A k \in DOMAIN e : k = N \/ k < N
  BY <1>1, <1>5, <1>8
<1>10. ASSUME e[N] \in Dots PROVE FALSE
  <2>1. e[N] = DotDot
    <3> SUFFICES ASSUME e[N] = Dot, d < N PROVE FALSE
      BY <1>7, <1>9, <1>10 DEF Dots
    <3>1. InOrder(t, dir, DotDot, Dot)
      BY <1>7, <1>9 DEF Sorted
    <3> QED
      BY <3>1, DotsAssumption DEF InOrder, Folder, Dots
  <2>2. j < N
    BY <1>5, <1>6, <1>9, <2>1 DEF Dots
  <2>3. InOrder(t, dir, b, DotDot)
    BY <1>5, <1>9, <2>1, <2>2 DEF Sorted
  <2>4. Dir(t, Append(dir, b)) /\ b < DotDot
    BY <1>6, <2>3 DEF InOrder, Folder, Dots
  <2> QED
    BY <1>2, <2>4, DotsAssumption
<1> QED
  BY <1>8, <1>9, <1>10

(* An entry is the last that the loop comes to exactly if it is the last   *)
(* of its directory.                                                       *)
LEMMA LastEntry ==
  ASSUME NEW t \in Trees, Tidy(t), NEW dir \in DOMAIN t, NEW e,
         Sorted(t, dir, e), NEW i \in DOMAIN e, NEW a, a = e[i], a \notin Dots,
         NEW path, path = Append(dir, a)
  PROVE  Ends(t, path) <=> i = Len(e)
<1>1. /\ IsSeq(e) /\ Len(e) \in Nat /\ DOMAIN e = 1 .. Len(e)
      /\ dir \in Seq(Int) /\ Len(dir) \in Nat /\ Len(dir) > 0
  BY Elements, TreesAssumption, LenProperties DEF Sorted
<1>2. a \in Int /\ path \in DOMAIN t
  BY DEF Sorted
<1>3. /\ path \in Seq(Int) /\ Len(path) = Len(dir) + 1
      /\ path[Len(dir) + 1] = a /\ \A l \in 1 .. Len(dir) : path[l] = dir[l]
  BY <1>1, <1>2, Extended
<1>4. ASSUME i = Len(e), NEW q \in DOMAIN t, Beside(q, path), q /= path
      PROVE  Sooner(t, q, path)
  <2>1. /\ q \in Seq(Int) /\ Len(q) = Len(dir) + 1
        /\ \A l \in 1 .. Len(dir) : q[l] = dir[l]
    BY <1>1, <1>3, <1>4, TreesAssumption DEF Beside
  <2>2. Under(dir, q) /\ Through(dir, q) = q[Len(dir) + 1]
    BY <1>1, <2>1 DEF Under, Through
  <2>3. PICK j \in DOMAIN e : e[j] = q[Len(dir) + 1]
    BY <2>2 DEF Sorted
  <2>4. e[j] \notin Dots
    <3>1. Len(dir) \in 1 .. Len(q) /\ Len(dir) < Len(q)
      BY <1>1, <2>1
    <3> QED
      BY <2>1, <2>3, <3>1, Ancestors
  <2>5. q[Len(dir) + 1] /= a
    <3> SUFFICES ASSUME q[Len(dir) + 1] = a PROVE q = path
      BY <1>4
    <3>1. \A l \in 1 .. Len(q) : l \in 1 .. Len(dir) \/ l = Len(dir) + 1
      BY <1>1, <2>1
    <3>2. \A l \in 1 .. Len(q) : q[l] = path[l]
      BY <1>3, <2>1, <3>1
    <3> QED
      BY <1>3, <2>1, <3>2, SamePath
  <2>6. j < i
    BY <1>1, <1>4, <2>3, <2>5
  <2>7. InOrder(t, dir, e[j], a)
    BY <2>6 DEF Sorted
  <2>8. q = Append(dir, e[j])
    <3>1. PICK r : r = Append(dir, e[j])
      OBVIOUS
    <3>2. e[j] \in Int
      BY DEF Sorted
    <3>3. /\ r \in Seq(Int) /\ Len(r) = Len(dir) + 1
          /\ r[Len(dir) + 1] = e[j] /\ \A l \in 1 .. Len(dir) : r[l] = dir[l]
      BY <1>1, <3>1, <3>2, Extended
    <3>4. \A l \in 1 .. Len(q) : l \in 1 .. Len(dir) \/ l = Len(dir) + 1
      BY <1>1, <2>1
    <3>5. \A l \in 1 .. Len(q) : q[l] = r[l]
      BY <2>1, <2>3, <3>3, <3>4
    <3> QED
      BY <2>1, <3>1, <3>3, <3>5, SamePath
  <2>9. /\ Folder(t, dir, e[j]) <=> Dir(t, q)
        /\ Folder(t, dir, a) <=> Dir(t, path)
    BY <2>4, <2>8 DEF Folder
  <2>10. Dir(t, q) \in BOOLEAN /\ Dir(t, path) \in BOOLEAN
    BY DEF Dir
  <2> QED
    BY <1>3, <2>1, <2>3, <2>7, <2>9, <2>10 DEF InOrder, Sooner
<1>5. ASSUME Ends(t, path), i /= Len(e)
      PROVE  FALSE
  <2>1. Child(t, dir, a)
    BY <1>2 DEF Child
  <2>2. PICK N \in DOMAIN e : N = Len(e) /\ e[N] \notin Dots
    BY <2>1, DotsInside
  <2>3. i < N
    BY <1>1, <1>5, <2>2
  <2>4. e[N] /= a /\ InOrder(t, dir, a, e[N])
    BY <2>3 DEF Sorted
  <2>5. PICK q : q = Append(dir, e[N])
    OBVIOUS
  <2>6. e[N] \in Int /\ q \in DOMAIN t
    BY <2>2, <2>5 DEF Sorted
  <2>7. /\ q \in Seq(Int) /\ Len(q) = Len(dir) + 1
        /\ q[Len(dir) + 1] = e[N] /\ \A l \in 1 .. Len(dir) : q[l] = dir[l]
    BY <1>1, <2>5, <2>6, Extended
  <2>8. Beside(q, path) /\ q /= path
    BY <1>1, <1>3, <2>4, <2>7 DEF Beside
  <2>9. Sooner(t, q, path)
    BY <1>5, <2>6, <2>8 DEF Ends
  <2>10. /\ Folder(t, dir, e[N]) <=> Dir(t, q)
         /\ Folder(t, dir, a) <=> Dir(t, path)
    BY <2>2, <2>5 DEF Folder
  <2>11. Dir(t, q) \in BOOLEAN /\ Dir(t, path) \in BOOLEAN
    BY DEF Dir
  <2>12. q[Len(q)] = e[N] /\ path[Len(path)] = a
    BY <1>3, <2>7
  <2>13. ~(a < e[N] /\ e[N] < a)
    BY <1>2, <2>6
  <2> QED
    BY <2>4, <2>9, <2>10, <2>11, <2>12, <2>13 DEF InOrder, Sooner
<1> QED
  BY <1>4, <1>5 DEF Ends

(* calculatePrefix, whatever the options: the strings of the next level.   *)
Further(pstr, last) ==
  Append([c \in 1 .. Len(pstr) - 1 |->
            IF pstr[c] = "corner" THEN "blank" ELSE pstr[c]],
         IF last THEN "corner" ELSE "bar")
LEMMA DrawnFurther ==
  ASSUME NEW t, NEW base \in Nat, NEW dn \in Seq(Int), base <= Len(dn),
         NEW a \in Int, NEW path, path = Append(dn, a),
         NEW prefix, Drawn(t, base, dn, prefix),
         NEW x, NEW pstr, pstr = Append(prefix, x),
         NEW last \in BOOLEAN, Ends(t, path) <=> last
  PROVE  Drawn(t, base, path, Further(pstr, last))
<1>1. PICK n : n = Len(prefix)
  OBVIOUS
<1>0. IsSeq(prefix) /\ Len(prefix) \in Nat
  BY Elements DEF Drawn
<1>2. /\ n \in Nat /\ Len(dn) \in Nat /\ n = Len(dn) - base /\ IsSeq(prefix)
      /\ \A c \in 1 .. n : prefix[c] = Column(t, dn, base + c, c = n)
  BY <1>0, <1>1, LenProperties DEF Drawn
<1>3. Len(pstr) - 1 = n /\ \A c \in 1 .. n : pstr[c] = prefix[c]
  <2>1. Len(pstr) = n + 1 /\ \A c \in 1 .. n : pstr[c] = prefix[c]
    BY <1>0, <1>1, Appended
  <2> QED
    BY <1>0, <1>1, <2>1
<1>4. PICK above : above = [c \in 1 .. n |->
                              IF pstr[c] = "corner" THEN "blank" ELSE pstr[c]]
  OBVIOUS
<1>5. PICK new : new = Append(above, IF last THEN "corner" ELSE "bar")
  OBVIOUS
<1>6. new = Further(pstr, last)
  BY <1>3, <1>4, <1>5 DEF Further
<1>7. /\ IsSeq(above) /\ Len(above) = n
      /\ \A c \in 1 .. n :
           above[c] = IF prefix[c] = "corner" THEN "blank" ELSE prefix[c]
  <2>1. \A c \in 1 .. n :
           above[c] = IF prefix[c] = "corner" THEN "blank" ELSE prefix[c]
    BY <1>3, <1>4
  <2>2. above \in [1 .. n -> {above[c] : c \in 1 .. n}]
    BY <1>4
  <2>3. PICK S : S = {above[c] : c \in 1 .. n}
    OBVIOUS
  <2>4. above \in Seq(S) /\ Len(above) = n
    <3>1. n \in Nat /\ above \in [1 .. n -> S]
      BY <1>2, <2>2, <2>3
    <3>2. above \in UNION {[1 .. k -> S] : k \in Nat}
      BY <3>1
    <3>3. above \in Seq(S) /\ DOMAIN above = 1 .. n
      BY <3>1, <3>2, SeqDef
    <3>4. Len(above) \in Nat /\ DOMAIN above = 1 .. Len(above)
      BY <3>3, LenProperties
    <3> QED
      BY <3>1, <3>3, <3>4
  <2> QED
    BY <2>1, <2>4, OwnElements
<1>8. /\ IsSeq(new) /\ Len(new) = n + 1
      /\ new[n + 1] = IF last THEN "corner" ELSE "bar"
      /\ \A c \in 1 .. n : new[c] = above[c]
  BY <1>5, <1>7, Appended
<1>9. /\ path \in Seq(Int) /\ Len(path) = Len(dn) + 1
      /\ \A l \in 1 .. Len(dn) : path[l] = dn[l]
  BY Extended
<1>10. ASSUME NEW c \in 1 .. n
       PROVE  new[c] = Column(t, path, base + c, FALSE)
  <2>1. PICK m \in Nat : m = base + c /\ m <= Len(dn)
    BY <1>2
  <2>2. m \in 0 .. Len(dn) /\ m \in 0 .. Len(path)
    BY <1>2, <1>9, <2>1
  <2>3. PICK p, q : p = SubSeq(path, 1, m) /\ q = SubSeq(dn, 1, m)
    OBVIOUS
  <2>4. /\ p \in Seq(Int) /\ Len(p) = m /\ \A l \in 1 .. m : p[l] = path[l]
        /\ q \in Seq(Int) /\ Len(q) = m /\ \A l \in 1 .. m : q[l] = dn[l]
    BY <1>9, <2>2, <2>3, Beginning
  <2>5. \A l \in 1 .. m : p[l] = q[l]
    <3>1. \A l \in 1 .. m : l \in 1 .. Len(dn)
      BY <1>2, <2>1
    <3> QED
      BY <1>9, <2>4, <3>1
  <2>6. p = q
    BY <2>4, <2>5, SamePath
  <2>7. prefix[c] = Column(t, dn, m, c = n)
    BY <1>2, <2>1
  <2>8. new[c] = IF prefix[c] = "corner" THEN "blank" ELSE prefix[c]
    BY <1>7, <1>8
  <2> QED
    BY <2>1, <2>3, <2>6, <2>7, <2>8 DEF Column
<1>11. new[n + 1] = Column(t, path, base + (n + 1), TRUE)
  <2>1. base + (n + 1) = Len(path)
    BY <1>2, <1>9
  <2>2. SubSeq(path, 1, Len(path)) = path
    BY <1>9, SubSeqFull
  <2> QED
    BY <1>8, <2>1, <2>2 DEF Column
<1>12. ASSUME NEW c \in 1 .. Len(new)
       PROVE  new[c] = Column(t, path, base + c, c = Len(new))
  <2>1. CASE c = n + 1
    <3>1. (c = Len(new)) = TRUE
      BY <1>8, <2>1
    <3> QED
      BY <1>11, <2>1, <3>1
  <2>2. CASE c /= n + 1
    <3>1. c \in 1 .. n + 1 /\ n \in Nat
      BY <1>0, <1>1, <1>8
    <3>2. c \in 1 .. n
      BY <2>2, <3>1
    <3>3. (c = Len(new)) = FALSE
      BY <1>8, <2>2
    <3> QED
      BY <1>10, <3>2, <3>3
  <2> QED
    BY <2>1, <2>2
<1>13. Len(new) = Len(path) - base
  BY <1>2, <1>8, <1>9
<1> QED
  BY <1>6, <1>8, <1>12, <1>13 DEF Drawn

(* A line that is right, and strings that are: of every entry printed, and *)
(* of every call of processDir.                                            *)
Right(t, argv, l) ==
  /\ l.arg \in DOMAIN argv /\ l.path \in DOMAIN t
  /\ Under(argv[l.arg], l.path)
  /\ Drawn(t, Len(argv[l.arg]), l.path, l.content.prefix)
AllRight(t, argv, o) ==
  \A j \in DOMAIN o : o[j].kind = "entry" => Right(t, argv, o[j])
AllStrung(t, base, stk) == \A d \in DOMAIN stk : Strung(t, base, stk[d])

LEMMA RightGrown ==
  ASSUME NEW t, NEW argv, NEW o, IsSeq(o), AllRight(t, argv, o),
         NEW l, l.kind = "entry" => Right(t, argv, l)
  PROVE  AllRight(t, argv, Append(o, l))
<1>1. PICK o2 : o2 = Append(o, l)
  OBVIOUS
<1>2. Grown(o, o2, l)
  BY <1>1, Growing
<1>3. /\ DOMAIN o2 = DOMAIN o \union {Len(o) + 1} /\ o2[Len(o) + 1] = l
      /\ \A j \in DOMAIN o : o2[j] = o[j]
  BY <1>2 DEF Grown
<1>4. AllRight(t, argv, o2)
  BY <1>3 DEF AllRight
<1> QED
  BY <1>1, <1>4

LEMMA RightSaid ==
  ASSUME NEW t, NEW argv, NEW o, IsSeq(o), AllRight(t, argv, o),
         NEW l, l.kind \notin {"entry", "gone", "unreadable"},
         NEW r, r = <<>> \/ r = <<l>>,
         NEW o2, o2 = o \o r
  PROVE  IsSeq(o2) /\ AllRight(t, argv, o2)
<1>1. /\ IsSeq(r)
      /\ \A j \in DOMAIN r : r[j].kind \notin {"entry", "gone", "unreadable"}
  <2>1. r \in Seq({l})
    <3>1. CASE r = <<>>
      BY <3>1
    <3>2. CASE r = <<l>>
      BY <3>2
    <3> QED
      BY <3>1, <3>2
  <2>2. IsSeq(r)
    BY <2>1, OwnElements
  <2>3. \A j \in DOMAIN r : r[j] = l
    BY <2>1, ElementOfSeq, LenProperties
  <2> QED
    BY <2>2, <2>3
<1>2. /\ IsSeq(o2)
      /\ \A j \in DOMAIN o2 : \/ j \in DOMAIN o /\ o2[j] = o[j]
                              \/ \E i \in DOMAIN r : o2[j] = r[i]
  <2>1. ASSUME NEW n
        PROVE  LET s == o \o r
               IN  /\ IsSeq(s) /\ SameLines(o, s, n)
                   /\ \A j \in DOMAIN s : \/ j \in DOMAIN o /\ s[j] = o[j]
                                          \/ \E i \in DOMAIN r : s[j] = r[i]
                   /\ \A j \in DOMAIN o : j \in DOMAIN s
    BY <1>1, QuietLines
  <2> QED
    BY <2>1
<1>4. ASSUME NEW j \in DOMAIN o2, o2[j].kind = "entry" PROVE Right(t, argv, o2[j])
  <2>1. j \in DOMAIN o /\ o2[j] = o[j]
    BY <1>1, <1>2, <1>4
  <2> QED
    BY <1>4, <2>1 DEF AllRight
<1> QED
  BY <1>2, <1>4 DEF AllRight

LEMMA StrungTurn ==
  ASSUME NEW t, NEW base, NEW stk, NEW new, NEW f, IsSeq(stk), IsSeq(new),
         stk /= <<>>, Len(new) = Len(stk), new[Len(stk)] = f,
         \A d \in DOMAIN stk : d /= Len(stk) => new[d] = stk[d],
         f.dn = stk[Len(stk)].dn, f.pstr = stk[Len(stk)].pstr,
         AllStrung(t, base, stk)
  PROVE  AllStrung(t, base, new)
<1>1. /\ Len(stk) \in Nat /\ DOMAIN stk = 1 .. Len(stk)
      /\ DOMAIN new = 1 .. Len(stk) /\ Len(stk) \in DOMAIN stk
  BY Elements
<1>2. Strung(t, base, f)
  BY <1>1 DEF AllStrung, Strung
<1>3. ASSUME NEW d \in DOMAIN new PROVE Strung(t, base, new[d])
  <2>1. d \in DOMAIN stk
    BY <1>1
  <2>2. new[d] = f \/ new[d] = stk[d]
    BY <2>1
  <2> QED
    BY <1>2, <2>1, <2>2 DEF AllStrung
<1> QED
  BY <1>3 DEF AllStrung

LEMMA StrungReturn ==
  ASSUME NEW t, NEW base, NEW stk, IsSeq(stk), stk /= <<>>,
         AllStrung(t, base, stk)
  PROVE  AllStrung(t, base, Front(stk))
<1>1. PICK new : new = Front(stk)
  OBVIOUS
<1>2. /\ IsSeq(new) /\ Len(new) = Len(stk) - 1
      /\ \A j \in 1 .. Len(new) : new[j] = stk[j]
  BY <1>1, Popped
<1>3. /\ Len(stk) \in Nat /\ DOMAIN stk = 1 .. Len(stk)
      /\ DOMAIN new = 1 .. Len(new)
  BY <1>2, Elements
<1>4. \A d \in DOMAIN new : d \in DOMAIN stk /\ new[d] = stk[d]
  BY <1>2, <1>3
<1> QED
  BY <1>1, <1>4 DEF AllStrung

LEMMA StrungCall ==
  ASSUME NEW t, NEW base, NEW stk, IsSeq(stk), AllStrung(t, base, stk),
         NEW g, Strung(t, base, g)
  PROVE  AllStrung(t, base, Append(stk, g))
<1>1. PICK new : new = Append(stk, g)
  OBVIOUS
<1>2. /\ IsSeq(new) /\ Len(new) = Len(stk) + 1 /\ new[Len(stk) + 1] = g
      /\ \A j \in 1 .. Len(stk) : new[j] = stk[j]
  BY <1>1, Appended
<1>3. /\ Len(stk) \in Nat /\ DOMAIN stk = 1 .. Len(stk)
      /\ DOMAIN new = 1 .. Len(new)
  BY <1>2, Elements
<1>4. \A d \in DOMAIN new : d = Len(stk) + 1 \/ (d \in DOMAIN stk /\ new[d] = stk[d])
  BY <1>2, <1>3
<1> QED
  BY <1>1, <1>2, <1>4 DEF AllStrung

(* What the steps of the walk keep.  Picture is TreeDrawn for all lines,   *)
(* and the strings that the next ones will have.                           *)
Picture ==
  /\ AllRight(fs, args, out)
  /\ AllStrung(fs, Len(args[arg]), stack)
TreeInv == "t" \in flags /\ Tidy(fs) => Picture

LEMMA TopChanged ==
  ASSUME DirInv, stack /= <<>>, NEW base, AllStrung(fs, base, stack),
         NEW f, f.dn = Top.dn, f.pstr = Top.pstr,
         NEW new, new = [stack EXCEPT ![Len(stack)] = f]
  PROVE  IsSeq(new) /\ AllStrung(fs, base, new)
<1>1. IsSeq(stack) /\ Len(stack) \in DOMAIN stack /\ DOMAIN stack = 1 .. Len(stack)
  BY Walking
<1>2. /\ IsSeq(new) /\ Len(new) = Len(stack) /\ new[Len(stack)] = f
      /\ \A j \in DOMAIN stack : j /= Len(stack) => new[j] = stack[j]
  BY <1>1, Replaced
<1>3. f.dn = stack[Len(stack)].dn /\ f.pstr = stack[Len(stack)].pstr
  BY DEF Top
<1> QED
  BY <1>1, <1>2, <1>3, StrungTurn

LEMMA NextStrung ==
  ASSUME DirInv, MoreEntries, NEW base, AllStrung(fs, base, stack)
  PROVE  IsSeq(NextEntry) /\ AllStrung(fs, base, NextEntry)
<1>1. stack /= <<>>
  BY DEF MoreEntries
<1>2. PICK f : f = Turned(Top)
  OBVIOUS
<1>3. f.dn = Top.dn /\ f.pstr = Top.pstr
  BY <1>2 DEF Turned
<1>4. PICK new : new = [stack EXCEPT ![Len(stack)] = f]
  OBVIOUS
<1>5. new = NextEntry
  <2>1. IsSeq(stack) /\ Frame(fs, stack[Len(stack)])
    BY <1>1, Walking DEF Top
  <2>2. [stack EXCEPT ![Len(stack)].i = @ + 1] =
          [stack EXCEPT ![Len(stack)] = Turned(stack[Len(stack)])]
    BY <1>1, <2>1, LastChanged
  <2> QED
    BY <1>2, <1>4, <2>2 DEF NextEntry, Top
<1>6. IsSeq(new) /\ AllStrung(fs, base, new)
  BY <1>1, <1>3, <1>4, TopChanged
<1> QED
  BY <1>5, <1>6

LEMMA SilentPicture ==
  ASSUME DirInv, Picture, UNCHANGED <<input, arg>>,
         \/ SkipDots \/ LstatFails \/ OpenDir \/ OpenFails \/ CloseDir
  PROVE  Picture'
<1>0. PICK base : base = Len(args[arg])
  OBVIOUS
<1>1. /\ stack /= <<>> /\ AllRight(fs, args, out) /\ AllStrung(fs, base, stack)
      /\ fs' = fs /\ args' = args /\ arg' = arg
  BY <1>0 DEF Picture, SkipDots, LstatFails, OpenDir, OpenFails, CloseDir,
              MoreEntries, input
<1>2. IsSeq(out) /\ IsSeq(stack) /\ Frame(fs, stack[Len(stack)])
  BY <1>1, Walking DEF Top
<1>3. AllStrung(fs, base, stack')
  <2>1. CASE SkipDots \/ LstatFails
    <3>1. MoreEntries /\ stack' = NextEntry
      BY <2>1 DEF SkipDots, LstatFails
    <3> QED
      BY <1>1, <3>1, NextStrung
  <2>2. CASE OpenFails \/ CloseDir
    <3>1. stack' = Front(stack)
      BY <2>2 DEF OpenFails, CloseDir, Return
    <3> QED
      BY <1>1, <1>2, <3>1, StrungReturn
  <2>3. CASE OpenDir
    <3>1. PICK f : f = Opened(Top, scandir(Top.dn))
      OBVIOUS
    <3>2. f.dn = Top.dn /\ f.pstr = Top.pstr
      BY <3>1 DEF Opened
    <3>3. PICK new : new = [stack EXCEPT ![Len(stack)] = f]
      OBVIOUS
    <3>4. stack' = new
      <4>1. PICK e : e = scandir(Top.dn)
        OBVIOUS
      <4>2. stack' = [stack EXCEPT ![Len(stack)].entries = e, ![Len(stack)].i = 1]
        BY <2>3, <4>1 DEF OpenDir
      <4>3. [stack EXCEPT ![Len(stack)].entries = e, ![Len(stack)].i = 1] =
              [stack EXCEPT ![Len(stack)] = Opened(stack[Len(stack)], e)]
        BY <1>1, <1>2, LastChanged
      <4> QED
        BY <3>1, <3>3, <4>1, <4>2, <4>3 DEF Top
    <3>5. IsSeq(new) /\ AllStrung(fs, base, new)
      BY <1>1, <3>2, <3>3, TopChanged
    <3> QED
      BY <3>4, <3>5
  <2> QED
    BY <2>1, <2>2, <2>3
<1>4. AllRight(fs, args, out')
  <2>1. CASE out' = out
    BY <1>1, <2>1
  <2>2. CASE \E l : l.kind \in {"gone", "unreadable"} /\ out' = Append(out, l)
    <3>1. PICK l : l.kind \in {"gone", "unreadable"} /\ out' = Append(out, l)
      BY <2>2
    <3>2. l.kind = "entry" => Right(fs, args, l)
      BY <3>1
    <3> QED
      BY <1>1, <1>2, <3>1, <3>2, RightGrown
  <2>3. CASE LstatFails
    <3>1. PICK l : l = Printed("gone", Path, {})
      OBVIOUS
    <3>2. l.kind = "gone" /\ out' = Append(out, l)
      BY <2>3, <3>1 DEF LstatFails, Printed
    <3> QED
      BY <2>2, <3>2
  <2>4. CASE OpenFails
    <3>1. PICK l : l = Printed("unreadable", Top.dn, {})
      OBVIOUS
    <3>2. l.kind = "unreadable" /\ out' = Append(out, l)
      BY <2>4, <3>1 DEF OpenFails, Printed
    <3> QED
      BY <2>2, <3>2
  <2>5. CASE SkipDots \/ OpenDir \/ CloseDir
    BY <2>1, <2>5 DEF SkipDots, OpenDir, CloseDir
  <2> QED
    BY <2>3, <2>4, <2>5
<1>5. AllRight(fs', args', out')
  BY <1>1, <1>4
<1>6. AllStrung(fs', Len(args'[arg']), stack')
  BY <1>0, <1>1, <1>3
<1> QED
  BY <1>5, <1>6 DEF Picture

LEMMA PrintedPicture ==
  ASSUME DirInv, Picture, "t" \in flags, Tidy(fs), PrintEntry
  PROVE  Picture'
<1>1. /\ MoreEntries /\ Name \notin Dots /\ stack /= <<>>
      /\ fs' = fs /\ args' = args /\ arg' = arg
      /\ stack' = IF IsDir(Top.dn, Name)
                  THEN Append(NextEntry, processDir(Path, Append(Prefix, "blank")))
                  ELSE NextEntry
  BY DEF PrintEntry, MoreEntries, Dots, input
<1>2. PICK root, dn, e, i : /\ root = args[arg] /\ dn = Top.dn
                            /\ e = Top.entries /\ i = Top.i
  OBVIOUS
<1>3. PICK a, path, base : a = Name /\ path = Path /\ base = Len(root)
  OBVIOUS
<1>4. /\ fs \in Trees /\ IsSeq(out) /\ IsSeq(stack) /\ arg \in DOMAIN args
      /\ root \in Seq(Int) /\ base \in Nat /\ Chain(fs, root, stack)
      /\ Len(stack) \in DOMAIN stack /\ Len(stack) \in Nat /\ Len(stack) > 0
      /\ DOMAIN stack = 1 .. Len(stack)
  BY <1>1, <1>2, <1>3, Walking, LenProperties
<1>5. /\ AllRight(fs, args, out) /\ AllStrung(fs, base, stack)
  BY <1>2, <1>3 DEF Picture
<1>6. /\ i \in DOMAIN e /\ dn \in Seq(Int) /\ dn \in DOMAIN fs
      /\ Sorted(fs, dn, e)
  <2>1. i \in DOMAIN e
    BY <1>1, <1>2 DEF MoreEntries
  <2>2. Frame(fs, Top)
    BY <1>1, Walking
  <2>3. dn \in Seq(Int) /\ i \in Nat /\ (i = 0 => e = <<>>)
    BY <1>2, <2>2 DEF Frame
  <2>4. i > 0
    <3> SUFFICES ASSUME i = 0 PROVE FALSE
      BY <2>3
    <3>1. e = <<>>
      BY <2>3
    <3> QED
      BY <2>1, <3>1
  <2> QED
    BY <1>2, <2>1, <2>2, <2>3, <2>4 DEF Frame
<1>7. a = e[i] /\ a \notin Dots /\ path = Append(dn, a)
  BY <1>1, <1>2, <1>3 DEF Name, Path
<1>8. a \in Int /\ path \in DOMAIN fs
  BY <1>6, <1>7 DEF Sorted
<1>9. Ends(fs, path) <=> i = Len(e)
  BY <1>4, <1>6, <1>7, LastEntry
<1>10. PICK prefix, x : Drawn(fs, base, dn, prefix) /\ Top.pstr = Append(prefix, x)
  <2>1. Strung(fs, base, Top)
    BY <1>4, <1>5 DEF AllStrung, Top
  <2> QED
    BY <1>2, <2>1 DEF Strung
<1>11. PICK last \in BOOLEAN : last = (i = Len(e))
  OBVIOUS
<1>12. Len(dn) = Len(root) + Len(stack) - 1 /\ Len(dn) \in Nat /\ base <= Len(dn)
  <2>1. Len(dn) = Len(root) + Len(stack) - 1
    BY <1>2, <1>4 DEF Chain, Top
  <2> QED
    BY <1>3, <1>4, <2>1
<1>13. PICK new : new = Further(Top.pstr, last)
  OBVIOUS
<1>14. Drawn(fs, base, path, new)
  <2>1. /\ base \in Nat /\ dn \in Seq(Int) /\ base <= Len(dn) /\ a \in Int
        /\ path = Append(dn, a) /\ (Ends(fs, path) <=> last)
    BY <1>4, <1>6, <1>7, <1>8, <1>9, <1>11, <1>12
  <2>2. PICK pstr : pstr = Top.pstr
    OBVIOUS
  <2>3. pstr = Append(prefix, x) /\ new = Further(pstr, last)
    BY <1>10, <1>13, <2>2
  <2> QED
    BY <1>10, <2>1, <2>3, DrawnFurther
<1>15. Prefix = new
  BY <1>2, <1>11, <1>13 DEF Prefix, calculatePrefix, Further
<1>16. Under(root, path)
  <2>1. path \in Seq(Int) /\ Len(path) = Len(dn) + 1 /\ Under(dn, path)
    <3>1. Len(dn) > 0
      BY <1>4, <1>6, <1>12, TreesAssumption
    <3> QED
      BY <1>6, <1>7, <1>8, <3>1, Extended
  <2>2. InLast(fs, root, stack, path)
    BY <1>1, <1>2, <1>4, <2>1 DEF InLast, Top
  <2> QED
    BY <2>2, WayDown
<1>17. AllRight(fs, args, out')
  <2>1. PICK v : out' = Append(out, Printed("entry", Path,
                                      [prefix |-> Prefix, verbose |-> v]))
    BY DEF PrintEntry
  <2>2. PICK l : l = Printed("entry", Path, [prefix |-> Prefix, verbose |-> v])
    OBVIOUS
  <2>3. l.arg = arg /\ l.path = path /\ l.content.prefix = new
    BY <1>3, <1>15, <2>2 DEF Printed
  <2>4. Right(fs, args, l)
    BY <1>2, <1>3, <1>4, <1>8, <1>14, <1>16, <2>3 DEF Right
  <2> QED
    BY <1>4, <1>5, <2>1, <2>2, <2>4, RightGrown
<1>18. AllStrung(fs, base, stack')
  <2>1. IsSeq(NextEntry) /\ AllStrung(fs, base, NextEntry)
    BY <1>1, <1>5, NextStrung
  <2>2. PICK g : g = processDir(Path, Append(Prefix, "blank"))
    OBVIOUS
  <2>3. g.dn = path /\ g.pstr = Append(new, "blank")
    BY <1>3, <1>15, <2>2 DEF processDir
  <2>4. Strung(fs, base, g)
    BY <1>14, <2>3 DEF Strung
  <2>5. AllStrung(fs, base, Append(NextEntry, g))
    BY <2>1, <2>4, StrungCall
  <2>6. stack' = NextEntry \/ stack' = Append(NextEntry, g)
    BY <1>1, <2>2
  <2> QED
    BY <2>1, <2>5, <2>6
<1>19. AllRight(fs', args', out') /\ AllStrung(fs', Len(args'[arg']), stack')
  BY <1>1, <1>2, <1>3, <1>17, <1>18
<1> QED
  BY <1>19 DEF Picture

LEMMA StartPicture ==
  ASSUME DirInv, AllRight(fs, args, out), StartArgument
  PROVE  Picture'
<1>1. /\ stack = <<>> /\ arg <= Len(args)
      /\ fs' = fs /\ args' = args /\ arg' = arg
  BY DEF StartArgument, input
<1>2. IsSeq(out) /\ args \in Seq(Seq(Int)) /\ arg \in 1 .. Len(args) + 2
  BY DEF DirInv, Types
<1>3. args[arg] \in Seq(Int)
  <2>1. Len(args) \in Nat /\ DOMAIN args = 1 .. Len(args)
    BY <1>2
  <2>2. arg \in DOMAIN args
    BY <1>1, <1>2, <2>1
  <2> QED
    BY <1>2, <2>2
<1>4. AllRight(fs, args, out')
  <2>1. PICK l1, l2 : /\ l1 = Printed("header", <<>>, {})
                      /\ l2 = Printed("base", args[arg], {})
    OBVIOUS
  <2>2. l1.kind = "header" /\ l2.kind = "base"
    BY <2>1 DEF Printed
  <2>3. PICK r1, r2 : /\ r1 = IF "s" \in flags THEN <<l1>> ELSE <<>>
                      /\ r2 = <<l2>>
    OBVIOUS
  <2>4. r1 = <<>> \/ r1 = <<l1>>
    BY <2>3
  <2>5. PICK o2, o3 : o2 = out \o r1 /\ o3 = o2 \o r2
    OBVIOUS
  <2>6. IsSeq(o2) /\ AllRight(fs, args, o2)
    BY <1>2, <2>2, <2>4, <2>5, RightSaid
  <2>7. AllRight(fs, args, o3)
    BY <2>2, <2>3, <2>5, <2>6, RightSaid
  <2>8. out' = (out \o r1) \o r2
    BY <2>1, <2>3 DEF StartArgument
  <2> QED
    BY <2>5, <2>7, <2>8
<1>5. AllStrung(fs, Len(args[arg]), stack')
  <2>1. PICK x : x = IF "t" \in flags THEN "bar" ELSE "blank"
    OBVIOUS
  <2>2. PICK f : f = processDir(args[arg], <<x>>)
    OBVIOUS
  <2>3. stack' = <<f>>
    BY <2>1, <2>2 DEF StartArgument
  <2>4. f.dn = args[arg] /\ f.pstr = <<x>>
    BY <2>2 DEF processDir
  <2>5. PICK none : none = <<>>
    OBVIOUS
  <2>6. IsSeq(none) /\ Len(none) = 0
    <3>1. none \in Seq({})
      BY <2>5
    <3> QED
      BY <2>5, <3>1, OwnElements
  <2>7. Append(none, x) = <<x>>
    BY <2>5
  <2>8. Drawn(fs, Len(args[arg]), args[arg], none)
    <3>1. Len(args[arg]) \in Nat
      BY <1>3, LenProperties
    <3>2. Len(args[arg]) - Len(args[arg]) = 0 /\ 1 .. Len(none) = {}
      BY <2>6, <3>1
    <3> QED
      BY <2>6, <3>2 DEF Drawn
  <2>9. Strung(fs, Len(args[arg]), f)
    BY <2>4, <2>7, <2>8 DEF Strung
  <2>10. \A d \in DOMAIN <<f>> : <<f>>[d] = f
    OBVIOUS
  <2> QED
    BY <2>3, <2>9, <2>10 DEF AllStrung
<1>6. AllRight(fs', args', out') /\ AllStrung(fs', Len(args'[arg']), stack')
  BY <1>1, <1>4, <1>5
<1> QED
  BY <1>6 DEF Picture

LEMMA MainPicture ==
  ASSUME DirInv, AllRight(fs, args, out), FinishArgument \/ GrandTotal
  PROVE  Picture'
<1>1. /\ fs' = fs /\ args' = args /\ stack' = stack /\ stack = <<>>
  <2>1. FinishArgument => stack = <<>>
    BY DEF FinishArgument, ArgumentDone
  <2>2. GrandTotal => stack = <<>>
    <3> SUFFICES ASSUME GrandTotal, stack /= <<>> PROVE FALSE
      OBVIOUS
    <3>1. arg <= Len(args) /\ arg = Len(args) + 1 /\ arg \in Nat
      BY Walking DEF GrandTotal
    <3>2. Len(args) \in Nat
      BY LenProperties DEF DirInv, Types
    <3> QED
      BY <3>1, <3>2
  <2> QED
    BY <2>1, <2>2 DEF FinishArgument, GrandTotal, input
<1>2. IsSeq(out)
  BY DEF DirInv, Types
<1>3. PICK l, r : /\ l.kind \notin {"entry", "gone", "unreadable"}
                  /\ r = <<>> \/ r = <<l>>
                  /\ out' = out \o r
  <2>1. CASE FinishArgument
    <3>1. PICK l : l = Printed("summary", args[arg], tstat)
      OBVIOUS
    <3>2. l.kind = "summary"
      BY <3>1 DEF Printed
    <3>3. PICK r : r = IF "s" \in flags THEN <<l>> ELSE <<>>
      OBVIOUS
    <3>4. out' = out \o r
      BY <2>1, <3>1, <3>3 DEF FinishArgument, Summary
    <3>5. r = <<>> \/ r = <<l>>
      BY <3>3
    <3> QED
      BY <3>2, <3>4, <3>5
  <2>2. CASE GrandTotal
    <3>1. PICK l : l = Printed("total", <<>>, total)
      OBVIOUS
    <3>2. l.kind = "total"
      BY <3>1 DEF Printed
    <3>3. PICK r : r = IF "s" \in flags /\ Len(args) > 1 THEN <<l>> ELSE <<>>
      OBVIOUS
    <3>4. out' = out \o r
      BY <2>2, <3>1, <3>3 DEF GrandTotal
    <3>5. r = <<>> \/ r = <<l>>
      BY <3>3
    <3> QED
      BY <3>2, <3>4, <3>5
  <2> QED
    BY <2>1, <2>2
<1>4. AllRight(fs, args, out')
  <2>1. PICK o2 : o2 = out \o r
    OBVIOUS
  <2>2. AllRight(fs, args, o2)
    BY <1>2, <1>3, <2>1, RightSaid
  <2> QED
    BY <1>3, <2>1, <2>2
<1>5. DOMAIN stack' = {}
  BY <1>1
<1>6. AllRight(fs', args', out') /\ AllStrung(fs', Len(args'[arg']), stack')
  BY <1>1, <1>4, <1>5 DEF AllStrung
<1> QED
  BY <1>6 DEF Picture

LEMMA StepTreeInv == DirInv /\ TreeInv /\ [Next]_vars => TreeInv'
<1> SUFFICES ASSUME DirInv, TreeInv, [Next]_vars, "t" \in flags', Tidy(fs')
             PROVE  Picture'
  BY DEF TreeInv
<1>1. fs' = fs /\ flags' = flags /\ args' = args
  BY DEF Next, vars, input, StartArgument, OpenDir, OpenFails, SkipDots,
         LstatFails, PrintEntry, CloseDir, FinishArgument, GrandTotal
<1>2. "t" \in flags /\ Tidy(fs) /\ Picture /\ AllRight(fs, args, out)
  BY <1>1 DEF TreeInv, Picture
<1>3. CASE SkipDots \/ LstatFails \/ OpenDir \/ OpenFails \/ CloseDir
  <2>1. UNCHANGED <<input, arg>>
    BY <1>3 DEF SkipDots, LstatFails, OpenDir, OpenFails, CloseDir
  <2> QED
    BY <1>2, <1>3, <2>1, SilentPicture
<1>4. CASE PrintEntry
  BY <1>2, <1>4, PrintedPicture
<1>5. CASE StartArgument
  BY <1>2, <1>5, StartPicture
<1>6. CASE FinishArgument \/ GrandTotal
  BY <1>2, <1>6, MainPicture
<1>7. CASE UNCHANGED vars
  <2>1. out' = out /\ arg' = arg /\ stack' = stack
    BY <1>7 DEF vars
  <2>2. AllRight(fs', args', out') /\ AllStrung(fs', Len(args'[arg']), stack')
    BY <1>1, <1>2, <2>1 DEF Picture
  <2> QED
    BY <2>2 DEF Picture
<1> QED
  BY <1>3, <1>4, <1>5, <1>6, <1>7 DEF Next

LEMMA InitTreeInv == Init => TreeInv
<1> SUFFICES ASSUME Init PROVE Picture
  BY DEF TreeInv
<1>1. DOMAIN out = {} /\ DOMAIN stack = {}
  BY DEF Init
<1> QED
  BY <1>1 DEF Picture, AllRight, AllStrung

-----------------------------------------------------------------------------
(* The columns in terms of the model: IsLastOf, and DotsNotLast.           *)
LEMMA FrontOf ==
  ASSUME NEW p \in Seq(Int), Len(p) > 0
  PROVE  /\ Front(p) \in Seq(Int) /\ Len(Front(p)) = Len(p) - 1
         /\ \A l \in 1 .. Len(p) - 1 : Front(p)[l] = p[l]
<1>1. PICK m \in Nat : m = Len(p) - 1
  BY LenProperties
<1>2. m \in 0 .. Len(p)
  BY <1>1, LenProperties
<1>3. PICK f : f = SubSeq(p, 1, m)
  OBVIOUS
<1>4. f \in Seq(Int) /\ Len(f) = m /\ \A l \in 1 .. m : f[l] = p[l]
  BY <1>2, <1>3, Beginning
<1>5. f = Front(p)
  BY <1>1, <1>3 DEF Front
<1> QED
  BY <1>1, <1>4, <1>5

LEMMA SiblingsBeside ==
  ASSUME fs \in Trees, NEW p \in DOMAIN fs, NEW q \in DOMAIN fs
  PROVE  q \in Children(Front(p)) <=> Beside(q, p)
<1>1. /\ p \in Seq(Int) /\ q \in Seq(Int) /\ Len(p) \in Nat /\ Len(q) \in Nat
      /\ Len(p) > 0 /\ Len(q) > 0
  BY TreesAssumption, LenProperties
<1>2. PICK f, g : f = Front(p) /\ g = Front(q)
  OBVIOUS
<1>3. /\ f \in Seq(Int) /\ Len(f) = Len(p) - 1
      /\ \A l \in 1 .. Len(p) - 1 : f[l] = p[l]
      /\ g \in Seq(Int) /\ Len(g) = Len(q) - 1
      /\ \A l \in 1 .. Len(q) - 1 : g[l] = q[l]
  BY <1>1, <1>2, FrontOf
<1>4. q \in Children(f) <=> Len(q) = Len(p) /\ g = f
  <2>1. q \in Children(f) <=> Len(q) = Len(f) + 1 /\ g = f
    BY <1>2 DEF Children
  <2>2. Len(f) + 1 = Len(p)
    BY <1>1, <1>3
  <2> QED
    BY <2>1, <2>2
<1>5. ASSUME Len(q) = Len(p), g = f PROVE Beside(q, p)
  BY <1>3, <1>5 DEF Beside
<1>6. ASSUME Beside(q, p) PROVE Len(q) = Len(p) /\ g = f
  <2>1. Len(q) = Len(p) /\ \A l \in 1 .. Len(p) - 1 : q[l] = p[l]
    BY <1>6 DEF Beside
  <2>2. Len(g) = Len(f) /\ \A l \in 1 .. Len(g) : g[l] = f[l]
    BY <1>3, <2>1
  <2> QED
    BY <1>3, <2>1, <2>2, SamePath
<1> QED
  BY <1>2, <1>4, <1>5, <1>6

LEMMA LastOf ==
  ASSUME fs \in Trees, NEW p \in DOMAIN fs
  PROVE  IsLastOf(p) <=> Ends(fs, p)
<1>1. p \in Seq(Int) /\ Len(p) \in Nat /\ Len(p) > 0
  BY TreesAssumption, LenProperties
<1>2. ASSUME NEW q \in DOMAIN fs, Beside(q, p), q /= p
      PROVE  Before(q, p) <=> Sooner(fs, q, p)
  <2>1. PICK n \in Nat : n = Len(p) /\ n > 0
    BY <1>1
  <2>2. /\ q \in Seq(Int) /\ Len(q) = n
        /\ \A l \in 1 .. n - 1 : q[l] = p[l]
    BY <1>2, <2>1, TreesAssumption DEF Beside
  <2>3. q[n] /= p[n]
    <3> SUFFICES ASSUME q[n] = p[n] PROVE q = p
      BY <1>2
    <3>1. \A l \in 1 .. n : l \in 1 .. n - 1 \/ l = n
      BY <2>1
    <3>2. \A l \in 1 .. Len(q) : q[l] = p[l]
      BY <2>2, <3>1
    <3> QED
      BY <1>1, <2>1, <2>2, <3>2, SamePath
  <2>4. q \notin Above(p)
    <3>1. ~Under(q, p)
      BY <2>1, <2>2 DEF Under
    <3> QED
      BY <1>1, <2>2, <3>1, AboveUnder
  <2>5. SubSeq(p, 1, n) = p /\ SubSeq(q, 1, n) = q
    BY <1>1, <2>1, <2>2, SubSeqFull
  <2>6. SubSeq(q, 1, n - 1) = SubSeq(p, 1, n - 1)
    <3>1. PICK m \in Nat : m = n - 1
      BY <2>1
    <3>2. m \in 0 .. Len(q) /\ m \in 0 .. Len(p)
      BY <2>1, <2>2, <3>1
    <3>3. PICK f, g : f = SubSeq(q, 1, m) /\ g = SubSeq(p, 1, m)
      OBVIOUS
    <3>4. /\ f \in Seq(Int) /\ Len(f) = m /\ \A l \in 1 .. m : f[l] = q[l]
          /\ g \in Seq(Int) /\ Len(g) = m /\ \A l \in 1 .. m : g[l] = p[l]
      BY <1>1, <2>2, <3>2, <3>3, Beginning
    <3>5. \A l \in 1 .. Len(f) : f[l] = g[l]
      BY <2>2, <3>1, <3>4
    <3>6. f = g
      BY <3>4, <3>5, SamePath
    <3> QED
      BY <3>1, <3>3, <3>6
  <2>7. ASSUME NEW j \in 1 .. Len(q), j <= Len(p), q[j] /= p[j] PROVE j = n
    BY <2>1, <2>2, <2>7
  <2>8. ASSUME Before(q, p) PROVE Sooner(fs, q, p)
    <3>1. PICK j \in 1 .. Len(q) :
            /\ j <= Len(p) /\ q[j] /= p[j]
            /\ LET first == fs[SubSeq(q, 1, j)].type = "dir"
                   second == fs[SubSeq(p, 1, j)].type = "dir"
               IN  (first /\ ~second) \/ (first = second /\ q[j] < p[j])
      BY <2>4, <2>8 DEF Before
    <3>2. j = n
      BY <2>7, <3>1
    <3> QED
      BY <2>1, <2>2, <2>5, <3>1, <3>2 DEF Sooner, Dir
  <2>9. ASSUME Sooner(fs, q, p) PROVE Before(q, p)
    <3>1. \/ fs[q].type = "dir" /\ ~(fs[p].type = "dir")
          \/ (fs[q].type = "dir") = (fs[p].type = "dir") /\ q[n] < p[n]
      BY <2>1, <2>2, <2>9 DEF Sooner, Dir
    <3>2. n \in 1 .. Len(q) /\ n <= Len(p)
      BY <2>1, <2>2
    <3> QED
      BY <2>3, <2>5, <2>6, <3>1, <3>2 DEF Before
  <2> QED
    BY <2>8, <2>9
<1>3. IsLastOf(p) <=> \A q \in DOMAIN fs : Beside(q, p) => q = p \/ Before(q, p)
  <2>1. \A q \in DOMAIN fs : q \in Children(Front(p)) <=> Beside(q, p)
    BY SiblingsBeside
  <2>2. Children(Front(p)) \subseteq DOMAIN fs
    BY DEF Children
  <2> QED
    BY <2>1, <2>2 DEF IsLastOf
<1> QED
  BY <1>2, <1>3 DEF Ends

LEMMA TidyTrees ==
  ASSUME fs \in Trees, DotsNotLast
  PROVE  Tidy(fs)
<1> SUFFICES ASSUME NEW dir \in DOMAIN fs, NEW a, Child(fs, dir, a)
             PROVE  \E b : /\ Child(fs, dir, b)
                           /\ ~Dir(fs, Append(dir, b)) \/ DotDot < b
  BY DEF Tidy
<1>1. PICK p : p = Append(dir, a)
  OBVIOUS
<1>2. /\ dir \in Seq(Int) /\ Len(dir) \in Nat /\ Len(dir) > 0 /\ a \in Int
      /\ p \in DOMAIN fs
  BY <1>1, TreesAssumption, LenProperties DEF Child
<1>3. /\ p \in Seq(Int) /\ Len(p) = Len(dir) + 1
      /\ \A l \in 1 .. Len(dir) : p[l] = dir[l]
  BY <1>1, <1>2, Extended
<1>4. Front(p) = dir
  <2>1. PICK f : f = Front(p)
    OBVIOUS
  <2>2. Len(p) > 0 /\ Len(p) - 1 = Len(dir)
    BY <1>2, <1>3
  <2>3. f \in Seq(Int) /\ Len(f) = Len(dir) /\ \A l \in 1 .. Len(dir) : f[l] = p[l]
    BY <1>3, <2>1, <2>2, FrontOf
  <2>4. \A l \in 1 .. Len(f) : f[l] = dir[l]
    BY <1>3, <2>3
  <2> QED
    BY <1>2, <2>1, <2>3, <2>4, SamePath
<1>5. fs[dir].type = "dir"
  <2>1. Len(p) > 1
    BY <1>2, <1>3
  <2> QED
    BY <1>2, <1>4, <2>1, TreesAssumption
<1>6. Children(dir) /= {}
  BY <1>2, <1>3, <1>4 DEF Children
<1>7. PICK e : e = scandir(dir)
  OBVIOUS
<1>8. Sorted(fs, dir, e) /\ Last(e) /= DotDot
  BY <1>5, <1>6, <1>7, ScandirSorts DEF DotsNotLast
<1>9. Len(e) \in Nat /\ DOMAIN e = 1 .. Len(e)
  BY <1>8, Elements DEF Sorted
<1>10. PICK d \in DOMAIN e : e[d] = DotDot
  BY <1>8 DEF Sorted
<1>11. PICK N \in DOMAIN e : N = Len(e) /\ e[N] /= DotDot /\ d < N
  <2>1. Len(e) \in DOMAIN e
    BY <1>9, <1>10
  <2>2. e[Len(e)] /= DotDot
    BY <1>8 DEF Last
  <2>3. d < Len(e)
    BY <1>9, <1>10, <2>2
  <2> QED
    BY <2>1, <2>2, <2>3
<1>12. InOrder(fs, dir, DotDot, e[N])
  BY <1>8, <1>10, <1>11 DEF Sorted
<1>13. e[N] \in Int /\ (e[N] \in Dots \/ Append(dir, e[N]) \in DOMAIN fs)
  BY <1>8 DEF Sorted
<1>14. e[N] \notin Dots
  <2> SUFFICES ASSUME e[N] = Dot PROVE FALSE
    BY <1>11 DEF Dots
  <2> QED
    BY <1>12, DotsAssumption DEF InOrder, Folder, Dots
<1>15. Child(fs, dir, e[N])
  BY <1>13, <1>14 DEF Child
<1>16. ~Dir(fs, Append(dir, e[N])) \/ DotDot < e[N]
  BY <1>12, <1>14 DEF InOrder, Folder, Dots
<1> QED
  BY <1>15, <1>16

LEMMA PictureDrawn == DirInv /\ TreeInv => TreeDrawn
<1> SUFFICES ASSUME DirInv, TreeInv, "t" \in flags, DotsNotLast,
                    NEW j \in DOMAIN out, out[j].kind = "entry"
             PROVE  LET p == out[j].path
                        base == Len(args[out[j].arg])
                        prefix == out[j].content.prefix
                    IN  /\ Len(prefix) = Len(p) - base
                        /\ \A c \in DOMAIN prefix :
                             prefix[c] =
                               IF ~IsLastOf(SubSeq(p, 1, base + c)) THEN "bar"
                               ELSE IF c = Len(prefix) THEN "corner" ELSE "blank"
  BY DEF TreeDrawn
<1>0. PICK p, base, prefix : /\ p = out[j].path
                             /\ base = Len(args[out[j].arg])
                             /\ prefix = out[j].content.prefix
  OBVIOUS
<1>1. fs \in Trees /\ args \in Seq(Seq(Int))
  BY DEF DirInv, Types
<1>2. AllRight(fs, args, out)
  BY <1>1, TidyTrees DEF TreeInv, Picture
<1>3. /\ p \in DOMAIN fs /\ Under(args[out[j].arg], p)
      /\ out[j].arg \in DOMAIN args /\ Drawn(fs, base, p, prefix)
  BY <1>0, <1>2 DEF AllRight, Right
<1>4. /\ p \in Seq(Int) /\ Len(p) \in Nat /\ base \in Nat /\ base >= 1
  <2>1. args[out[j].arg] \in Seq(Int)
    BY <1>1, <1>3
  <2> QED
    BY <1>0, <1>1, <1>3, <2>1, TreesAssumption, LenProperties DEF Under
<1>5. /\ IsSeq(prefix) /\ Len(prefix) = Len(p) - base
      /\ \A c \in 1 .. Len(prefix) :
           prefix[c] = Column(fs, p, base + c, c = Len(prefix))
  BY <1>3 DEF Drawn
<1>6. DOMAIN prefix = 1 .. Len(prefix)
  BY <1>5, Elements
<1>7. ASSUME NEW c \in DOMAIN prefix
      PROVE  prefix[c] = IF ~IsLastOf(SubSeq(p, 1, base + c)) THEN "bar"
                         ELSE IF c = Len(prefix) THEN "corner" ELSE "blank"
  <2>1. PICK m \in 1 .. Len(p) : m = base + c
    <3>1. c \in 1 .. Len(prefix) /\ Len(prefix) = Len(p) - base
      BY <1>5, <1>6
    <3> QED
      BY <1>4, <3>1
  <2>2. PICK q : q = SubSeq(p, 1, m)
    OBVIOUS
  <2>3. q \in DOMAIN fs
    BY <1>1, <1>3, <2>2, Ancestors
  <2>4. IsLastOf(q) <=> Ends(fs, q)
    BY <1>1, <2>3, LastOf
  <2>5. prefix[c] = Column(fs, p, m, c = Len(prefix))
    BY <1>5, <1>6, <2>1
  <2>6. prefix[c] = IF ~Ends(fs, q) THEN "bar"
                    ELSE IF c = Len(prefix) THEN "corner" ELSE "blank"
    BY <2>2, <2>5 DEF Column
  <2> QED
    BY <2>1, <2>2, <2>4, <2>6
<1>8. /\ Len(prefix) = Len(p) - base
      /\ \A c \in DOMAIN prefix :
           prefix[c] = IF ~IsLastOf(SubSeq(p, 1, base + c)) THEN "bar"
                       ELSE IF c = Len(prefix) THEN "corner" ELSE "blank"
  BY <1>5, <1>7
<1> QED
  BY <1>0, <1>8

(* With -t every column says whether there is more to come on its level:   *)
(* the prefix that calculatePrefix makes of the string of the call above   *)
(* is the same as if it were drawn with the whole listing at hand.         *)
THEOREM ColumnsRight == Spec => []TreeDrawn
<1>1. Init => DirInv /\ TreeInv
  BY InitDirInv, InitTreeInv
<1>2. DirInv /\ TreeInv /\ [Next]_vars => (DirInv /\ TreeInv)'
  BY StepDirInv, StepTreeInv
<1>3. DirInv /\ TreeInv => TreeDrawn
  BY PictureDrawn
<1> QED
  BY <1>1, <1>2, <1>3, PTL DEF Spec

-----------------------------------------------------------------------------
(* TotalsExact.  FoldLeft is defined by recursion over sets of line        *)
(* numbers, of which 1 .. m is met for every m.                            *)

(* Adds and SumOf, for any tree t and any lines o.                         *)
LineAdds(t, l) ==
  LET column == IF l.content.verbose = {} THEN Zero
                ELSE CHOOSE v \in l.content.verbose : TRUE
  IN  [count |-> [c \in Counted |-> IF t[l.path].type = c THEN 1 ELSE 0],
       size |-> column.size, blocks |-> column.blocks]
AddLine(t, N, sum, l) ==
  IF l.kind = "entry" /\ l.arg \in N THEN Plus(sum, LineAdds(t, l)) ELSE sum

(* What FoldLeft computes for the lines o, and for the sets of line        *)
(* numbers that it passes through.                                         *)
Tally(t, N, o, D, it) ==
  it = [s \in SUBSET D |->
          IF s = {} THEN Zero ELSE AddLine(t, N, it[s \ {Max(s)}], o[Max(s)])]
Tallied(t, N, o, D) == CHOOSE it : Tally(t, N, o, D, it)
Sums(t, N, o) == Tallied(t, N, o, DOMAIN o)[DOMAIN o]

LEMMA SumsOf ==
  ASSUME NEW N
  PROVE  SumOf(N) = Sums(fs, N, out)
<1>1. \A l : Adds(l) = LineAdds(fs, l)
  BY DEF Adds, LineAdds
<1> QED
  BY <1>1, Zenon DEF SumOf, Sums, Tallied, Tally, FoldLeft, MapThenFoldSet, AddLine

LEMMA MaxIs ==
  ASSUME NEW s, NEW m \in s, s \subseteq Nat, \A j \in s : j <= m
  PROVE  Max(s) = m
<1>1. \A x \in s : (\A y \in s : x >= y) => x = m
  <2> SUFFICES ASSUME NEW x \in s, \A y \in s : x >= y PROVE x = m
    OBVIOUS
  <2>1. x \in Nat /\ m \in Nat /\ x >= m /\ x <= m
    OBVIOUS
  <2> QED
    BY <2>1
<1>2. \A y \in s : m >= y
  OBVIOUS
<1> QED
  BY <1>1, <1>2 DEF Max

LEMMA TalliedExists ==
  ASSUME NEW t, NEW N, NEW o, NEW n \in Nat
  PROVE  Tally(t, N, o, 1 .. n, Tallied(t, N, o, 1 .. n))
<1> DEFINE Is(m, it) == it = [s \in SUBSET (1 .. m) |->
             IF s = {} THEN Zero ELSE AddLine(t, N, it[s \ {Max(s)}], o[Max(s)])]
           Missing == {m \in Nat : ~\E it : Is(m, it)}
<1>1. \E it : Is(0, it)
  <2>1. Is(0, [s \in {{}} |-> Zero])
    <3>1. SUBSET (1 .. 0) = {{}}
      OBVIOUS
    <3> QED
      BY <3>1
  <2> QED
    BY <2>1, Zenon
<1>2. ASSUME NEW m \in Nat, NEW g, Is(m, g)
      PROVE  \E it : Is(m + 1, it)
  <2> DEFINE F(s) == IF m + 1 \in s THEN AddLine(t, N, g[s \ {m + 1}], o[m + 1])
                     ELSE g[s]
  <2>1. PICK h : h = [s \in SUBSET (1 .. m + 1) |-> F(s)]
    OBVIOUS
  <2>2. ASSUME NEW s \in SUBSET (1 .. m + 1)
        PROVE  F(s) = IF s = {} THEN Zero
                      ELSE AddLine(t, N, h[s \ {Max(s)}], o[Max(s)])
    <3>1. CASE m + 1 \in s
      <4>1. Max(s) = m + 1
        <5>1. s \subseteq Nat /\ \A j \in s : j <= m + 1
          OBVIOUS
        <5>2. PICK last : last = m + 1
          OBVIOUS
        <5> QED
          BY <3>1, <5>1, <5>2, MaxIs
      <4>2. s \ {m + 1} \in SUBSET (1 .. m + 1) /\ m + 1 \notin s \ {m + 1}
        OBVIOUS
      <4>3. h[s \ {m + 1}] = g[s \ {m + 1}]
        BY <2>1, <4>2
      <4> QED
        BY <3>1, <4>1, <4>3
    <3>2. CASE m + 1 \notin s
      <4>1. s \in SUBSET (1 .. m)
        BY <3>2
      <4>2. PICK r : r = s \ {Max(s)}
        OBVIOUS
      <4>3. r \in SUBSET (1 .. m + 1) /\ m + 1 \notin r
        BY <3>2, <4>2
      <4>4. h[r] = g[r]
        BY <2>1, <4>3
      <4>5. g[s] = IF s = {} THEN Zero ELSE AddLine(t, N, g[r], o[Max(s)])
        BY <1>2, <4>1, <4>2
      <4> QED
        BY <3>2, <4>2, <4>4, <4>5
    <3> QED
      BY <3>1, <3>2
  <2> HIDE DEF F
  <2>3. Is(m + 1, h)
    BY <2>1, <2>2
  <2> QED
    BY <2>3, Zenon
<1> HIDE DEF Is
<1>3. \E it : Is(n, it)
  <2> SUFFICES ASSUME n \in Missing PROVE FALSE
    OBVIOUS
  <2>1. PICK m \in Missing : \A j \in Missing : m <= j
    <3>1. Missing \in SUBSET Nat /\ Missing /= {}
      OBVIOUS
    <3> HIDE DEF Missing
    <3> QED
      BY <3>1, Least
  <2>2. m \in Nat /\ ~\E it : Is(m, it)
    OBVIOUS
  <2>3. m /= 0
    BY <1>1, <2>2
  <2>4. m - 1 \in Nat /\ m - 1 + 1 = m /\ ~(m <= m - 1)
    BY <2>2, <2>3
  <2>5. m - 1 \notin Missing
    BY <2>1, <2>4
  <2>6. \E it : Is(m - 1, it)
    BY <2>4, <2>5
  <2> QED
    BY <1>2, <2>2, <2>4, <2>6
<1>4. Tallied(t, N, o, 1 .. n) = CHOOSE it : Is(n, it)
  BY DEF Tallied, Tally, Is
<1>5. Is(n, Tallied(t, N, o, 1 .. n))
  BY <1>3, <1>4, Zenon
<1> QED
  BY <1>5 DEF Is, Tally

(* The sum of the first m lines is one line more than that of m - 1.       *)
LEMMA TalliedTo ==
  ASSUME NEW t, NEW N, NEW o, NEW n \in Nat
  PROVE  /\ Tallied(t, N, o, 1 .. n)[{}] = Zero
         /\ \A m \in 1 .. n :
              Tallied(t, N, o, 1 .. n)[1 .. m] =
                AddLine(t, N, Tallied(t, N, o, 1 .. n)[1 .. m - 1], o[m])
<1>1. PICK g : g = Tallied(t, N, o, 1 .. n)
  OBVIOUS
<1>2. \A s \in SUBSET (1 .. n) :
        g[s] = IF s = {} THEN Zero ELSE AddLine(t, N, g[s \ {Max(s)}], o[Max(s)])
  <2>1. g = [s \in SUBSET (1 .. n) |->
              IF s = {} THEN Zero ELSE AddLine(t, N, g[s \ {Max(s)}], o[Max(s)])]
    <3>1. Tally(t, N, o, 1 .. n, g)
      BY <1>1, TalliedExists
    <3> QED
      BY <3>1 DEF Tally
  <2> QED
    BY <2>1
<1>3. ASSUME NEW m \in 1 .. n
      PROVE  g[1 .. m] = AddLine(t, N, g[1 .. m - 1], o[m])
  <2>1. PICK s : s = 1 .. m
    OBVIOUS
  <2>2. m \in Nat /\ 1 <= m /\ m <= n
    OBVIOUS
  <2>a. m \in s
    BY <2>1, <2>2
  <2>b. \A j \in s : j \in Nat /\ j <= m
    BY <2>1, <2>2
  <2>3. m \in s /\ s /= {} /\ s \subseteq Nat /\ \A j \in s : j <= m
    BY <2>a, <2>b
  <2>4. s \in SUBSET (1 .. n)
    BY <2>1, <2>2
  <2>5. Max(s) = m
    BY <2>3, MaxIs
  <2>6. s \ {m} = 1 .. m - 1
    BY <2>1, <2>2
  <2> QED
    BY <1>2, <2>1, <2>3, <2>4, <2>5, <2>6
<1>4. g[{}] = Zero
  BY <1>2
<1> QED
  BY <1>1, <1>3, <1>4

(* The sums of no lines, and with one line more.                           *)
LEMMA SumsNone ==
  ASSUME NEW t, NEW N, NEW o, DOMAIN o = {}
  PROVE  Sums(t, N, o) = Zero
<1>1. 1 .. 0 = {} /\ 0 \in Nat
  OBVIOUS
<1> QED
  BY <1>1, TalliedTo DEF Sums

LEMMA SumsAppend ==
  ASSUME NEW t, NEW N, NEW o, IsSeq(o), NEW l
  PROVE  Sums(t, N, Append(o, l)) = AddLine(t, N, Sums(t, N, o), l)
<1>1. PICK n, o2 : n = Len(o) /\ o2 = Append(o, l)
  OBVIOUS
<1>2. /\ n \in Nat /\ DOMAIN o = 1 .. n /\ DOMAIN o2 = 1 .. n + 1
      /\ o2[n + 1] = l /\ \A j \in 1 .. n : o2[j] = o[j]
  BY <1>1, Elements, Appended
<1>3. PICK g, h : /\ g = Tallied(t, N, o, 1 .. n)
                  /\ h = Tallied(t, N, o2, 1 .. n + 1)
  OBVIOUS
<1>4. /\ g[{}] = Zero
      /\ \A m \in 1 .. n : g[1 .. m] = AddLine(t, N, g[1 .. m - 1], o[m])
  <2>1. n \in Nat
    BY <1>2
  <2> QED
    BY <1>3, <2>1, TalliedTo
<1>5. /\ h[{}] = Zero
      /\ \A m \in 1 .. n + 1 : h[1 .. m] = AddLine(t, N, h[1 .. m - 1], o2[m])
  <2>1. n + 1 \in Nat
    BY <1>2
  <2> QED
    BY <1>3, <2>1, TalliedTo
<1>6. g[1 .. n] = h[1 .. n]
  <2> DEFINE Wrong == {m \in 0 .. n : g[1 .. m] /= h[1 .. m]}
  <2> SUFFICES ASSUME Wrong /= {} PROVE FALSE
    BY <1>2
  <2>1. PICK m \in Wrong : \A j \in Wrong : m <= j
    <3>1. Wrong \in SUBSET Nat
      BY <1>2
    <3> HIDE DEF Wrong
    <3> QED
      BY <3>1, Least
  <2>2. m \in 0 .. n /\ g[1 .. m] /= h[1 .. m]
    OBVIOUS
  <2>3. m /= 0
    <3>1. 1 .. 0 = {}
      OBVIOUS
    <3> QED
      BY <1>4, <1>5, <2>2, <3>1
  <2>4. m \in 1 .. n /\ m \in 1 .. n + 1 /\ m - 1 \in 0 .. n /\ ~(m <= m - 1)
    BY <1>2, <2>2, <2>3
  <2>5. g[1 .. m - 1] = h[1 .. m - 1]
    BY <2>1, <2>4
  <2>6. o2[m] = o[m]
    BY <1>2, <2>4
  <2> QED
    BY <1>4, <1>5, <2>2, <2>4, <2>5, <2>6
<1>7. n + 1 \in 1 .. n + 1 /\ n + 1 - 1 = n
  BY <1>2
<1>8. h[1 .. n + 1] = AddLine(t, N, g[1 .. n], l)
  BY <1>2, <1>5, <1>6, <1>7
<1> QED
  BY <1>1, <1>2, <1>3, <1>8 DEF Sums

-----------------------------------------------------------------------------
(* What the sums and the counters are while main works on argument a of L, *)
(* with the options f; ts and tot stand for tstat and total.               *)
Tallies == [count : [Counted -> Nat], size : Nat, blocks : Nat]
Devs(t, N, o) == {j \in DOMAIN o : /\ o[j].kind = "entry" /\ o[j].arg \in N
                                   /\ t[o[j].path].type = "block"}
Alike(f, D, a, b) ==
  /\ a.count = b.count
  /\ "v" \in f => a.size = b.size /\ (D = {} => a.blocks = b.blocks)
Matches(t, f, N, o, x) == Alike(f, Devs(t, N, o), x, Sums(t, N, o))
Only(o, n, kind, t, f, N) ==
  \E j \in DOMAIN o : Line(o, n, kind) = {j} /\ Matches(t, f, N, o, o[j].content)

Additive(t, o) ==
  /\ \A N \in SUBSET Nat : Sums(t, N, o) \in Tallies
  /\ \A M, N \in SUBSET Nat : M \cap N = {} =>
       Sums(t, M \union N, o) = Plus(Sums(t, M, o), Sums(t, N, o))
Fresh(t, a, o) ==
  \A n \in Nat :
    /\ n > a => Sums(t, {n}, o) = Zero
    /\ n >= a => Line(o, n, "summary") = {} /\ Line(o, n, "total") = {}
Counters(t, f, L, a, o, ts, tot) ==
  /\ ts \in Tallies /\ tot \in Tallies
  /\ a <= L => Matches(t, f, {a}, o, ts)
  /\ a <= L + 1 => Matches(t, f, 1 .. a - 1, o, tot)
Summaries(t, f, L, a, o) ==
  "s" \in f =>
    /\ \A n \in 1 .. L : n < a => Only(o, n, "summary", t, f, {n})
    /\ a = L + 2 /\ L > 1 => Only(o, L + 1, "total", t, f, 1 .. L)
Totalled(t, f, L, a, o, ts, tot) ==
  /\ Additive(t, o) /\ Fresh(t, a, o)
  /\ Counters(t, f, L, a, o, ts, tot) /\ Summaries(t, f, L, a, o)

LEMMA PlusLaws ==
  ASSUME NEW x \in Tallies, NEW y \in Tallies, NEW z \in Tallies
  PROVE  /\ Zero \in Tallies /\ Plus(x, y) \in Tallies
         /\ Plus(Zero, Zero) = Zero
         /\ Plus(Plus(x, y), z) = Plus(x, Plus(y, z))
         /\ Plus(Plus(x, y), z) = Plus(Plus(x, z), y)
<1>1. /\ \A c \in Counted : x.count[c] \in Nat /\ y.count[c] \in Nat /\ z.count[c] \in Nat
      /\ x.size \in Nat /\ y.size \in Nat /\ z.size \in Nat
      /\ x.blocks \in Nat /\ y.blocks \in Nat /\ z.blocks \in Nat
  BY DEF Tallies
<1>2. Zero \in Tallies /\ Plus(x, y) \in Tallies
  BY <1>1 DEF Tallies, Zero, Plus
<1>3. Plus(Zero, Zero) = Zero
  BY DEF Zero, Plus
<1>4. Plus(Plus(x, y), z) = Plus(x, Plus(y, z))
  <2>1. [c \in Counted |-> Plus(x, y).count[c] + z.count[c]] =
          [c \in Counted |-> x.count[c] + Plus(y, z).count[c]]
    <3>1. \A c \in Counted : Plus(x, y).count[c] + z.count[c] =
                             x.count[c] + Plus(y, z).count[c]
      BY <1>1 DEF Plus
    <3> QED
      BY <3>1
  <2>2. /\ Plus(x, y).size + z.size = x.size + Plus(y, z).size
        /\ Plus(x, y).blocks + z.blocks = x.blocks + Plus(y, z).blocks
    BY <1>1 DEF Plus
  <2>3. \A u, w : Plus(u, w) = [count |-> [c \in Counted |-> u.count[c] + w.count[c]],
                              size |-> u.size + w.size, blocks |-> u.blocks + w.blocks]
    BY DEF Plus
  <2> QED
    BY <2>1, <2>2, <2>3
<1>5. Plus(Plus(x, y), z) = Plus(Plus(x, z), y)
  <2>1. [c \in Counted |-> Plus(x, y).count[c] + z.count[c]] =
          [c \in Counted |-> Plus(x, z).count[c] + y.count[c]]
    <3>1. \A c \in Counted : Plus(x, y).count[c] + z.count[c] =
                             Plus(x, z).count[c] + y.count[c]
      BY <1>1 DEF Plus
    <3> QED
      BY <3>1
  <2>2. /\ Plus(x, y).size + z.size = Plus(x, z).size + y.size
        /\ Plus(x, y).blocks + z.blocks = Plus(x, z).blocks + y.blocks
    BY <1>1 DEF Plus
  <2>3. \A u, w : Plus(u, w) = [count |-> [c \in Counted |-> u.count[c] + w.count[c]],
                              size |-> u.size + w.size, blocks |-> u.blocks + w.blocks]
    BY DEF Plus
  <2> QED
    BY <2>1, <2>2, <2>3
<1> QED
  BY <1>2, <1>3, <1>4, <1>5

(* One line more.                                                          *)
LEMMA AdditiveOn ==
  ASSUME NEW t, NEW o, NEW o2, NEW l, Additive(t, o),
         \A N : Sums(t, N, o2) = AddLine(t, N, Sums(t, N, o), l),
         l.kind = "entry" => LineAdds(t, l) \in Tallies
  PROVE  Additive(t, o2)
<1>1. ASSUME NEW N \in SUBSET Nat PROVE Sums(t, N, o2) \in Tallies
  <2>1. Sums(t, N, o) \in Tallies
    BY DEF Additive
  <2> QED
    BY <2>1, PlusLaws DEF AddLine
<1>2. ASSUME NEW M \in SUBSET Nat, NEW N \in SUBSET Nat, M \cap N = {}
      PROVE  Sums(t, M \union N, o2) = Plus(Sums(t, M, o2), Sums(t, N, o2))
  <2>1. PICK x, y, z : /\ x = Sums(t, M, o) /\ y = Sums(t, N, o)
                       /\ z = Sums(t, M \union N, o)
    OBVIOUS
  <2>2. x \in Tallies /\ y \in Tallies /\ z = Plus(x, y)
    BY <1>2, <2>1 DEF Additive
  <2>3. PICK u : u = LineAdds(t, l)
    OBVIOUS
  <2>4. /\ Sums(t, M, o2) = IF l.kind = "entry" /\ l.arg \in M THEN Plus(x, u) ELSE x
        /\ Sums(t, N, o2) = IF l.kind = "entry" /\ l.arg \in N THEN Plus(y, u) ELSE y
        /\ Sums(t, M \union N, o2) =
             IF l.kind = "entry" /\ l.arg \in M \union N THEN Plus(z, u) ELSE z
    BY <2>1, <2>3 DEF AddLine
  <2>5. CASE l.kind = "entry" /\ l.arg \in M
    <3>1. l.arg \notin N
      BY <1>2, <2>5
    <3>2. Plus(z, u) = Plus(Plus(x, u), y)
      BY <2>2, <2>3, <2>5, PlusLaws
    <3> QED
      BY <2>4, <2>5, <3>1, <3>2
  <2>6. CASE l.kind = "entry" /\ l.arg \in N
    <3>1. l.arg \notin M
      BY <1>2, <2>6
    <3>2. Plus(z, u) = Plus(x, Plus(y, u))
      BY <2>2, <2>3, <2>6, PlusLaws
    <3> QED
      BY <2>4, <2>6, <3>1, <3>2
  <2>7. CASE l.kind /= "entry" \/ l.arg \notin M \union N
    BY <2>2, <2>4, <2>7
  <2> QED
    BY <2>5, <2>6, <2>7
<1> QED
  BY <1>1, <1>2 DEF Additive

(* The block devices among the lines, with one line more.                  *)
LEMMA DevsAppend ==
  ASSUME NEW t, NEW o, IsSeq(o), NEW l, NEW N
  PROVE  Devs(t, N, Append(o, l)) = Devs(t, N, o) \union
           (IF l.kind = "entry" /\ l.arg \in N /\ t[l.path].type = "block"
            THEN {Len(o) + 1} ELSE {})
<1>1. PICK o2, m : o2 = Append(o, l) /\ m = Len(o) + 1
  OBVIOUS
<1>2. /\ DOMAIN o2 = DOMAIN o \union {m} /\ m \notin DOMAIN o /\ o2[m] = l
      /\ \A j \in DOMAIN o : o2[j] = o[j]
  <2>1. DOMAIN o = 1 .. Len(o) /\ Len(o) \in Nat /\ DOMAIN o2 = 1 .. Len(o) + 1
    BY <1>1, Elements, Appended
  <2>2. /\ o2[Len(o) + 1] = l
        /\ \A j \in 1 .. Len(o) : o2[j] = o[j]
    BY <1>1, Elements, Appended
  <2>3. 1 .. Len(o) + 1 = 1 .. Len(o) \union {Len(o) + 1}
    BY <2>1
  <2>4. Len(o) + 1 \notin 1 .. Len(o)
    BY <2>1
  <2> QED
    BY <1>1, <2>1, <2>2, <2>3, <2>4
<1>3. ASSUME NEW j
      PROVE  j \in Devs(t, N, o2) <=>
               \/ j \in Devs(t, N, o)
               \/ j = m /\ l.kind = "entry" /\ l.arg \in N /\ t[l.path].type = "block"
  <2>1. CASE j = m
    BY <1>2, <2>1 DEF Devs
  <2>2. CASE j /= m
    BY <1>2, <2>2 DEF Devs
  <2> QED
    BY <2>1, <2>2
<1> QED
  BY <1>1, <1>3

LEMMA NoDevice ==
  ASSUME NEW t, NEW o, IsSeq(o), NEW l, NEW N, l.kind /= "entry" \/ l.arg \notin N
  PROVE  Devs(t, N, Append(o, l)) = Devs(t, N, o)
<1>1. Devs(t, N, Append(o, l)) = Devs(t, N, o) \union {}
  <2>1. (IF l.kind = "entry" /\ l.arg \in N /\ t[l.path].type = "block"
         THEN {Len(o) + 1} ELSE {}) = {}
    OBVIOUS
  <2> QED
    BY <2>1, DevsAppend
<1> QED
  BY <1>1

(* Their sets for two sets of arguments.                                   *)
LEMMA DevsOfBoth ==
  ASSUME NEW t, NEW o, NEW M, NEW N
  PROVE  Devs(t, M \union N, o) = Devs(t, M, o) \union Devs(t, N, o)
BY DEF Devs

(* A line that is neither an entry nor a summary.                          *)
Idle(l) == l.kind \notin {"entry", "summary", "total"}
SameTotals(t, o, o2) ==
  /\ \A N : Sums(t, N, o2) = Sums(t, N, o) /\ Devs(t, N, o2) = Devs(t, N, o)
  /\ \A j \in DOMAIN o : j \in DOMAIN o2 /\ o2[j] = o[j]
  /\ \A n : /\ Line(o2, n, "summary") = Line(o, n, "summary")
            /\ Line(o2, n, "total") = Line(o, n, "total")

LEMMA IdleLine ==
  ASSUME NEW t, NEW o, IsSeq(o), NEW l, Idle(l)
  PROVE  SameTotals(t, o, Append(o, l)) /\ IsSeq(Append(o, l))
<1>1. PICK o2 : o2 = Append(o, l)
  OBVIOUS
<1>2. IsSeq(o2) /\ Grown(o, o2, l)
  BY <1>1, Growing
<1>3. ASSUME NEW N
      PROVE  Sums(t, N, o2) = Sums(t, N, o) /\ Devs(t, N, o2) = Devs(t, N, o)
  <2>1. Sums(t, N, o2) = AddLine(t, N, Sums(t, N, o), l)
    BY <1>1, SumsAppend
  <2>2. Devs(t, N, o2) = Devs(t, N, o)
    <3>1. l.kind /= "entry"
      BY DEF Idle
    <3> QED
      BY <1>1, <3>1, NoDevice
  <2> QED
    BY <2>1, <2>2 DEF AddLine, Idle
<1>4. ASSUME NEW n
      PROVE  /\ Line(o2, n, "summary") = Line(o, n, "summary")
             /\ Line(o2, n, "total") = Line(o, n, "total")
  BY <1>2, GrownLines DEF Idle
<1>5. \A j \in DOMAIN o : j \in DOMAIN o2 /\ o2[j] = o[j]
  BY <1>2 DEF Grown
<1> QED
  BY <1>1, <1>2, <1>3, <1>4, <1>5 DEF SameTotals

LEMMA SameTotalled ==
  ASSUME NEW t, NEW f, NEW L, NEW a, NEW o, NEW o2, NEW ts, NEW tot,
         Totalled(t, f, L, a, o, ts, tot), SameTotals(t, o, o2)
  PROVE  Totalled(t, f, L, a, o2, ts, tot)
<1>1. /\ \A N : Sums(t, N, o2) = Sums(t, N, o)
      /\ \A N, x : Matches(t, f, N, o2, x) <=> Matches(t, f, N, o, x)
  BY DEF SameTotals, Matches
<1>2. Additive(t, o2)
  BY <1>1 DEF Totalled, Additive
<1>3. Fresh(t, a, o2)
  BY <1>1 DEF Totalled, Fresh, SameTotals
<1>4. Counters(t, f, L, a, o2, ts, tot)
  BY <1>1 DEF Totalled, Counters
<1>5. ASSUME NEW n, NEW k \in {"summary", "total"}, NEW N,
             Only(o, n, k, t, f, N)
      PROVE  Only(o2, n, k, t, f, N)
  BY <1>1, <1>5 DEF Only, SameTotals
<1>6. Summaries(t, f, L, a, o2)
  BY <1>5 DEF Totalled, Summaries
<1> QED
  BY <1>2, <1>3, <1>4, <1>6 DEF Totalled

LEMMA PlusAlike ==
  ASSUME NEW f, NEW D, NEW E, NEW a, NEW b, NEW c, NEW d,
         Alike(f, D, a, b), Alike(f, E, c, d)
  PROVE  Alike(f, D \union E, Plus(a, c), Plus(b, d))
BY DEF Alike, Plus

(* PrintEntry: what calculateFileInfo makes of the counters is what the    *)
(* line adds to the sums, but for the blocks if it is that of a device; E  *)
(* is empty if it is not.                                                  *)
Counting(ts, st, ts2) ==
  ts2 = [count |-> [c \in Counted |-> ts.count[c] + (IF st.type = c THEN 1 ELSE 0)],
         size |-> ts.size + st.size,
         blocks |-> ts.blocks + st.blocks + (IF st.type = "block" THEN 1 ELSE 0)]
Shows(t, f, l, st) ==
  /\ st = t[l.path] /\ st.size \in Nat /\ st.blocks \in Nat
  /\ l.content.verbose = IF "v" \in f THEN {calculateVerbose(st)} ELSE {}
EntryMatches(t, f, l, ts, ts2) ==
  \A s \in Tallies : \A D, E :
    /\ Alike(f, D, ts, s) /\ (E = {} => t[l.path].type /= "block")
    => Alike(f, D \union E, ts2, Plus(s, LineAdds(t, l)))
LEMMA EntryAdds ==
  ASSUME NEW t, NEW f, NEW l, NEW st, NEW ts \in Tallies, NEW ts2,
         Shows(t, f, l, st), Counting(ts, st, ts2)
  PROVE  /\ LineAdds(t, l) \in Tallies /\ ts2 \in Tallies
         /\ EntryMatches(t, f, l, ts, ts2)
<1>0. /\ st = t[l.path] /\ st.size \in Nat /\ st.blocks \in Nat
      /\ l.content.verbose = IF "v" \in f THEN {calculateVerbose(st)} ELSE {}
      /\ ts2 = [count |-> [c \in Counted |->
                             ts.count[c] + (IF st.type = c THEN 1 ELSE 0)],
                size |-> ts.size + st.size,
                blocks |-> ts.blocks + st.blocks
                             + (IF st.type = "block" THEN 1 ELSE 0)]
  BY DEF Shows, Counting
<1>1. PICK column : column = IF l.content.verbose = {} THEN Zero
                             ELSE CHOOSE v \in l.content.verbose : TRUE
  OBVIOUS
<1>2. /\ column.size \in Nat /\ column.blocks \in Nat
      /\ "v" \in f => column.size = st.size /\ column.blocks = st.blocks
  <2>1. CASE "v" \in f
    <3>1. column = calculateVerbose(st)
      <4>1. l.content.verbose = {calculateVerbose(st)}
        BY <1>0, <2>1
      <4> QED
        BY <1>1, <4>1
    <3> QED
      BY <1>0, <3>1 DEF calculateVerbose
  <2>2. CASE "v" \notin f
    BY <1>0, <1>1, <2>2 DEF Zero
  <2> QED
    BY <2>1, <2>2
<1>3. PICK x : x = LineAdds(t, l)
  OBVIOUS
<1>4. x = [count |-> [c \in Counted |-> IF st.type = c THEN 1 ELSE 0],
           size |-> column.size, blocks |-> column.blocks]
  BY <1>0, <1>1, <1>3 DEF LineAdds
<1>5. x \in Tallies
  <2>1. [c \in Counted |-> IF st.type = c THEN 1 ELSE 0] \in [Counted -> Nat]
    OBVIOUS
  <2> QED
    BY <1>2, <1>4, <2>1 DEF Tallies
<1>6. /\ \A c \in Counted : ts.count[c] \in Nat
      /\ ts.size \in Nat /\ ts.blocks \in Nat
  BY DEF Tallies
<1>7. ts2 \in Tallies
  <2>1. [c \in Counted |-> ts.count[c] + (IF st.type = c THEN 1 ELSE 0)]
          \in [Counted -> Nat]
    BY <1>6
  <2>2. /\ ts.size + st.size \in Nat
        /\ ts.blocks + st.blocks + (IF st.type = "block" THEN 1 ELSE 0) \in Nat
    BY <1>0, <1>6
  <2> QED
    BY <1>0, <2>1, <2>2 DEF Tallies
<1>8. ASSUME NEW s \in Tallies, NEW D, NEW E, Alike(f, D, ts, s),
             E = {} => t[l.path].type /= "block"
      PROVE  Alike(f, D \union E, ts2, Plus(s, x))
  <2>1. ts2.count = Plus(s, x).count
    <3>1. ts.count = s.count
      BY <1>8 DEF Alike
    <3>2. \A c \in Counted : x.count[c] = IF st.type = c THEN 1 ELSE 0
      BY <1>4
    <3> QED
      BY <1>0, <3>1, <3>2 DEF Plus
  <2>2. ASSUME "v" \in f
        PROVE  /\ ts2.size = Plus(s, x).size
               /\ D \union E = {} => ts2.blocks = Plus(s, x).blocks
    <3>1. ts.size = s.size /\ (D = {} => ts.blocks = s.blocks)
      BY <1>8, <2>2 DEF Alike
    <3>2. x.size = st.size /\ x.blocks = st.blocks
      BY <1>2, <1>4, <2>2
    <3>3. Plus(s, x).size = s.size + x.size /\ Plus(s, x).blocks = s.blocks + x.blocks
      BY DEF Plus
    <3>4. ts2.size = Plus(s, x).size
      BY <1>0, <1>6, <3>1, <3>2, <3>3
    <3>5. ASSUME D \union E = {} PROVE ts2.blocks = Plus(s, x).blocks
      <4>1. D = {} /\ E = {}
        BY <3>5
      <4>2. st.type /= "block" /\ ts.blocks = s.blocks
        BY <1>0, <1>8, <3>1, <4>1
      <4>3. ts2.blocks = ts.blocks + st.blocks
        BY <1>0, <1>6, <4>2
      <4> QED
        BY <3>2, <3>3, <4>2, <4>3
    <3> QED
      BY <3>4, <3>5
  <2> QED
    BY <2>1, <2>2 DEF Alike
<1> QED
  BY <1>3, <1>5, <1>7, <1>8 DEF EntryMatches

LEMMA EntryTotalled ==
  ASSUME NEW t, NEW f, NEW L \in Nat, NEW a \in Nat \ {0}, a <= L,
         NEW o, IsSeq(o), NEW l, l.kind = "entry", l.arg = a,
         NEW ts, NEW ts2 \in Tallies, NEW tot,
         Totalled(t, f, L, a, o, ts, tot), LineAdds(t, l) \in Tallies,
         EntryMatches(t, f, l, ts, ts2)
  PROVE  Totalled(t, f, L, a, Append(o, l), ts2, tot)
<1>1. PICK o2 : o2 = Append(o, l)
  OBVIOUS
<1>2. IsSeq(o2) /\ Grown(o, o2, l)
  BY <1>1, Growing
<1>3. \A N : Sums(t, N, o2) = AddLine(t, N, Sums(t, N, o), l)
  BY <1>1, SumsAppend
<1>4. /\ \A N : a \notin N => Sums(t, N, o2) = Sums(t, N, o)
      /\ \A N : a \in N => Sums(t, N, o2) = Plus(Sums(t, N, o), LineAdds(t, l))
  BY <1>3 DEF AddLine
<1>11. \A N, x : a \notin N => (Matches(t, f, N, o2, x) <=> Matches(t, f, N, o, x))
  <2>1. ASSUME NEW N, a \notin N PROVE Devs(t, N, o2) = Devs(t, N, o)
    <3>1. l.arg \notin N
      BY <2>1
    <3> QED
      BY <1>1, <3>1, NoDevice
  <2> QED
    BY <1>4, <2>1 DEF Matches
<1>5. Additive(t, o2)
  BY <1>3, AdditiveOn DEF Totalled
<1>6. \A n : /\ Line(o2, n, "summary") = Line(o, n, "summary")
             /\ Line(o2, n, "total") = Line(o, n, "total")
  BY <1>2, GrownLines
<1>7. Fresh(t, a, o2)
  <2>1. \A n \in Nat : n > a => a \notin {n}
    OBVIOUS
  <2> QED
    BY <1>4, <1>6, <2>1 DEF Totalled, Fresh
<1>8. Counters(t, f, L, a, o2, ts2, tot)
  <2>1. a \notin 1 .. a - 1 /\ a \in {a} /\ {a} \in SUBSET Nat
    OBVIOUS
  <2>2. Sums(t, {a}, o) \in Tallies
    BY <2>1 DEF Totalled, Additive
  <2>3. PICK s, D, E : /\ s = Sums(t, {a}, o) /\ D = Devs(t, {a}, o)
                       /\ E = IF t[l.path].type = "block" THEN {Len(o) + 1} ELSE {}
    OBVIOUS
  <2>4. Devs(t, {a}, o2) = D \union E
    BY <1>1, <2>1, <2>3, DevsAppend
  <2>5. E = {} => t[l.path].type /= "block"
    BY <2>3
  <2>6. Alike(f, D, ts, s)
    BY <2>3 DEF Totalled, Counters, Matches
  <2>7. Alike(f, D \union E, ts2, Plus(s, LineAdds(t, l)))
    BY <2>2, <2>3, <2>5, <2>6 DEF EntryMatches
  <2>8. Matches(t, f, {a}, o2, ts2)
    BY <1>4, <2>1, <2>3, <2>4, <2>7 DEF Matches
  <2> QED
    BY <1>11, <2>1, <2>8 DEF Totalled, Counters
<1>9. ASSUME NEW n \in 1 .. L, n < a, "s" \in f
      PROVE  Only(o2, n, "summary", t, f, {n})
  <2>1. PICK j \in DOMAIN o : /\ Line(o, n, "summary") = {j}
                              /\ Matches(t, f, {n}, o, o[j].content)
    BY <1>9 DEF Totalled, Summaries, Only
  <2>2. j \in DOMAIN o2 /\ o2[j] = o[j]
    BY <1>2 DEF Grown
  <2>3. a \notin {n}
    BY <1>9
  <2> QED
    BY <1>6, <1>11, <2>1, <2>2, <2>3 DEF Only
<1>10. Summaries(t, f, L, a, o2)
  <2>1. a /= L + 2
    OBVIOUS
  <2> QED
    BY <1>9, <2>1 DEF Summaries
<1> QED
  BY <1>1, <1>5, <1>7, <1>8, <1>10 DEF Totalled

(* A summary of argument a is its only line of that kind.                  *)
Summed(t, f, o, o2, a, k, content) ==
  /\ \A N : Sums(t, N, o2) = Sums(t, N, o)
  /\ \A N, x : Matches(t, f, N, o2, x) <=> Matches(t, f, N, o, x)
  /\ Additive(t, o2)
  /\ \A n, c : n /= a \/ c /= k => Line(o2, n, c) = Line(o, n, c)
  /\ \A n, c, N : Only(o, n, c, t, f, N) /\ n /= a => Only(o2, n, c, t, f, N)
  /\ \A N : Line(o, a, k) = {} /\ Matches(t, f, N, o, content)
             => Only(o2, a, k, t, f, N)
Summarised(o, o2, l, a, k, content) ==
  /\ IsSeq(o) /\ o2 = Append(o, l) /\ k \in {"summary", "total"}
  /\ l.kind = k /\ l.arg = a /\ l.content = content
LEMMA SummaryLine ==
  ASSUME NEW t, NEW f, NEW o, NEW o2, NEW l, NEW a, NEW k, NEW content,
         Additive(t, o), Summarised(o, o2, l, a, k, content)
  PROVE  Summed(t, f, o, o2, a, k, content)
<1>0. /\ IsSeq(o) /\ o2 = Append(o, l) /\ k \in {"summary", "total"}
      /\ l.kind = k /\ l.arg = a /\ l.content = content
  BY DEF Summarised
<1>1. IsSeq(o2) /\ Grown(o, o2, l)
  BY <1>0, Growing
<1>2. l.kind /= "entry"
  BY <1>0
<1>3. ASSUME NEW N PROVE Sums(t, N, o2) = Sums(t, N, o)
  <2>1. Sums(t, N, o2) = AddLine(t, N, Sums(t, N, o), l)
    BY <1>0, SumsAppend
  <2> QED
    BY <1>2, <2>1 DEF AddLine
<1>9. \A N, x : Matches(t, f, N, o2, x) <=> Matches(t, f, N, o, x)
  <2>1. \A N : Devs(t, N, o2) = Devs(t, N, o)
    BY <1>0, <1>2, NoDevice
  <2> QED
    BY <1>3, <2>1 DEF Matches
<1>4. Additive(t, o2)
  BY <1>3 DEF Additive
<1>5. ASSUME NEW n, NEW c, n /= a \/ c /= k
      PROVE  Line(o2, n, c) = Line(o, n, c)
  BY <1>0, <1>1, <1>5, GrownLines
<1>6. \A j \in DOMAIN o : j \in DOMAIN o2 /\ o2[j] = o[j]
  BY <1>1 DEF Grown
<1>7. ASSUME NEW n, NEW c, NEW N, Only(o, n, c, t, f, N), n /= a
      PROVE  Only(o2, n, c, t, f, N)
  BY <1>5, <1>6, <1>7, <1>9 DEF Only
<1>8. ASSUME NEW N, Line(o, a, k) = {}, Matches(t, f, N, o, content)
      PROVE  Only(o2, a, k, t, f, N)
  <2>1. PICK j : j = Len(o) + 1
    OBVIOUS
  <2>2. j \in DOMAIN o2 /\ o2[j] = l
    BY <1>1, <2>1 DEF Grown
  <2>3. Line(o2, a, k) = Line(o, a, k) \union {Len(o) + 1}
    BY <1>0, <1>1, GrownLines
  <2>4. Line(o2, a, k) = {j}
    BY <1>8, <2>1, <2>3
  <2> QED
    BY <1>0, <1>8, <1>9, <2>2, <2>4 DEF Only
<1> QED
  BY <1>3, <1>4, <1>5, <1>7, <1>8, <1>9 DEF Summed

LEMMA ArgumentTotalled ==
  ASSUME NEW t, NEW f, NEW L \in Nat, NEW a \in Nat \ {0}, a <= L,
         NEW o, IsSeq(o), NEW ts, NEW tot, Totalled(t, f, L, a, o, ts, tot),
         NEW l, l.kind = "summary", l.arg = a, l.content = ts,
         NEW o2, o2 = IF "s" \in f THEN Append(o, l) ELSE o
  PROVE  Totalled(t, f, L, a + 1, o2, Zero, Plus(tot, ts))
<1>1. /\ \A N : Sums(t, N, o2) = Sums(t, N, o)
      /\ \A N, x : Matches(t, f, N, o2, x) <=> Matches(t, f, N, o, x)
      /\ Additive(t, o2)
      /\ \A n, c : n /= a \/ c /= "summary" => Line(o2, n, c) = Line(o, n, c)
      /\ \A n, c, N : Only(o, n, c, t, f, N) /\ n /= a => Only(o2, n, c, t, f, N)
      /\ \A N : "s" \in f /\ Line(o, a, "summary") = {} /\ Matches(t, f, N, o, ts)
                  => Only(o2, a, "summary", t, f, N)
  <2>1. Additive(t, o)
    BY DEF Totalled
  <2>2. CASE "s" \in f
    <3>1. o2 = Append(o, l)
      BY <2>2
    <3>2. Summarised(o, o2, l, a, "summary", ts)
      BY <3>1 DEF Summarised
    <3>3. Summed(t, f, o, o2, a, "summary", ts)
      BY <2>1, <3>2, SummaryLine
    <3> QED
      BY <3>3 DEF Summed
  <2>3. CASE "s" \notin f
    <3>1. o2 = o
      BY <2>3
    <3> QED
      BY <2>1, <2>3, <3>1
  <2> QED
    BY <2>2, <2>3
<1>2. Fresh(t, a + 1, o2)
  <2>1. \A n \in Nat : /\ n > a + 1 => n > a
                       /\ n >= a + 1 => n >= a /\ n /= a
    OBVIOUS
  <2> QED
    BY <1>1, <2>1 DEF Totalled, Fresh
<1>3. Matches(t, f, 1 .. a, o, Plus(tot, ts))
  <2>1. PICK M, N : M = 1 .. a - 1 /\ N = {a}
    OBVIOUS
  <2>2. M \in SUBSET Nat /\ N \in SUBSET Nat /\ M \cap N = {}
    BY <2>1
  <2>3. 1 .. a = M \union N
    BY <2>1
  <2>4. Sums(t, 1 .. a, o) = Plus(Sums(t, M, o), Sums(t, N, o))
    BY <2>2, <2>3 DEF Totalled, Additive
  <2>5. Matches(t, f, M, o, tot) /\ Matches(t, f, N, o, ts)
    BY <2>1 DEF Totalled, Counters
  <2>6. PICK D, E : D = Devs(t, M, o) /\ E = Devs(t, N, o)
    OBVIOUS
  <2>7. Devs(t, 1 .. a, o) = D \union E
    <3>1. Devs(t, M \union N, o) = Devs(t, M, o) \union Devs(t, N, o)
      BY DevsOfBoth
    <3> QED
      BY <2>3, <2>6, <3>1, Zenon
  <2>8. Alike(f, D \union E, Plus(tot, ts), Plus(Sums(t, M, o), Sums(t, N, o)))
    BY <2>5, <2>6, PlusAlike DEF Matches
  <2> QED
    BY <2>4, <2>7, <2>8 DEF Matches
<1>4. Counters(t, f, L, a + 1, o2, Zero, Plus(tot, ts))
  <2>1. Zero \in Tallies /\ Plus(tot, ts) \in Tallies
    BY PlusLaws DEF Totalled, Counters
  <2>2. a + 1 \in Nat /\ a + 1 > a /\ a + 1 - 1 = a
    OBVIOUS
  <2>3. Sums(t, {a + 1}, o2) = Zero
    BY <1>1, <2>2 DEF Totalled, Fresh
  <2>4. Matches(t, f, {a + 1}, o2, Zero)
    BY <2>3 DEF Matches, Alike
  <2> QED
    BY <1>1, <1>3, <2>1, <2>2, <2>4 DEF Counters
<1>5. ASSUME NEW n \in 1 .. L, n < a + 1, "s" \in f
      PROVE  Only(o2, n, "summary", t, f, {n})
  <2>1. CASE n < a
    <3>1. Only(o, n, "summary", t, f, {n}) /\ n /= a
      BY <1>5, <2>1 DEF Totalled, Summaries
    <3> QED
      BY <1>1, <3>1
  <2>2. CASE n = a
    <3>1. Line(o, a, "summary") = {}
      <4>1. a \in Nat /\ a >= a
        OBVIOUS
      <4> QED
        BY <4>1 DEF Totalled, Fresh
    <3>2. Matches(t, f, {a}, o, ts)
      BY DEF Totalled, Counters
    <3> QED
      BY <1>1, <1>5, <2>2, <3>1, <3>2
  <2> QED
    BY <1>5, <2>1, <2>2
<1>6. Summaries(t, f, L, a + 1, o2)
  <2>1. a + 1 /= L + 2
    OBVIOUS
  <2> QED
    BY <1>5, <2>1 DEF Summaries
<1> QED
  BY <1>1, <1>2, <1>4, <1>6 DEF Totalled

LEMMA GrandTotalled ==
  ASSUME NEW t, NEW f, NEW L \in Nat, NEW a, a = L + 1,
         NEW o, IsSeq(o), NEW ts, NEW tot, Totalled(t, f, L, a, o, ts, tot),
         NEW l, l.kind = "total", l.arg = a, l.content = tot,
         NEW o2, o2 = IF "s" \in f /\ L > 1 THEN Append(o, l) ELSE o
  PROVE  Totalled(t, f, L, a + 1, o2, ts, tot)
<1>1. /\ \A N : Sums(t, N, o2) = Sums(t, N, o)
      /\ \A N, x : Matches(t, f, N, o2, x) <=> Matches(t, f, N, o, x)
      /\ Additive(t, o2)
      /\ \A n, c : n /= a \/ c /= "total" => Line(o2, n, c) = Line(o, n, c)
      /\ \A n, c, N : Only(o, n, c, t, f, N) /\ n /= a => Only(o2, n, c, t, f, N)
      /\ \A N : /\ "s" \in f /\ L > 1 /\ Line(o, a, "total") = {}
                /\ Matches(t, f, N, o, tot)
                => Only(o2, a, "total", t, f, N)
  <2>1. Additive(t, o)
    BY DEF Totalled
  <2>2. CASE "s" \in f /\ L > 1
    <3>1. o2 = Append(o, l)
      BY <2>2
    <3>2. Summarised(o, o2, l, a, "total", tot)
      BY <3>1 DEF Summarised
    <3>3. Summed(t, f, o, o2, a, "total", tot)
      BY <2>1, <3>2, SummaryLine
    <3> QED
      BY <3>3 DEF Summed
  <2>3. CASE ~("s" \in f /\ L > 1)
    <3>1. o2 = o
      BY <2>3
    <3> QED
      BY <2>1, <2>3, <3>1
  <2> QED
    BY <2>2, <2>3
<1>2. Fresh(t, a + 1, o2)
  <2>1. \A n \in Nat : /\ n > a + 1 => n > a
                       /\ n >= a + 1 => n >= a /\ n /= a
    OBVIOUS
  <2> QED
    BY <1>1, <2>1 DEF Totalled, Fresh
<1>3. Counters(t, f, L, a + 1, o2, ts, tot)
  <2>1. ~(a + 1 <= L) /\ ~(a + 1 <= L + 1)
    OBVIOUS
  <2> QED
    BY <2>1 DEF Totalled, Counters
<1>4. ASSUME NEW n \in 1 .. L, "s" \in f
      PROVE  Only(o2, n, "summary", t, f, {n})
  <2>1. n < a /\ n /= a
    OBVIOUS
  <2>2. Only(o, n, "summary", t, f, {n})
    BY <1>4, <2>1 DEF Totalled, Summaries
  <2> QED
    BY <1>1, <2>1, <2>2
<1>5. ASSUME "s" \in f, L > 1
      PROVE  Only(o2, L + 1, "total", t, f, 1 .. L)
  <2>1. a \in Nat /\ a >= a /\ a <= L + 1 /\ a - 1 = L
    OBVIOUS
  <2>2. Line(o, a, "total") = {}
    BY <2>1 DEF Totalled, Fresh
  <2>3. Matches(t, f, 1 .. L, o, tot)
    BY <2>1 DEF Totalled, Counters
  <2> QED
    BY <1>1, <1>5, <2>2, <2>3
<1>6. Summaries(t, f, L, a + 1, o2)
  BY <1>4, <1>5 DEF Summaries
<1> QED
  BY <1>1, <1>2, <1>3, <1>6 DEF Totalled

-----------------------------------------------------------------------------
TotalsInv == Totalled(fs, flags, Len(args), arg, out, tstat, total)

LEMMA OneLine ==
  ASSUME NEW s, IsSeq(s)
  PROVE  s \o <<>> = s /\ \A e : s \o <<e>> = Append(s, e)
<1>1. s \o <<>> = s
  BY ConcatEmptySeq DEF IsSeq
<1>2. ASSUME NEW e PROVE s \o <<e>> = Append(s, e)
  <2>1. PICK T : T = {s[j] : j \in DOMAIN s} \union {e}
    OBVIOUS
  <2>2. s \in Seq(T) /\ e \in T
    BY <2>1, SeqMonotonic DEF IsSeq
  <2> QED
    BY <2>2, AppendIsConcat
<1> QED
  BY <1>1, <1>2

LEMMA InitTotals == Init => TotalsInv
<1> SUFFICES ASSUME Init PROVE TotalsInv
  OBVIOUS
<1>1. PICK t, f, L, a, o : /\ t = fs /\ f = flags /\ L = Len(args) /\ a = arg /\ o = out
  OBVIOUS
<1>2. DOMAIN o = {} /\ tstat = Zero /\ total = Zero
  BY <1>1 DEF Init
<1>3. /\ L \in Nat /\ a \in Nat
      /\ a = 1 \/ (L = 0 /\ a = 2)
  <2>1. DirInv
    BY InitDirInv
  <2>2. args \in Seq(Seq(Int))
    BY <2>1 DEF DirInv, Types
  <2>3. \/ arg = 1
        \/ arg = 2 /\ args = <<>>
    BY DEF Init
  <2>4. Len(args) \in Nat /\ (args = <<>> => Len(args) = 0)
    BY <2>2
  <2> QED
    BY <1>1, <2>3, <2>4
<1>4. \A N : Sums(t, N, o) = Zero
  BY <1>2, SumsNone
<1>5. Zero \in Tallies /\ Plus(Zero, Zero) = Zero
  BY DEF Tallies, Zero, Plus
<1>6. Additive(t, o)
  BY <1>4, <1>5 DEF Additive
<1>7. Fresh(t, a, o)
  BY <1>2, <1>4 DEF Fresh, Line
<1>8. Counters(t, f, L, a, o, Zero, Zero)
  <2>1. \A N : Matches(t, f, N, o, Zero)
    BY <1>4 DEF Matches, Alike
  <2> QED
    BY <1>5, <2>1 DEF Counters
<1>9. Summaries(t, f, L, a, o)
  <2>1. ~(a = L + 2 /\ L > 1) /\ \A n \in 1 .. L : ~(n < a)
    BY <1>3
  <2> QED
    BY <2>1 DEF Summaries
<1> QED
  BY <1>1, <1>2, <1>6, <1>7, <1>8, <1>9 DEF TotalsInv, Totalled

LEMMA EntryIn ==
  ASSUME DirInv, MoreEntries, Name \notin Dots
  PROVE  Path \in DOMAIN fs /\ fs \in Trees
<1>1. stack /= <<>> /\ Top.i \in DOMAIN Top.entries
  BY DEF MoreEntries
<1>2. PICK f : f = Top
  OBVIOUS
<1>3. Frame(fs, f) /\ fs \in Trees
  BY <1>1, <1>2, Walking
<1>4. f.i > 0
  <2> SUFFICES ASSUME f.i = 0 PROVE FALSE
    BY <1>3 DEF Frame
  <2>1. f.entries = <<>>
    BY <1>3 DEF Frame
  <2> QED
    BY <1>1, <1>2, <2>1
<1>5. Sorted(fs, f.dn, f.entries)
  BY <1>3, <1>4 DEF Frame
<1>6. f.entries[f.i] \in Dots \/ Append(f.dn, f.entries[f.i]) \in DOMAIN fs
  BY <1>1, <1>2, <1>5 DEF Sorted
<1> QED
  BY <1>2, <1>3, <1>6 DEF Path, Name

LEMMA PrintEntryTotals ==
  ASSUME DirInv, TotalsInv, PrintEntry
  PROVE  TotalsInv'
<1>1. /\ MoreEntries /\ Name \notin Dots /\ stack /= <<>>
      /\ UNCHANGED <<input, arg, total>>
  BY DEF PrintEntry, MoreEntries, Dots
<1>2. PICK st : st = fs[Path]
  OBVIOUS
<1>3. PICK content :
        /\ out' = Append(out, Printed("entry", Path, content))
        /\ content.verbose = IF "v" \in flags THEN {calculateVerbose(st)} ELSE {}
  <2>1. PICK c : c = [prefix |-> Prefix,
                      verbose |-> IF "v" \in flags THEN {calculateVerbose(fs[Path])} ELSE {}]
    OBVIOUS
  <2>2. c.verbose = IF "v" \in flags THEN {calculateVerbose(fs[Path])} ELSE {}
    BY <2>1
  <2> QED
    BY <1>2, <2>1, <2>2 DEF PrintEntry
<1>4. PICK l : l = Printed("entry", Path, content)
  OBVIOUS
<1>5. l.kind = "entry" /\ l.arg = arg /\ l.path = Path /\ l.content = content
  BY <1>4 DEF Printed
<1>6. PICK ts : ts = tstat'
  OBVIOUS
<1>7. ts = [count |-> [c \in Counted |-> tstat.count[c] + (IF st.type = c THEN 1 ELSE 0)],
            size |-> tstat.size + st.size,
            blocks |-> tstat.blocks + st.blocks + (IF st.type = "block" THEN 1 ELSE 0)]
  BY <1>2, <1>6 DEF PrintEntry, calculateFileInfo
<1>8. st.size \in Nat /\ st.blocks \in Nat
  BY <1>1, <1>2, EntryIn, TreesAssumption
<1>9. tstat \in Tallies
  BY DEF TotalsInv, Totalled, Counters
<1>10. /\ LineAdds(fs, l) \in Tallies /\ ts \in Tallies
       /\ EntryMatches(fs, flags, l, tstat, ts)
  <2>1. Shows(fs, flags, l, st)
    BY <1>2, <1>3, <1>5, <1>8 DEF Shows
  <2>2. Counting(tstat, st, ts)
    BY <1>7 DEF Counting
  <2> QED
    BY <1>9, <2>1, <2>2, EntryAdds
<1>11. /\ Len(args) \in Nat /\ arg \in Nat \ {0} /\ arg <= Len(args) /\ IsSeq(out)
  <2>1. arg \in 1 .. Len(args) + 2 /\ args \in Seq(Seq(Int))
    BY DEF DirInv, Types
  <2>2. arg <= Len(args) /\ IsSeq(out)
    BY <1>1, Walking
  <2> QED
    BY <2>1, <2>2
<1>12. PICK L, a : L = Len(args) /\ a = arg
  OBVIOUS
<1>13. Totalled(fs, flags, L, a, Append(out, l), ts, total)
  <2>1. Totalled(fs, flags, L, a, out, tstat, total)
    BY <1>12 DEF TotalsInv
  <2> QED
    BY <1>5, <1>10, <1>11, <1>12, <2>1, EntryTotalled
<1> QED
  BY <1>1, <1>3, <1>4, <1>6, <1>12, <1>13 DEF TotalsInv, input

LEMMA FinishArgumentTotals ==
  ASSUME DirInv, TotalsInv, FinishArgument
  PROVE  TotalsInv'
<1>1. /\ UNCHANGED input /\ arg' = arg + 1 /\ arg <= Len(args)
      /\ out' = out \o Summary /\ tstat' = Zero /\ total' = Plus(total, tstat)
  BY DEF FinishArgument, ArgumentDone
<1>2. PICK l : l = Printed("summary", args[arg], tstat)
  OBVIOUS
<1>3. l.kind = "summary" /\ l.arg = arg /\ l.content = tstat
  BY <1>2 DEF Printed
<1>4. Len(args) \in Nat /\ arg \in Nat \ {0} /\ IsSeq(out)
  BY DEF DirInv, Types
<1>5. PICK o2 : o2 = out'
  OBVIOUS
<1>6. o2 = IF "s" \in flags THEN Append(out, l) ELSE out
  BY <1>1, <1>2, <1>4, <1>5, OneLine DEF Summary
<1>7. PICK L, a : L = Len(args) /\ a = arg
  OBVIOUS
<1>8. Totalled(fs, flags, L, a + 1, o2, Zero, Plus(total, tstat))
  <2>1. Totalled(fs, flags, L, a, out, tstat, total)
    BY <1>7 DEF TotalsInv
  <2> QED
    BY <1>1, <1>3, <1>4, <1>6, <1>7, <2>1, ArgumentTotalled
<1> QED
  BY <1>1, <1>5, <1>7, <1>8 DEF TotalsInv, input

LEMMA GrandTotalTotals ==
  ASSUME DirInv, TotalsInv, GrandTotal
  PROVE  TotalsInv'
<1>1. /\ UNCHANGED <<input, tstat, total>> /\ arg' = arg + 1 /\ arg = Len(args) + 1
      /\ out' = out \o (IF "s" \in flags /\ Len(args) > 1
                        THEN <<Printed("total", <<>>, total)>> ELSE <<>>)
  BY DEF GrandTotal
<1>2. PICK l : l = Printed("total", <<>>, total)
  OBVIOUS
<1>3. l.kind = "total" /\ l.arg = arg /\ l.content = total
  BY <1>2 DEF Printed
<1>4. Len(args) \in Nat /\ IsSeq(out)
  BY DEF DirInv, Types
<1>5. PICK L, a, o2 : L = Len(args) /\ a = arg /\ o2 = out'
  OBVIOUS
<1>6. o2 = IF "s" \in flags /\ L > 1 THEN Append(out, l) ELSE out
  BY <1>1, <1>2, <1>4, <1>5, OneLine
<1>7. Totalled(fs, flags, L, a + 1, o2, tstat, total)
  <2>1. Totalled(fs, flags, L, a, out, tstat, total)
    BY <1>5 DEF TotalsInv
  <2> QED
    BY <1>1, <1>3, <1>4, <1>5, <1>6, <2>1, GrandTotalled
<1> QED
  BY <1>1, <1>5, <1>7 DEF TotalsInv, input

(* The steps that print no entry and no summary.                           *)
LEMMA SilentTotals ==
  ASSUME TotalsInv, UNCHANGED <<input, arg, tstat, total>>, SameTotals(fs, out, out')
  PROVE  TotalsInv'
<1>1. PICK L, a, o2 : L = Len(args) /\ a = arg /\ o2 = out'
  OBVIOUS
<1>2. Totalled(fs, flags, L, a, out, tstat, total) /\ SameTotals(fs, out, o2)
  BY <1>1 DEF TotalsInv
<1>3. Totalled(fs, flags, L, a, o2, tstat, total)
  BY <1>2, SameTotalled
<1> QED
  BY <1>1, <1>3 DEF TotalsInv, input

LEMMA SameItself ==
  ASSUME NEW t, NEW o
  PROVE  SameTotals(t, o, o)
BY DEF SameTotals

LEMMA StartArgumentTotals ==
  ASSUME DirInv, TotalsInv, StartArgument
  PROVE  TotalsInv'
<1>1. PICK l, h : l = Printed("base", args[arg], {}) /\ h = Printed("header", <<>>, {})
  OBVIOUS
<1>2. PICK o1, o2 : /\ o1 = IF "s" \in flags THEN Append(out, h) ELSE out
                    /\ o2 = Append(o1, l)
  OBVIOUS
<1>3. IsSeq(out)
  BY DEF DirInv, Types
<1>4. Idle(l) /\ Idle(h)
  BY <1>1 DEF Idle, Printed
<1>5. SameTotals(fs, out, o1) /\ IsSeq(o1)
  BY <1>2, <1>3, <1>4, IdleLine, SameItself
<1>6. SameTotals(fs, o1, o2)
  BY <1>2, <1>4, <1>5, IdleLine
<1>7. out' = o2
  <2>1. out' = out \o (IF "s" \in flags THEN <<h>> ELSE <<>>) \o <<l>>
    BY <1>1 DEF StartArgument
  <2>2. out \o (IF "s" \in flags THEN <<h>> ELSE <<>>) = o1
    BY <1>2, <1>3, OneLine
  <2> QED
    BY <1>2, <1>5, <2>1, <2>2, OneLine
<1>8. SameTotals(fs, out, o2)
  BY <1>5, <1>6 DEF SameTotals
<1> QED
  BY <1>7, <1>8, SilentTotals DEF StartArgument

LEMMA StepTotals == DirInv /\ TotalsInv /\ [Next]_vars => TotalsInv'
<1> SUFFICES ASSUME DirInv, TotalsInv, [Next]_vars PROVE TotalsInv'
  OBVIOUS
<1>1. IsSeq(out) /\ SameTotals(fs, out, out)
  BY SameItself DEF DirInv, Types
<1>2. CASE SkipDots \/ OpenDir \/ CloseDir \/ UNCHANGED vars
  <2>1. UNCHANGED <<input, arg, tstat, total>> /\ out' = out
    BY <1>2 DEF SkipDots, OpenDir, CloseDir, vars
  <2> QED
    BY <1>1, <2>1, SilentTotals
<1>3. CASE OpenFails
  <2>1. PICK l : l = Printed("unreadable", Top.dn, {})
    OBVIOUS
  <2>2. UNCHANGED <<input, arg, tstat, total>> /\ out' = Append(out, l)
    BY <1>3, <2>1 DEF OpenFails
  <2>3. Idle(l)
    BY <2>1 DEF Idle, Printed
  <2> QED
    BY <1>1, <2>2, <2>3, IdleLine, SilentTotals
<1>4. CASE LstatFails
  <2>1. PICK l : l = Printed("gone", Path, {})
    OBVIOUS
  <2>2. UNCHANGED <<input, arg, tstat, total>> /\ out' = Append(out, l)
    BY <1>4, <2>1 DEF LstatFails
  <2>3. Idle(l)
    BY <2>1 DEF Idle, Printed
  <2> QED
    BY <1>1, <2>2, <2>3, IdleLine, SilentTotals
<1>5. CASE StartArgument
  BY <1>5, StartArgumentTotals
<1>6. CASE PrintEntry
  BY <1>6, PrintEntryTotals
<1>7. CASE FinishArgument
  BY <1>7, FinishArgumentTotals
<1>8. CASE GrandTotal
  BY <1>8, GrandTotalTotals
<1> QED
  BY <1>2, <1>3, <1>4, <1>5, <1>6, <1>7, <1>8 DEF Next

LEMMA TotalsMet == DirInv /\ TotalsInv => TotalsExact
<1> SUFFICES ASSUME DirInv, TotalsInv, Done, "s" \in flags
             PROVE  /\ \A n \in DOMAIN args : \E j \in DOMAIN out :
                         /\ Numbers(n, "summary") = {j}
                         /\ Agree(out[j].content, {n})
                    /\ Len(args) > 1 => \E j \in DOMAIN out :
                         /\ Numbers(Len(args) + 1, "total") = {j}
                         /\ Agree(out[j].content, DOMAIN args)
  BY DEF TotalsExact
<1>1. PICK L : L = Len(args)
  OBVIOUS
<1>2. L \in Nat /\ DOMAIN args = 1 .. L /\ arg = L + 2
  <2>1. args \in Seq(Seq(Int))
    BY DEF DirInv, Types
  <2> QED
    BY <1>1, <2>1 DEF Done
<1>3. /\ \A n \in 1 .. L : Only(out, n, "summary", fs, flags, {n})
      /\ L > 1 => Only(out, L + 1, "total", fs, flags, 1 .. L)
  <2>1. Summaries(fs, flags, L, arg, out)
    BY <1>1 DEF TotalsInv, Totalled
  <2>2. \A n \in 1 .. L : n < arg
    BY <1>2
  <2> QED
    BY <1>2, <2>1, <2>2 DEF Summaries
<1>4. \A n, k, N : Only(out, n, k, fs, flags, N) =>
        \E j \in DOMAIN out :
          Numbers(n, k) = {j} /\ Agree(out[j].content, N)
  <2>1. \A n, k : Numbers(n, k) = Line(out, n, k)
    BY DEF Numbers, Line
  <2>2. ASSUME NEW N, NEW x, Matches(fs, flags, N, out, x)
        PROVE  Agree(x, N)
    <3>1. PICK sum : sum = SumOf(N)
      OBVIOUS
    <3>2. Alike(flags, Devices(N), x, sum)
      <4>1. sum = Sums(fs, N, out)
        BY <3>1, SumsOf
      <4>2. Devices(N) = Devs(fs, N, out)
        BY DEF Devices, Devs
      <4> QED
        BY <2>2, <4>1, <4>2 DEF Matches
    <3> QED
      BY <3>1, <3>2 DEF Alike, Agree
  <2>3. ASSUME NEW n, NEW k, NEW N, Only(out, n, k, fs, flags, N)
        PROVE  \E j \in DOMAIN out :
                 Numbers(n, k) = {j} /\ Agree(out[j].content, N)
    <3>1. PICK j \in DOMAIN out : /\ Line(out, n, k) = {j}
                                  /\ Matches(fs, flags, N, out, out[j].content)
      BY <2>3 DEF Only
    <3>2. PICK x : x = out[j].content
      OBVIOUS
    <3>3. Agree(x, N)
      BY <2>2, <3>1, <3>2
    <3> QED
      BY <2>1, <3>1, <3>2, <3>3
  <2> QED
    BY <2>3
<1>5. ASSUME NEW n \in DOMAIN args
      PROVE  \E j \in DOMAIN out : /\ Numbers(n, "summary") = {j}
                                   /\ Agree(out[j].content, {n})
  <2>1. Only(out, n, "summary", fs, flags, {n})
    BY <1>2, <1>3, <1>5
  <2> QED
    BY <1>4, <2>1
<1>6. ASSUME Len(args) > 1
      PROVE  \E j \in DOMAIN out : /\ Numbers(Len(args) + 1, "total") = {j}
                                   /\ Agree(out[j].content, DOMAIN args)
  <2>1. PICK D : D = DOMAIN args
    OBVIOUS
  <2>2. Only(out, L + 1, "total", fs, flags, D)
    BY <1>1, <1>2, <1>3, <1>6, <2>1
  <2>3. \E j \in DOMAIN out : Numbers(L + 1, "total") = {j} /\ Agree(out[j].content, D)
    BY <1>4, <2>2
  <2> QED
    BY <1>1, <2>1, <2>3, Zenon
<1> QED
  BY <1>5, <1>6

(* With -s every argument has one summary, with the counts and sums of the *)
(* lines printed for it, and two or more have a grand total of all lines:  *)
(* for every tree, any arguments, the same one twice too, failing calls;   *)
(* of the blocks only where no line shows a block device.                  *)
THEOREM SummariesExact == Spec => []TotalsExact
<1>1. Init => DirInv /\ TotalsInv
  BY InitDirInv, InitTotals
<1>2. DirInv /\ TotalsInv /\ [Next]_vars => (DirInv /\ TotalsInv)'
  BY StepDirInv, StepTotals
<1>3. DirInv /\ TotalsInv => TotalsExact
  BY TotalsMet
<1> QED
  BY <1>1, <1>2, <1>3, PTL DEF Spec
=============================================================================
