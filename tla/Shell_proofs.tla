---------------------------- MODULE Shell_proofs -----------------------------
(***************************************************************************)
(* That the shell understands every line, of any length and any            *)
(* characters:                                                             *)
(*                                                                         *)
(*   LinesUnderstood  the lexer's automaton finds the tokens that are      *)
(*                    written on the line                                  *)
(*   GrammarDecided   syntax_check accepts exactly the command lines       *)
(*   CommandsRun      every command gets its own arguments and files       *)
(*                                                                         *)
(* and that the processes of a pipeline of any length are wired to their   *)
(* neighbours and to nothing else, whatever the pipes hold, in whatever    *)
(* order the shell and the children take their steps, and when calls fail  *)
(* (NeighboursWired, which needs nothing of the line that was read).       *)
(*                                                                         *)
(* The reference of LexSyn says what a whole line means; the automaton     *)
(* sees one character at a time.  The invariant (Lexed) therefore says     *)
(* that the tokens so far and the word it is in are what the reference     *)
(* makes of the characters so far, and one lemma after the other shows     *)
(* what one more character changes in the reference: the quotes that are   *)
(* open, the places where tokens start, the characters that a word keeps.  *)
(***************************************************************************)
EXTENDS Shell, FiniteSetTheorems, SequenceTheorems, WellFoundedInduction, TLAPS

(* Numbers: what holds step by step, functions defined step by step, and   *)
(* the members of a set in their order.                                    *)
LEMMA Least ==
  ASSUME NEW T \in SUBSET Nat, T /= {}
  PROVE  \E x \in T : \A y \in T : x <= y
<1> DEFINE R == {p \in Nat \X Nat : p[1] < p[2]}
<1>1. R = OpToRel(<, Nat)
  BY DEF OpToRel
<1>2. IsWellFoundedOn(R, Nat)
  BY <1>1, NatLessThanWellFounded
<1>3. \E x \in T : \A y \in T : ~(<<y, x>> \in R)
  BY <1>2, WFMin
<1>4. PICK x \in T : \A y \in T : ~(<<y, x>> \in R)
  BY <1>3
<1>5. ASSUME NEW y \in T
      PROVE  x <= y
  <2>1. x \in Nat /\ y \in Nat /\ ~(<<y, x>> \in R)
    BY <1>4
  <2>2. ~(y < x)
    BY <2>1
  <2> QED
    BY <2>1, <2>2
<1> QED
  BY <1>4, <1>5

(* What is so at 0 and after every step, is so up to n.                    *)
LEMMA Upwards ==
  ASSUME NEW n \in Nat, NEW S, 0 \in S,
         \A p \in 1 .. n : p - 1 \in S => p \in S
  PROVE  0 .. n \subseteq S
<1> SUFFICES ASSUME NEW q \in 0 .. n, q \notin S PROVE FALSE
  OBVIOUS
<1> DEFINE T == {p \in 0 .. n : p \notin S}
<1>1. T \in SUBSET Nat /\ T /= {}
  OBVIOUS
<1>2. PICK p \in T : \A r \in T : p <= r
  <2> HIDE DEF T
  <2> QED
    BY <1>1, Least
<1>3. p \in 0 .. n /\ p \notin S /\ p /= 0
  BY <1>2
<1>4. p \in 1 .. n /\ p - 1 \in 0 .. n /\ p - 1 < p
  BY <1>3
<1>5. p - 1 \notin S
  BY <1>3, <1>4
<1> QED
  BY <1>2, <1>4, <1>5

(* A function may be defined by what it is one place before.               *)
Continues(n, base, next, f) ==
  f[0] = base /\ \A p \in 1 .. n : f[p] = next[p][f[p - 1]]
LEMMA Recursion ==
  ASSUME NEW n \in Nat, NEW V, NEW base \in V,
         NEW next \in [1 .. n -> [V -> V]]
  PROVE  \E f \in [0 .. n -> V] : Continues(n, base, next, f)
<1> DEFINE Defines(m, f) ==
             /\ f \in [0 .. m -> V]
             /\ f[0] = base
             /\ \A p \in 1 .. m : f[p] = next[p][f[p - 1]]
           S == {m \in 0 .. n : \E f : Defines(m, f)}
<1>1. 0 \in S
  <2>1. PICK f : f = [p \in 0 .. 0 |-> base]
    OBVIOUS
  <2>2. Defines(0, f)
    BY <2>1
  <2>3. 0 \in 0 .. n
    OBVIOUS
  <2> HIDE DEF Defines
  <2> QED
    BY <2>2, <2>3
<1>2. ASSUME NEW m \in 1 .. n, m - 1 \in S
      PROVE  m \in S
  <2>1. PICK f : Defines(m - 1, f)
    BY <1>2
  <2>2. PICK v : v = next[m][f[m - 1]]
    OBVIOUS
  <2>3. v \in V
    <3>1. m - 1 \in 0 .. m - 1
      OBVIOUS
    <3> QED
      BY <2>1, <2>2, <3>1
  <2>4. PICK g : g = [p \in 0 .. m |-> IF p = m THEN v ELSE f[p]]
    OBVIOUS
  <2>5. \A p \in 0 .. m - 1 : p \in 0 .. m /\ p /= m /\ g[p] = f[p] /\ f[p] \in V
    BY <2>1, <2>4
  <2>6. g[m] = v
    BY <2>4
  <2>7. \A p \in 0 .. m : p = m \/ p \in 0 .. m - 1
    OBVIOUS
  <2>8. g \in [0 .. m -> V]
    BY <2>3, <2>4, <2>5, <2>7
  <2>9. g[0] = base
    <3>1. 0 \in 0 .. m - 1
      OBVIOUS
    <3> QED
      BY <2>1, <2>5, <3>1
  <2>10. ASSUME NEW p \in 1 .. m PROVE g[p] = next[p][g[p - 1]]
    <3>1. p - 1 \in 0 .. m - 1
      OBVIOUS
    <3>2. CASE p = m
      BY <2>2, <2>5, <2>6, <3>1, <3>2
    <3>3. CASE p /= m
      <4>1. p \in 1 .. m - 1 /\ p \in 0 .. m - 1
        BY <3>3
      <4> QED
        BY <2>1, <2>5, <3>1, <4>1
    <3> QED
      BY <3>2, <3>3
  <2>11. Defines(m, g) /\ m \in 0 .. n
    BY <2>8, <2>9, <2>10
  <2> HIDE DEF Defines
  <2> QED
    BY <2>11
<1>3. n \in S
  <2>1. 0 .. n \subseteq S
    <3> HIDE DEF S
    <3> QED
      BY <1>1, <1>2, Upwards
  <2> QED
    BY <2>1
<1> QED
  BY <1>3 DEF Continues

(* The smallest member of a set.                                           *)
LEMMA MinIs ==
  ASSUME NEW T \in SUBSET Nat, T /= {}
  PROVE  Min(T) \in T /\ \A q \in T : Min(T) <= q
<1>1. \E x \in T : \A y \in T : x <= y
  BY Least
<1> QED
  BY <1>1, Zenon DEF Min

LEMMA UpToFinite ==
  ASSUME NEW n \in Nat, NEW S \in SUBSET (0 .. n)
  PROVE  IsFiniteSet(S) /\ Cardinality(S) \in Nat
<1>1. IsFiniteSet(0 .. n)
  BY FS_Interval
<1> QED
  BY <1>1, FS_Subset, FS_CardinalityType

LEMMA InOrderIs ==
  ASSUME NEW S \in SUBSET Nat, IsFiniteSet(S)
  PROVE  /\ Cardinality(S) \in Nat
         /\ InOrder(S) \in Seq(S) /\ Len(InOrder(S)) = Cardinality(S)
         /\ DOMAIN InOrder(S) = 1 .. Cardinality(S)
         /\ \A i \in 1 .. Cardinality(S) : InOrder(S)[i] \in S
         /\ \A x \in S : \E i \in 1 .. Cardinality(S) : InOrder(S)[i] = x
         /\ \A i, j \in 1 .. Cardinality(S) : i < j => InOrder(S)[i] < InOrder(S)[j]
<1> DEFINE B(p) == {q \in S : q <= p}
           N == Cardinality(S)
           r == [p \in S |-> Cardinality(B(p))]
<1>0. \A p \in S : p \in Nat
  OBVIOUS
<1>1. N \in Nat
  BY FS_CardinalityType
<1>2. ASSUME NEW p \in S
      PROVE  IsFiniteSet(B(p)) /\ Cardinality(B(p)) \in 1 .. N
  <2>1. B(p) \in SUBSET S /\ p \in B(p)
    OBVIOUS
  <2>2. IsFiniteSet(B(p)) /\ Cardinality(B(p)) <= N
    BY <2>1, FS_Subset
  <2>3. Cardinality(B(p)) \in Nat /\ Cardinality(B(p)) /= 0
    BY <2>1, <2>2, FS_CardinalityType, FS_EmptySet
  <2> QED
    BY <1>1, <2>2, <2>3
<1>3. ASSUME NEW p \in S, NEW q \in S, p < q
      PROVE  Cardinality(B(p)) < Cardinality(B(q))
  <2>1. B(p) \in SUBSET B(q) /\ B(p) /= B(q)
    <3>1. p \in Nat /\ q \in Nat /\ q <= q /\ ~(q <= p)
      BY <1>0, <1>3
    <3>2. \A x \in S : x <= p => x <= q
      BY <1>0, <1>3, <3>1
    <3>3. q \in B(q) /\ q \notin B(p) /\ B(p) \subseteq B(q)
      BY <3>1, <3>2
    <3> QED
      BY <3>3
  <2>2. /\ IsFiniteSet(B(q)) /\ Cardinality(B(p)) \in 1 .. N
        /\ Cardinality(B(q)) \in 1 .. N
    BY <1>2
  <2> HIDE DEF B
  <2>3. /\ Cardinality(B(p)) <= Cardinality(B(q))
        /\ Cardinality(B(p)) /= Cardinality(B(q))
    BY <2>1, <2>2, FS_Subset
  <2> QED
    BY <2>2, <2>3
<1>4. \A p \in S : r[p] = Cardinality(B(p)) /\ r[p] \in 1 .. N
  BY <1>2
<1>5. r \in [S -> 1 .. N]
  BY <1>4
<1> HIDE DEF B, r, N
<1>6. \A p, q \in S : p < q => r[p] < r[q]
  BY <1>3, <1>4
<1>7. \A p \in S : p \in Int /\ r[p] \in Int
  BY <1>4
<1>8. ASSUME NEW p \in S, NEW q \in S, r[p] = r[q] PROVE p = q
  <2>1. ~(r[p] < r[q]) /\ ~(r[q] < r[p])
    BY <1>7, <1>8
  <2>2. ~(p < q) /\ ~(q < p)
    BY <1>6, <2>1
  <2> QED
    BY <1>7, <2>2
<1>9. ASSUME NEW p \in S, NEW q \in S, r[p] < r[q] PROVE p < q
  <2>1. p /= q /\ ~(r[q] < r[p])
    BY <1>7, <1>9
  <2>2. ~(q < p)
    BY <1>6, <2>1
  <2> QED
    BY <1>7, <2>1, <2>2
<1>10. r \in Injection(S, 1 .. N)
  BY <1>5, <1>8 DEF Injection, IsInjective
<1>11. IsFiniteSet(1 .. N) /\ Cardinality(1 .. N) = N
  BY <1>1, FS_Interval
<1>12. \A i \in 1 .. N : \E p \in S : r[p] = i
  <2>1. r \in Surjection(S, 1 .. N)
    BY <1>10, <1>11, FS_Injection DEF N
  <2> QED
    BY <2>1 DEF Surjection
<1> DEFINE o == InOrder(S)
<1>13. o = [i \in 1 .. N |-> CHOOSE p \in S : Cardinality(B(p)) = i]
  BY DEF InOrder, N, B
<1>14. ASSUME NEW i \in 1 .. N PROVE o[i] \in S /\ r[o[i]] = i
  <2>1. \E p \in S : Cardinality(B(p)) = i
    BY <1>4, <1>12
  <2>2. o[i] = CHOOSE p \in S : Cardinality(B(p)) = i
    BY <1>13
  <2>3. o[i] \in S /\ Cardinality(B(o[i])) = i
    BY <2>1, <2>2
  <2> QED
    BY <1>4, <2>3
<1>15. DOMAIN o = 1 .. N
  BY <1>13
<1>16. o \in Seq(S) /\ Len(o) = N
  <2>1. o \in [1 .. N -> S]
    BY <1>13, <1>14
  <2> HIDE DEF o
  <2> QED
    BY <1>1, <2>1
<1>17. ASSUME NEW p \in S PROVE \E i \in 1 .. N : o[i] = p
  <2>1. r[p] \in 1 .. N /\ o[r[p]] \in S /\ r[o[r[p]]] = r[p]
    BY <1>4, <1>14
  <2> QED
    BY <1>8, <2>1
<1>18. ASSUME NEW i \in 1 .. N, NEW j \in 1 .. N, i < j PROVE o[i] < o[j]
  <2>1. r[o[i]] < r[o[j]] /\ o[i] \in S /\ o[j] \in S
    BY <1>14, <1>18
  <2> QED
    BY <1>9, <2>1
<1> QED
  BY <1>1, <1>14, <1>15, <1>16, <1>17, <1>18 DEF N, o

(* A member above all others comes last.                                   *)
LEMMA InOrderGrows ==
  ASSUME NEW S \in SUBSET Nat, IsFiniteSet(S), NEW m \in Nat,
         \A p \in S : p < m
  PROVE  /\ InOrder(S \union {m}) = Append(InOrder(S), m)
         /\ IsFiniteSet(S \union {m})
         /\ Cardinality(S \union {m}) = Cardinality(S) + 1
<1> DEFINE T == S \union {m}
           B(p) == {q \in S : q <= p}
           C(p) == {q \in T : q <= p}
<1>1. Cardinality(S) \in Nat /\ m \notin S
  BY FS_CardinalityType
<1>2. PICK N \in Nat : N = Cardinality(S)
  BY <1>1
<1>3. IsFiniteSet(T) /\ Cardinality(T) = N + 1
  BY <1>1, <1>2, FS_AddElement
<1>0. m <= m /\ \A p \in S : p \in Nat /\ ~(m <= p) /\ p <= m
  OBVIOUS
<1>4. ASSUME NEW p \in S PROVE C(p) = B(p)
  BY <1>0
<1>5. C(m) = T
  BY <1>0
<1>6. ASSUME NEW p \in S PROVE Cardinality(B(p)) <= N /\ Cardinality(B(p)) \in Nat
  <2>1. B(p) \in SUBSET S
    OBVIOUS
  <2> HIDE DEF B
  <2> QED
    BY <1>2, <2>1, FS_Subset, FS_CardinalityType
<1>7. InOrder(T) = [i \in 1 .. N + 1 |-> CHOOSE p \in T : Cardinality(C(p)) = i]
  BY <1>3 DEF InOrder
<1>8. InOrder(S) = [i \in 1 .. N |-> CHOOSE p \in S : Cardinality(B(p)) = i]
  BY <1>2 DEF InOrder
<1>9. DOMAIN InOrder(S) = 1 .. N /\ InOrder(S) \in Seq(S) /\ Len(InOrder(S)) = N
  BY <1>2, InOrderIs
<1> HIDE DEF B, C
<1>10. ASSUME NEW i \in 1 .. N PROVE InOrder(T)[i] = InOrder(S)[i]
  <2>1. \A p : p \in T /\ Cardinality(C(p)) = i <=> p \in S /\ Cardinality(B(p)) = i
    <3>1. ASSUME NEW p PROVE p \in T /\ Cardinality(C(p)) = i <=> p \in S /\ Cardinality(B(p)) = i
      <4>1. CASE p \in S
        BY <1>4, <4>1
      <4>2. CASE p = m
        BY <1>1, <1>3, <1>5, <4>2
      <4>3. CASE p \notin T
        BY <4>3
      <4> QED
        BY <4>1, <4>2, <4>3
    <3> QED
      BY <3>1
  <2>2. (CHOOSE p \in T : Cardinality(C(p)) = i) = CHOOSE p \in S : Cardinality(B(p)) = i
    BY <2>1, Zenon
  <2>3. i \in 1 .. N + 1
    OBVIOUS
  <2> HIDE DEF T
  <2>4. InOrder(T)[i] = (CHOOSE p \in T : Cardinality(C(p)) = i)
    BY <1>7, <2>3
  <2>5. InOrder(S)[i] = (CHOOSE p \in S : Cardinality(B(p)) = i)
    BY <1>8
  <2> QED
    BY <2>2, <2>4, <2>5
<1>11. InOrder(T)[N + 1] = m
  <2>1. \A p \in T : Cardinality(C(p)) = N + 1 <=> p = m
    <3>1. ASSUME NEW p \in S PROVE Cardinality(C(p)) /= N + 1
      BY <1>4, <1>6
    <3>2. Cardinality(C(m)) = N + 1
      BY <1>3, <1>5
    <3> QED
      BY <1>1, <3>1, <3>2
  <2>2. m \in T /\ N + 1 \in 1 .. N + 1
    OBVIOUS
  <2> HIDE DEF T
  <2>3. InOrder(T)[N + 1] = (CHOOSE p \in T : Cardinality(C(p)) = N + 1)
    BY <1>7, <2>2
  <2> QED
    BY <2>1, <2>2, <2>3
<1>12. InOrder(T) = Append(InOrder(S), m)
  <2> HIDE DEF T
  <2>1. PICK a : a = InOrder(S)
    OBVIOUS
  <2>2. a \in Seq(Nat) /\ Len(a) = N /\ DOMAIN a = 1 .. N
    <3>1. a \in Seq(S) /\ Len(a) = N
      BY <1>9, <2>1
    <3>2. a \in [1 .. N -> S]
      BY <3>1, LenProperties
    <3>3. a \in [1 .. N -> Nat]
      BY <3>2
    <3> QED
      BY <1>9, <2>1, <3>3
  <2>3. /\ DOMAIN Append(a, m) = 1 .. N + 1
        /\ \A i \in 1 .. N : Append(a, m)[i] = a[i]
        /\ Append(a, m)[N + 1] = m
        /\ Append(a, m) \in [1 .. N + 1 -> Nat]
    <3>1. /\ Append(a, m) \in Seq(Nat) /\ Len(Append(a, m)) = N + 1
          /\ \A i \in 1 .. N : Append(a, m)[i] = a[i]
          /\ Append(a, m)[N + 1] = m
      BY <2>2, AppendProperties
    <3> QED
      BY <3>1, LenProperties
  <2>4. PICK b : b = InOrder(T)
    OBVIOUS
  <2>5. b = [i \in 1 .. N + 1 |-> b[i]]
    BY <1>7, <2>4
  <2>6. \A i \in 1 .. N + 1 : b[i] = Append(a, m)[i]
    <3>1. ASSUME NEW i \in 1 .. N + 1 PROVE b[i] = Append(a, m)[i]
      <4>1. i \in 1 .. N \/ i = N + 1
        OBVIOUS
      <4> QED
        BY <1>10, <1>11, <2>1, <2>3, <2>4, <4>1
    <3> QED
      BY <3>1
  <2>7. b = Append(a, m)
    BY <2>3, <2>5, <2>6
  <2> QED
    BY <2>1, <2>4, <2>7
<1> QED
  BY <1>2, <1>3, <1>12

LEMMA InOrderEmpty ==
  InOrder({}) = <<>> /\ IsFiniteSet({}) /\ Cardinality({}) = 0
BY FS_EmptySet DEF InOrder

(* The values of a function, in the order of its arguments.                *)
Each(S, f) == [i \in DOMAIN InOrder(S) |-> f[InOrder(S)[i]]]

LEMMA EachIs ==
  ASSUME NEW S \in SUBSET Nat, IsFiniteSet(S), NEW V, NEW f,
         \A p \in S : f[p] \in V
  PROVE  /\ Each(S, f) \in Seq(V) /\ Len(Each(S, f)) = Cardinality(S)
<1>1. PICK o : o = InOrder(S)
  OBVIOUS
<1>2. PICK n \in Nat : n = Cardinality(S)
  BY FS_CardinalityType
<1>3. DOMAIN o = 1 .. n /\ \A i \in 1 .. n : o[i] \in S
  BY <1>1, <1>2, InOrderIs
<1>4. Each(S, f) = [i \in 1 .. n |-> f[o[i]]]
  BY <1>1, <1>3 DEF Each
<1>5. \A i \in 1 .. n : f[o[i]] \in V
  BY <1>3
<1>6. PICK e : e = [i \in 1 .. n |-> f[o[i]]]
  OBVIOUS
<1>7. e \in Seq(V) /\ Len(e) = n /\ \A i \in 1 .. n : e[i] = f[o[i]]
  BY <1>5, <1>6
<1> QED
  BY <1>1, <1>2, <1>4, <1>6, <1>7

LEMMA EachSame ==
  ASSUME NEW S \in SUBSET Nat, IsFiniteSet(S), NEW f, NEW g,
         \A p \in S : f[p] = g[p]
  PROVE  Each(S, f) = Each(S, g)
<1>1. PICK o : o = InOrder(S)
  OBVIOUS
<1>2. \A i \in DOMAIN o : o[i] \in S
  BY <1>1, InOrderIs
<1> QED
  BY <1>1, <1>2 DEF Each

LEMMA EachGrows ==
  ASSUME NEW S \in SUBSET Nat, IsFiniteSet(S), NEW m \in Nat,
         \A p \in S : p < m,
         NEW V, NEW f, \A p \in S \union {m} : f[p] \in V
  PROVE  Each(S \union {m}, f) = Append(Each(S, f), f[m])
<1>1. PICK n \in Nat : n = Cardinality(S)
  BY FS_CardinalityType
<1>2. PICK T : T = S \union {m}
  OBVIOUS
<1>3. /\ InOrder(T) = Append(InOrder(S), m) /\ IsFiniteSet(T)
      /\ Cardinality(T) = n + 1 /\ T \in SUBSET Nat
  BY <1>1, <1>2, InOrderGrows
<1>4. PICK o : o = InOrder(S)
  OBVIOUS
<1>5. o \in Seq(Nat) /\ Len(o) = n
  <2>1. o \in Seq(S) /\ Len(o) = n
    BY <1>1, <1>4, InOrderIs
  <2> QED
    BY <2>1, SeqMonotonic
<1>6. PICK a : a = InOrder(T)
  OBVIOUS
<1>7. a[n + 1] = m /\ \A i \in 1 .. n : a[i] = o[i]
  <2>1. a = Append(o, m)
    BY <1>3, <1>4, <1>6
  <2> QED
    BY <1>5, <2>1, AppendProperties
<1>8. \A p \in S : f[p] \in V
  OBVIOUS
<1>9. PICK e : e = Each(S, f)
  OBVIOUS
<1>10. e \in Seq(V) /\ Len(e) = n /\ \A i \in 1 .. n : e[i] = f[o[i]]
  <2>1. /\ Each(S, f) \in Seq(V) /\ Len(Each(S, f)) = Cardinality(S)
        /\ \A i \in 1 .. Cardinality(S) : Each(S, f)[i] = f[InOrder(S)[i]]
    <3>1. Each(S, f) \in Seq(V)
      BY <1>8, EachIs
    <3>2. Len(Each(S, f)) = Cardinality(S)
      BY <1>8, EachIs
    <3>3. \A i \in 1 .. Cardinality(S) : Each(S, f)[i] = f[InOrder(S)[i]]
      BY InOrderIs DEF Each
    <3> QED
      BY <3>1, <3>2, <3>3
  <2> QED
    BY <1>1, <1>4, <1>9, <2>1
<1>11. PICK d : d = Each(T, f)
  OBVIOUS
<1>12. d \in Seq(V) /\ Len(d) = n + 1 /\ \A i \in 1 .. n + 1 : d[i] = f[a[i]]
  <2>1. \A p \in T : f[p] \in V
    BY <1>2
  <2> QED
    <3>1. Each(T, f) \in Seq(V) /\ Len(Each(T, f)) = Cardinality(T)
      BY <1>3, <2>1, EachIs
    <3>2. \A i \in 1 .. Cardinality(T) : Each(T, f)[i] = f[InOrder(T)[i]]
      BY <1>3, InOrderIs DEF Each
    <3> QED
      BY <1>3, <1>6, <1>11, <3>1, <3>2
<1>13. PICK v \in V : v = f[m]
  OBVIOUS
<1>14. PICK c : c = Append(e, v)
  OBVIOUS
<1>15. c \in Seq(V) /\ Len(c) = n + 1 /\ c[n + 1] = v /\ \A i \in 1 .. n : c[i] = e[i]
  BY <1>10, <1>14, AppendProperties
<1>16. ASSUME NEW i \in 1 .. Len(d) PROVE d[i] = c[i]
  <2>1. i \in 1 .. n + 1 /\ (i \in 1 .. n \/ i = n + 1)
    BY <1>12
  <2> QED
    BY <1>7, <1>10, <1>12, <1>13, <1>15, <2>1
<1>17. d = c
  BY <1>12, <1>15, <1>16, SeqEqual
<1> QED
  BY <1>2, <1>9, <1>11, <1>13, <1>14, <1>17
-----------------------------------------------------------------------------
(* What the reference says of a line, and of the line with one more        *)
(* character.                                                              *)
LEMMA Characters ==
  /\ Blank \notin Quotes /\ Blank \notin Operators /\ Blank \notin Letters
  /\ Quotes \intersect Operators = {}
  /\ Letters \intersect (Quotes \union Operators) = {}
  /\ {"START", "IN_WORD"} \intersect (Quotes \union {Blank}) = {}
  /\ {"LEX_SUCCESS", "LEX_QERROR", "LEX_NOMEM"} \intersect
       (Quotes \union {Blank, "START", "IN_WORD"}) = {}
  /\ "word" \notin Operators
<1>1. /\ Blank \notin Quotes /\ Blank \notin Operators
      /\ Quotes \intersect Operators = {}
  BY DEF Blank, Quotes, Operators
<1>2. /\ {"START", "IN_WORD"} \intersect (Quotes \union {Blank}) = {}
      /\ {"LEX_SUCCESS", "LEX_QERROR", "LEX_NOMEM"} \intersect
           (Quotes \union {Blank, "START", "IN_WORD"}) = {}
      /\ "word" \notin Operators
  BY DEF Blank, Quotes, Operators
<1> QED
  BY <1>1, <1>2, CharsAssumption

OpenOf(s, f) ==
  [p \in 0 .. Len(s) |->
     IF p = 0 THEN Blank
     ELSE IF f[p - 1] = Blank /\ s[p] \in Quotes THEN s[p]
     ELSE IF f[p - 1] = s[p] THEN Blank
     ELSE f[p - 1]]

LEMMA OpenIs ==
  ASSUME NEW s \in Seq(Chars)
  PROVE  /\ Open(s) = OpenOf(s, Open(s))
         /\ \A p \in 0 .. Len(s) : Open(s)[p] \in Quotes \union {Blank}
<1> DEFINE n == Len(s)
           V == Quotes \union {Blank}
           next == [p \in 1 .. n |-> [v \in V |->
                     IF v = Blank /\ s[p] \in Quotes THEN s[p]
                     ELSE IF v = s[p] THEN Blank
                     ELSE v]]
<1>1. n \in Nat /\ 1 .. n = DOMAIN s
  OBVIOUS
<1>2. next \in [1 .. n -> [V -> V]]
  <2> HIDE DEF n
  <2>1. ASSUME NEW p \in 1 .. n, NEW v \in V
        PROVE  (IF v = Blank /\ s[p] \in Quotes THEN s[p]
                ELSE IF v = s[p] THEN Blank ELSE v) \in V
    OBVIOUS
  <2> HIDE DEF V
  <2> QED
    BY <2>1
<1>3. \E f \in [0 .. n -> V] : Continues(n, Blank, next, f)
  <2>1. Blank \in V
    OBVIOUS
  <2> HIDE DEF n, V, next
  <2> QED
    BY <1>1, <1>2, <2>1, Recursion
<1>4. \E f : f = OpenOf(s, f)
  <2>1. PICK f \in [0 .. n -> V] : Continues(n, Blank, next, f)
    BY <1>3
  <2>2. ASSUME NEW p \in 0 .. n
        PROVE  f[p] = OpenOf(s, f)[p]
    <3>1. CASE p = 0
      BY <1>1, <2>1, <3>1 DEF OpenOf, Continues
    <3>2. CASE p /= 0
      <4>1. p \in 1 .. n /\ p - 1 \in 0 .. n
        BY <1>1, <3>2
      <4>2. f[p - 1] \in V
        BY <2>1, <4>1
      <4>3. f[p] = next[p][f[p - 1]]
        BY <2>1, <4>1 DEF Continues
      <4>4. next[p][f[p - 1]] =
              IF f[p - 1] = Blank /\ s[p] \in Quotes THEN s[p]
              ELSE IF f[p - 1] = s[p] THEN Blank
              ELSE f[p - 1]
        <5> HIDE DEF V, n
        <5> QED
          BY <4>1, <4>2
      <4> HIDE DEF next, V
      <4> QED
        BY <3>2, <4>3, <4>4 DEF OpenOf
    <3> QED
      BY <3>1, <3>2
  <2>3. f = OpenOf(s, f)
    BY <2>1, <2>2 DEF OpenOf
  <2> QED
    BY <2>3
<1>5. Open(s) = CHOOSE f : f = OpenOf(s, f)
  BY Zenon DEF Open, OpenOf
<1>6. Open(s) = OpenOf(s, Open(s))
  BY <1>4, <1>5, Zenon
<1>7. Open(s)[0] = Blank
  <2>1. OpenOf(s, Open(s))[0] = Blank
    BY <1>1 DEF OpenOf
  <2> QED
    BY <1>6, <2>1, Zenon
<1> DEFINE S == {p \in 0 .. n : Open(s)[p] \in V}
<1>8. 0 \in S
  BY <1>1, <1>7
<1>9. ASSUME NEW p \in 1 .. n, p - 1 \in S
      PROVE  p \in S
  <2>1. p \in 0 .. n /\ p /= 0 /\ Open(s)[p - 1] \in V
    BY <1>9
  <2>2. OpenOf(s, Open(s))[p] \in V
    BY <2>1 DEF OpenOf
  <2>3. Open(s)[p] \in V
    BY <1>6, <2>2, Zenon
  <2> QED
    BY <2>1, <2>3
<1>10. 0 .. n \subseteq S
  <2> HIDE DEF n, S
  <2> QED
    BY <1>1, <1>8, <1>9, Upwards
<1> QED
  BY <1>6, <1>10

(* The quote that is open after a character follows from the one before.   *)
LEMMA OpenNext ==
  ASSUME NEW s \in Seq(Chars)
  PROVE  /\ Open(s)[0] = Blank
         /\ \A p \in 1 .. Len(s) :
              Open(s)[p] = IF Open(s)[p - 1] = Blank /\ s[p] \in Quotes THEN s[p]
                           ELSE IF Open(s)[p - 1] = s[p] THEN Blank
                           ELSE Open(s)[p - 1]
<1>1. PICK f : f = Open(s)
  OBVIOUS
<1>2. f = OpenOf(s, f)
  BY <1>1, OpenIs, Zenon
<1>3. f[0] = OpenOf(s, f)[0] /\ \A p \in 1 .. Len(s) : f[p] = OpenOf(s, f)[p]
  BY <1>2, Zenon
<1>4. OpenOf(s, f)[0] = Blank
  BY DEF OpenOf
<1>5. \A p \in 1 .. Len(s) : OpenOf(s, f)[p] =
        IF f[p - 1] = Blank /\ s[p] \in Quotes THEN s[p]
        ELSE IF f[p - 1] = s[p] THEN Blank
        ELSE f[p - 1]
  BY DEF OpenOf
<1> QED
  BY <1>1, <1>3, <1>4, <1>5, Zenon
LEMMA Longer ==
  ASSUME NEW s \in Seq(Chars), NEW ch \in Chars, NEW t, t = Append(s, ch)
  PROVE  /\ t \in Seq(Chars) /\ Len(t) = Len(s) + 1 /\ t[Len(s) + 1] = ch
         /\ Len(s) \in Nat /\ DOMAIN t = 1 .. Len(s) + 1
         /\ \A p \in 1 .. Len(s) : t[p] = s[p]
BY AppendProperties, LenProperties

(* A character more changes nothing of what was open before it.            *)
LEMMA OpenKept ==
  ASSUME NEW s \in Seq(Chars), NEW ch \in Chars, NEW t, t = Append(s, ch)
  PROVE  \A p \in 0 .. Len(s) : Open(t)[p] = Open(s)[p]
<1>1. /\ t \in Seq(Chars) /\ Len(t) = Len(s) + 1
      /\ Len(s) \in Nat /\ \A p \in 1 .. Len(s) : t[p] = s[p]
  BY Longer
<1>2. PICK n \in Nat : n = Len(s)
  BY <1>1
<1>3. PICK f : f = Open(s)
  OBVIOUS
<1>4. PICK g : g = Open(t)
  OBVIOUS
<1> DEFINE S == {p \in 0 .. n : g[p] = f[p]}
<1>5. f[0] = Blank /\ g[0] = Blank
  BY <1>1, <1>3, <1>4, OpenNext
<1>6. /\ \A p \in 1 .. n :
           f[p] = IF f[p - 1] = Blank /\ s[p] \in Quotes THEN s[p]
                  ELSE IF f[p - 1] = s[p] THEN Blank
                  ELSE f[p - 1]
      /\ \A p \in 1 .. n :
           g[p] = IF g[p - 1] = Blank /\ s[p] \in Quotes THEN s[p]
                  ELSE IF g[p - 1] = s[p] THEN Blank
                  ELSE g[p - 1]
  <2>1. \A p \in 1 .. n : p \in 1 .. n + 1
    OBVIOUS
  <2>2. \A p \in 1 .. n :
           f[p] = IF f[p - 1] = Blank /\ s[p] \in Quotes THEN s[p]
                  ELSE IF f[p - 1] = s[p] THEN Blank
                  ELSE f[p - 1]
    BY <1>2, <1>3, OpenNext
  <2>3. \A p \in 1 .. n + 1 :
           g[p] = IF g[p - 1] = Blank /\ t[p] \in Quotes THEN t[p]
                  ELSE IF g[p - 1] = t[p] THEN Blank
                  ELSE g[p - 1]
    <3>1. Len(t) = n + 1
      BY <1>1, <1>2
    <3>2. \A p \in 1 .. Len(t) :
            Open(t)[p] = IF Open(t)[p - 1] = Blank /\ t[p] \in Quotes THEN t[p]
                         ELSE IF Open(t)[p - 1] = t[p] THEN Blank
                         ELSE Open(t)[p - 1]
      BY <1>1, OpenNext
    <3> QED
      BY <1>4, <3>1, <3>2, Zenon
  <2> QED
    BY <1>1, <1>2, <2>1, <2>2, <2>3
<1>7. 0 \in S
  BY <1>5
<1>8. ASSUME NEW p \in 1 .. n, p - 1 \in S PROVE p \in S
  <2>1. p \in 0 .. n /\ g[p - 1] = f[p - 1]
    BY <1>8
  <2>2. g[p] = f[p]
    BY <1>6, <2>1, Zenon
  <2> QED
    BY <2>1, <2>2
<1>9. 0 .. n \subseteq S
  <2> HIDE DEF S
  <2> QED
    BY <1>7, <1>8, Upwards
<1> QED
  BY <1>2, <1>3, <1>4, <1>9

(* Nor of what separates the tokens.                                       *)
LEMMA BreaksKept ==
  ASSUME NEW s \in Seq(Chars), NEW ch \in Chars, NEW t, t = Append(s, ch)
  PROVE  \A p \in 1 .. Len(s) :
           /\ Breaks(t, p) <=> Breaks(s, p)
           /\ Delimits(t, p) <=> Delimits(s, p)
           /\ StartsToken(t, p) <=> StartsToken(s, p)
<1>1. /\ Len(s) \in Nat /\ \A p \in 1 .. Len(s) : t[p] = s[p]
  BY Longer
<1>a. \A p \in 0 .. Len(s) : Open(t)[p] = Open(s)[p]
  BY OpenKept
<1>2. \A p \in 1 .. Len(s) : p \in 0 .. Len(s) /\ p - 1 \in 0 .. Len(s)
  BY <1>1
<1>3. \A p \in 1 .. Len(s) :
        /\ Breaks(t, p) <=> Breaks(s, p)
        /\ Delimits(t, p) <=> Delimits(s, p)
  <2>1. ASSUME NEW p \in 1 .. Len(s)
        PROVE  /\ Breaks(t, p) <=> Breaks(s, p)
               /\ Delimits(t, p) <=> Delimits(s, p)
    <3>1. /\ t[p] = s[p] /\ Open(t)[p] = Open(s)[p]
          /\ Open(t)[p - 1] = Open(s)[p - 1]
      BY <1>1, <1>a, <1>2
    <3> QED
      BY <3>1, Zenon DEF Breaks, Delimits
  <2> QED
    BY <2>1
<1>4. ASSUME NEW p \in 1 .. Len(s)
      PROVE  StartsToken(t, p) <=> StartsToken(s, p)
  <2>1. CASE p = 1
    BY <1>1, <1>3, <2>1 DEF StartsToken
  <2>2. CASE p /= 1
    <3>1. p - 1 \in 1 .. Len(s)
      BY <1>1, <2>2
    <3> QED
      BY <1>1, <1>3, <2>2, <3>1 DEF StartsToken
  <2> QED
    BY <2>1, <2>2
<1> QED
  BY <1>3, <1>4

(* The places of a word: from p to the break after it.                     *)
BreaksFrom(s, p) == {q \in p .. Len(s) : Breaks(s, q)}
WordPlaces(s, p) ==
  {q \in p .. Min(BreaksFrom(s, p) \union {Len(s) + 1}) - 1 : ~Delimits(s, q)}

LEMMA TokenIs ==
  ASSUME NEW s, NEW p
  PROVE  TokenAt(s, p) = IF Breaks(s, p) THEN Operator(s[p])
                         ELSE Word(Each(WordPlaces(s, p), s))
BY DEF TokenAt, Each, WordPlaces, BreaksFrom

(* The last place of a word gives its last character.                      *)
LEMMA SpelledGrows ==
  ASSUME NEW s \in Seq(Chars), NEW ch \in Chars, NEW S \in SUBSET DOMAIN s
  PROVE  /\ Each(S, Append(s, ch)) = Each(S, s)
         /\ Each(S \union {Len(s) + 1}, Append(s, ch)) = Append(Each(S, s), ch)
         /\ Each(S, s) \in Seq(Chars)
<1>1. PICK t : t = Append(s, ch)
  OBVIOUS
<1>2. /\ t[Len(s) + 1] = ch /\ Len(s) \in Nat /\ DOMAIN s = 1 .. Len(s)
      /\ \A p \in 1 .. Len(s) : t[p] = s[p] /\ s[p] \in Chars
  BY <1>1, Longer, LenProperties, ElementOfSeq
<1>3. PICK m \in Nat : m = Len(s) + 1
  BY <1>2
<1>4. \A p \in S : /\ p \in 0 .. Len(s) /\ p \in Nat /\ p < m
                   /\ t[p] = s[p] /\ s[p] \in Chars
  BY <1>2, <1>3
<1>5. S \in SUBSET Nat /\ IsFiniteSet(S)
  <2>1. S \in SUBSET (0 .. Len(s)) /\ S \in SUBSET Nat
    BY <1>4
  <2> QED
    BY <1>2, <2>1, UpToFinite
<1>6. Each(S, t) = Each(S, s)
  BY <1>4, <1>5, EachSame
<1>7. Each(S, s) \in Seq(Chars)
  BY <1>4, <1>5, EachIs
<1>8. Each(S \union {m}, t) = Append(Each(S, t), t[m])
  <2>1. \A p \in S \union {m} : t[p] \in Chars
    BY <1>2, <1>3, <1>4
  <2> QED
    BY <1>3, <1>4, <1>5, <2>1, EachGrows
<1> QED
  BY <1>1, <1>2, <1>3, <1>6, <1>7, <1>8
-----------------------------------------------------------------------------
(* The tokens of a line, and of the line with one more character.          *)
Tokens == [type : {"word"} \union Operators, value : Seq(Chars)]

(* A token that ends before the new character, or at it, stays as it is.   *)
LEMMA TokenKept ==
  ASSUME NEW s \in Seq(Chars), NEW ch \in Chars, NEW t, t = Append(s, ch),
         NEW p \in 1 .. Len(s), \E q \in p .. Len(s) + 1 : Breaks(t, q)
  PROVE  TokenAt(t, p) = TokenAt(s, p)
<1>1. /\ t \in Seq(Chars) /\ Len(t) = Len(s) + 1 /\ Len(s) \in Nat
      /\ \A q \in 1 .. Len(s) : t[q] = s[q]
  BY Longer
<1>2. \A q \in 1 .. Len(s) :
        /\ Breaks(t, q) <=> Breaks(s, q)
        /\ Delimits(t, q) <=> Delimits(s, q)
  BY BreaksKept
<1>3. PICK n \in Nat : n = Len(s)
  BY <1>1
<1>4. CASE Breaks(s, p)
  <2>1. Breaks(t, p) /\ t[p] = s[p]
    BY <1>1, <1>2, <1>4
  <2> QED
    BY <1>4, <2>1, TokenIs
<1>5. CASE ~Breaks(s, p)
  <2>1. PICK D : D = BreaksFrom(s, p)
    OBVIOUS
  <2>2. PICK E : E = BreaksFrom(t, p)
    OBVIOUS
  <2>3. D = {q \in p .. n : Breaks(s, q)} /\ E = {q \in p .. n + 1 : Breaks(t, q)}
    BY <1>1, <1>3, <2>1, <2>2 DEF BreaksFrom
  <2>4. D \in SUBSET (p .. n) /\ E \in SUBSET (p .. n + 1) /\ E /= {}
    BY <1>3, <2>3
  <2>a. \A q \in D \union E : q \in Nat
    <3>1. ASSUME NEW q \in D \union E PROVE q \in Nat
      <4>1. q \in p .. n \/ q \in p .. n + 1
        BY <2>4
      <4> QED
        BY <1>3, <4>1
    <3> QED
      BY <3>1
  <2>5. \A q \in p .. n : q \in 1 .. n /\ (q \in D <=> q \in E)
    <3>1. ASSUME NEW q \in p .. n PROVE q \in 1 .. n /\ (q \in D <=> q \in E)
      <4>1. q \in 1 .. n /\ q \in p .. n + 1
        BY <1>3
      <4> QED
        BY <1>2, <1>3, <2>3, <4>1
    <3> QED
      BY <3>1
  <2>6. PICK a : a = Min(D \union {n + 1})
    OBVIOUS
  <2>7. PICK b : b = Min(E \union {n + 2})
    OBVIOUS
  <2>8. a \in D \union {n + 1} /\ \A q \in D \union {n + 1} : a <= q
    <3>1. D \union {n + 1} \in SUBSET Nat /\ D \union {n + 1} /= {}
      BY <2>a
    <3> QED
      BY <2>6, <3>1, MinIs
  <2>9. b \in E \union {n + 2} /\ \A q \in E \union {n + 2} : b <= q
    <3>1. E \union {n + 2} \in SUBSET Nat /\ E \union {n + 2} /= {}
      BY <2>a
    <3> QED
      BY <2>7, <3>1, MinIs
  <2>10. b \in E
    <3>1. PICK q \in E : q \in p .. n + 1
      BY <2>4
    <3>2. b <= q
      BY <2>9
    <3>3. b /= n + 2
      BY <1>3, <3>1, <3>2
    <3> QED
      BY <2>9, <3>3
  <2>11. a = b
    <3>1. a \in p .. n + 1 /\ b \in p .. n + 1
      BY <1>3, <2>4, <2>8, <2>10
    <3>2. CASE b = n + 1
      <4>1. a <= n + 1
        BY <2>8
      <4>2. CASE a \in p .. n
        <5>1. a \in E
          BY <1>3, <2>5, <2>8, <4>2
        <5>2. b <= a
          BY <2>9, <5>1
        <5> QED
          BY <3>1, <3>2, <4>1, <5>2
      <4> QED
        BY <3>1, <3>2, <4>2
    <3>3. CASE b \in p .. n
      <4>1. b \in D
        BY <2>5, <2>10, <3>3
      <4>2. a <= b
        BY <2>8, <4>1
      <4>3. a \in p .. n
        BY <3>1, <3>3, <4>2
      <4>4. a \in E
        BY <2>5, <2>8, <4>3
      <4>5. b <= a
        BY <2>9, <4>4
      <4> QED
        BY <3>1, <4>2, <4>5
    <3> QED
      BY <3>1, <3>2, <3>3
  <2>12. a - 1 <= n /\ a \in Nat
    BY <1>3, <2>4, <2>8
  <2>13. PICK W : W = WordPlaces(s, p)
    OBVIOUS
  <2>14. W = {q \in p .. a - 1 : ~Delimits(s, q)}
    BY <1>3, <2>1, <2>6, <2>13 DEF WordPlaces
  <2>15. WordPlaces(t, p) = {q \in p .. a - 1 : ~Delimits(t, q)}
    <3>1. Len(t) + 1 = n + 2
      BY <1>1, <1>3
    <3> QED
      BY <2>2, <2>7, <2>11, <3>1 DEF WordPlaces
  <2>16. \A q \in p .. a - 1 : q \in 1 .. n
    BY <1>3, <2>12
  <2>17. WordPlaces(t, p) = W
    BY <1>2, <1>3, <2>14, <2>15, <2>16
  <2>18. W \in SUBSET DOMAIN s
    <3>1. \A q \in W : q \in p .. a - 1
      BY <2>14
    <3>2. DOMAIN s = 1 .. n
      BY <1>3, LenProperties
    <3>3. \A q \in W : q \in DOMAIN s
      BY <2>16, <3>1, <3>2
    <3> QED
      BY <3>3
  <2>19. Each(W, t) = Each(W, s)
    <3>1. Each(W, Append(s, ch)) = Each(W, s)
      BY <2>18, SpelledGrows
    <3> QED
      BY <3>1
  <2>20. ~Breaks(t, p)
    BY <1>2, <1>5
  <2> QED
    BY <1>5, <2>13, <2>17, <2>19, <2>20, TokenIs
<1> QED
  BY <1>4, <1>5

(* A word that goes on, or begins, with the new character.                 *)
WordSoFar(s, p) == Each({q \in p .. Len(s) : ~Delimits(s, q)}, s)

LEMMA NoBreakPlaces ==
  ASSUME NEW s \in Seq(Chars), NEW p \in 1 .. Len(s),
         \A q \in p .. Len(s) : ~Breaks(s, q)
  PROVE  TokenAt(s, p) = Word(WordSoFar(s, p))
<1>1. Len(s) \in Nat
  BY LenProperties
<1>2. BreaksFrom(s, p) = {}
  BY DEF BreaksFrom
<1>3. Min({Len(s) + 1}) = Len(s) + 1
  <2>1. {Len(s) + 1} \in SUBSET Nat /\ {Len(s) + 1} /= {}
    BY <1>1
  <2>2. Min({Len(s) + 1}) \in {Len(s) + 1}
    BY <2>1, MinIs
  <2> QED
    BY <2>2
<1>4. WordPlaces(s, p) = {q \in p .. Len(s) : ~Delimits(s, q)}
  <2>1. BreaksFrom(s, p) \union {Len(s) + 1} = {Len(s) + 1}
    BY <1>2
  <2>2. Len(s) + 1 - 1 = Len(s)
    BY <1>1
  <2>3. Min(BreaksFrom(s, p) \union {Len(s) + 1}) - 1 = Len(s)
    <3>1. PICK x : x = Min(BreaksFrom(s, p) \union {Len(s) + 1})
      OBVIOUS
    <3>2. x = Len(s) + 1
      BY <1>3, <2>1, <3>1, Zenon
    <3>3. x - 1 = Len(s)
      BY <2>2, <3>2
    <3> QED
      BY <3>1, <3>3
  <2> QED
    BY <2>3, Zenon DEF WordPlaces
<1>5. ~Breaks(s, p)
  BY <1>1
<1> QED
  BY <1>4, <1>5, TokenIs DEF WordSoFar

LEMMA WordGoesOn ==
  ASSUME NEW s \in Seq(Chars), NEW ch \in Chars, NEW t, t = Append(s, ch),
         NEW p \in 1 .. Len(s) + 1, \A q \in p .. Len(s) + 1 : ~Breaks(t, q)
  PROVE  /\ TokenAt(t, p) = Word(IF Delimits(t, Len(s) + 1) THEN WordSoFar(s, p)
                                 ELSE Append(WordSoFar(s, p), ch))
         /\ WordSoFar(s, p) \in Seq(Chars)
         /\ p \in 1 .. Len(s) => TokenAt(s, p) = Word(WordSoFar(s, p))
<1>1. /\ t \in Seq(Chars) /\ Len(t) = Len(s) + 1 /\ Len(s) \in Nat
  BY Longer
<1>2. \A q \in 1 .. Len(s) :
        /\ Breaks(t, q) <=> Breaks(s, q)
        /\ Delimits(t, q) <=> Delimits(s, q)
  BY BreaksKept
<1>3. PICK n \in Nat : n = Len(s)
  BY <1>1
<1>4. PICK W : W = {q \in p .. n : ~Delimits(s, q)}
  OBVIOUS
<1>5. \A q \in p .. n : q \in 1 .. n
  BY <1>3
<1>6. W \in SUBSET DOMAIN s /\ WordSoFar(s, p) = Each(W, s)
  BY <1>3, <1>4, <1>5, LenProperties DEF WordSoFar
<1>7. WordSoFar(s, p) \in Seq(Chars)
  BY <1>6, SpelledGrows
<1>8. TokenAt(t, p) = Word(WordSoFar(t, p))
  BY <1>1, NoBreakPlaces
<1>9. p \in 1 .. Len(s) => TokenAt(s, p) = Word(WordSoFar(s, p))
  <2>1. \A q \in p .. n : ~Breaks(s, q)
    <3>1. ASSUME NEW q \in p .. n PROVE ~Breaks(s, q)
      <4>1. q \in 1 .. n /\ q \in p .. n + 1
        BY <1>3
      <4> QED
        BY <1>2, <1>3, <4>1
    <3> QED
      BY <3>1
  <2> QED
    BY <1>3, <2>1, NoBreakPlaces
<1>10. {q \in p .. n + 1 : ~Delimits(t, q)} =
         IF Delimits(t, n + 1) THEN W ELSE W \union {n + 1}
  <2>1. \A q : q \in p .. n + 1 <=> q \in p .. n \/ q = n + 1
    BY <1>3
  <2>2. \A q \in p .. n : Delimits(t, q) <=> Delimits(s, q)
    BY <1>2, <1>3, <1>5
  <2> QED
    BY <1>4, <2>1, <2>2
<1>11. WordSoFar(t, p) = Each({q \in p .. n + 1 : ~Delimits(t, q)}, t)
  BY <1>1, <1>3 DEF WordSoFar
<1>12. /\ Each(W, t) = Each(W, s)
       /\ Each(W \union {n + 1}, t) = Append(Each(W, s), ch)
  <2>1. /\ Each(W, t) = Each(W, s)
        /\ Each(W \union {Len(s) + 1}, t) = Append(Each(W, s), ch)
    <3>1. /\ Each(W, Append(s, ch)) = Each(W, s)
          /\ Each(W \union {Len(s) + 1}, Append(s, ch)) =
               Append(Each(W, s), ch)
      BY <1>6, SpelledGrows
    <3> QED
      BY <3>1
  <2>2. n + 1 = Len(s) + 1
    BY <1>3
  <2> QED
    BY <2>1, <2>2
<1>13. WordSoFar(t, p) = IF Delimits(t, Len(s) + 1) THEN WordSoFar(s, p)
                         ELSE Append(WordSoFar(s, p), ch)
  BY <1>3, <1>6, <1>10, <1>11, <1>12
<1> QED
  BY <1>7, <1>8, <1>9, <1>13

LEMMA NothingSoFar ==
  ASSUME NEW s \in Seq(Chars)
  PROVE  WordSoFar(s, Len(s) + 1) = <<>>
<1>1. Len(s) \in Nat
  BY LenProperties
<1>2. {q \in Len(s) + 1 .. Len(s) : ~Delimits(s, q)} = {}
  BY <1>1
<1>3. WordSoFar(s, Len(s) + 1) = Each({}, s)
  BY <1>2 DEF WordSoFar
<1> QED
  BY <1>3, InOrderEmpty DEF Each

(* The tokens that begin at the places S.                                  *)
Starts(s) == {p \in 1 .. Len(s) : StartsToken(s, p)}
TokenFrom(s) == [p \in DOMAIN s |-> TokenAt(s, p)]

LEMMA StartsAre ==
  ASSUME NEW s \in Seq(Chars), NEW S \in SUBSET Starts(s)
  PROVE  /\ S \in SUBSET Nat /\ IsFiniteSet(S)
         /\ \A p \in S : p \in 1 .. Len(s) /\ TokenFrom(s)[p] = TokenAt(s, p)
         /\ \A p \in S : TokenFrom(s)[p] \in Tokens
         /\ Each(S, TokenFrom(s)) \in Seq(Tokens)
<1>1. Len(s) \in Nat /\ DOMAIN s = 1 .. Len(s)
  BY LenProperties
<1>2. \A p \in S : /\ p \in 0 .. Len(s) /\ p \in Nat /\ p \in 1 .. Len(s)
                   /\ StartsToken(s, p) /\ s[p] \in Chars
  <2>1. \A p \in S : p \in 1 .. Len(s) /\ StartsToken(s, p)
    BY DEF Starts
  <2> QED
    BY <1>1, <2>1, ElementOfSeq
<1>3. S \in SUBSET Nat /\ IsFiniteSet(S)
  <2>1. S \in SUBSET (0 .. Len(s)) /\ S \in SUBSET Nat
    BY <1>2
  <2> QED
    BY <1>1, <2>1, UpToFinite
<1>4. \A p \in S : TokenFrom(s)[p] = TokenAt(s, p)
  BY <1>1, <1>2 DEF TokenFrom
<1>5. ASSUME NEW p \in S PROVE TokenAt(s, p) \in Tokens
  <2>1. CASE Breaks(s, p)
    <3>1. s[p] \in Operators
      BY <1>2, <2>1 DEF Breaks, StartsToken
    <3>2. <<>> \in Seq(Chars)
      OBVIOUS
    <3>3. Operator(s[p]) \in Tokens
      BY <3>1, <3>2 DEF Operator, Tokens
    <3> QED
      BY <2>1, <3>3, TokenIs
  <2>2. CASE ~Breaks(s, p)
    <3>1. PICK W : W = WordPlaces(s, p)
      OBVIOUS
    <3>2. W \in SUBSET DOMAIN s
      <4>1. PICK e : e = Min(BreaksFrom(s, p) \union {Len(s) + 1})
        OBVIOUS
      <4>2. e \in p .. Len(s) + 1
        <5>1. PICK D : D = BreaksFrom(s, p) \union {Len(s) + 1}
          OBVIOUS
        <5>2. \A q \in D : q \in p .. Len(s) + 1
          BY <1>1, <1>2, <5>1 DEF BreaksFrom
        <5>3. D \in SUBSET Nat /\ D /= {}
          BY <1>1, <1>2, <5>1, <5>2
        <5>4. Min(D) \in D
          BY <5>3, MinIs
        <5> QED
          BY <4>1, <5>1, <5>2, <5>4
      <4>3. W = {q \in p .. e - 1 : ~Delimits(s, q)}
        BY <3>1, <4>1 DEF WordPlaces
      <4>4. \A q \in W : q \in p .. e - 1
        BY <4>3
      <4>5. \A q \in W : q \in 1 .. Len(s)
        BY <1>1, <1>2, <4>2, <4>4
      <4> QED
        BY <1>1, <4>5
    <3>3. Each(W, s) \in Seq(Chars)
      <4>1. PICK c \in Chars : c = s[p]
        BY <1>2
      <4> QED
        BY <3>2, <4>1, SpelledGrows
    <3>4. Word(Each(W, s)) \in Tokens
      BY <3>3 DEF Word, Tokens
    <3> QED
      BY <2>2, <3>1, <3>4, TokenIs
  <2> QED
    BY <2>1, <2>2
<1>6. \A p \in S : TokenFrom(s)[p] \in Tokens
  BY <1>4, <1>5
<1>7. Each(S, TokenFrom(s)) \in Seq(Tokens)
  BY <1>3, <1>6, EachIs
<1> QED
  BY <1>2, <1>3, <1>4, <1>6, <1>7

LEMMA TokensAre ==
  ASSUME NEW s \in Seq(Chars)
  PROVE  TokensOf(s) = Each(Starts(s), TokenFrom(s))
<1>1. PICK S : S = Starts(s)
  OBVIOUS
<1>2. PICK o : o = InOrder(S)
  OBVIOUS
<1>3. /\ S \in SUBSET Nat /\ IsFiniteSet(S)
      /\ \A p \in S : TokenFrom(s)[p] = TokenAt(s, p)
  BY <1>1, StartsAre
<1>4. \A i \in DOMAIN o : o[i] \in S
  BY <1>2, <1>3, InOrderIs
<1>5. TokensOf(s) = [i \in DOMAIN o |-> TokenAt(s, o[i])]
  BY <1>1, <1>2, Zenon DEF TokensOf, Starts
<1>6. Each(S, TokenFrom(s)) = [i \in DOMAIN o |-> TokenFrom(s)[o[i]]]
  BY <1>2 DEF Each
<1>7. \A i \in DOMAIN o : TokenFrom(s)[o[i]] = TokenAt(s, o[i])
  BY <1>3, <1>4
<1> QED
  BY <1>1, <1>5, <1>6, <1>7

(* With the new character, the tokens that began before it.                *)
LEMMA StartsGrow ==
  ASSUME NEW s \in Seq(Chars), NEW ch \in Chars, NEW t, t = Append(s, ch)
  PROVE  /\ Starts(s) \in SUBSET Starts(t)
         /\ Starts(t) = IF StartsToken(t, Len(s) + 1)
                        THEN Starts(s) \union {Len(s) + 1} ELSE Starts(s)
         /\ \A p \in Starts(s) : p \in 1 .. Len(s)
<1>1. Len(t) = Len(s) + 1 /\ Len(s) \in Nat
  BY Longer
<1>2. \A p \in 1 .. Len(s) : StartsToken(t, p) <=> StartsToken(s, p)
  BY BreaksKept
<1>3. PICK n \in Nat : n = Len(s)
  BY <1>1
<1>4. \A p : p \in 1 .. n + 1 <=> p \in 1 .. n \/ p = n + 1
  BY <1>3
<1>5. /\ Starts(s) = {p \in 1 .. n : StartsToken(s, p)}
      /\ Starts(t) = {p \in 1 .. n + 1 : StartsToken(t, p)}
  BY <1>1, <1>3 DEF Starts
<1>6. \A p : p \in Starts(t) <=> p \in Starts(s) \/ (p = n + 1 /\ StartsToken(t, n + 1))
  BY <1>2, <1>3, <1>4, <1>5
<1>7. Starts(t) = IF StartsToken(t, n + 1)
                  THEN Starts(s) \union {n + 1} ELSE Starts(s)
  BY <1>6
<1> QED
  BY <1>3, <1>5, <1>6, <1>7

LEMMA TokensKept ==
  ASSUME NEW s \in Seq(Chars), NEW ch \in Chars, NEW t, t = Append(s, ch),
         NEW S \in SUBSET Starts(s),
         \A p \in S : \E q \in p .. Len(s) + 1 : Breaks(t, q)
  PROVE  Each(S, TokenFrom(t)) = Each(S, TokenFrom(s))
<1>1. t \in Seq(Chars)
  BY Longer
<1>2. S \in SUBSET Starts(t) /\ \A p \in S : p \in 1 .. Len(s)
  BY StartsGrow
<1>3. \A p \in S : TokenAt(t, p) = TokenAt(s, p)
  BY <1>2, TokenKept
<1>4. S \in SUBSET Nat /\ IsFiniteSet(S)
  BY StartsAre
<1>5. \A p \in S : TokenFrom(s)[p] = TokenAt(s, p)
  BY StartsAre
<1>6. \A p \in S : TokenFrom(t)[p] = TokenAt(t, p)
  BY <1>1, <1>2, StartsAre
<1>7. \A p \in S : TokenFrom(t)[p] = TokenFrom(s)[p]
  BY <1>3, <1>5, <1>6
<1> QED
  BY <1>4, <1>7, EachSame

(* The tokens S and one that begins after them.                            *)
LEMMA TokensGrow ==
  ASSUME NEW t \in Seq(Chars), NEW S \in SUBSET Starts(t), NEW m \in Starts(t),
         \A p \in S : p < m
  PROVE  Each(S \union {m}, TokenFrom(t)) =
           Append(Each(S, TokenFrom(t)), TokenAt(t, m))
<1>1. S \union {m} \in SUBSET Starts(t)
  OBVIOUS
<1>2. PICK f : f = TokenFrom(t)
  OBVIOUS
<1>3. /\ m \in Nat /\ f[m] = TokenAt(t, m)
      /\ \A p \in S \union {m} : f[p] \in Tokens
  BY <1>1, <1>2, StartsAre
<1>4. S \in SUBSET Nat /\ IsFiniteSet(S)
  BY StartsAre
<1>5. Each(S \union {m}, f) = Append(Each(S, f), f[m])
  BY <1>3, <1>4, EachGrows
<1> QED
  BY <1>2, <1>3, <1>5

(* A blank or an operator outside quotes ends the token before it.         *)
LEMMA BreakAppended ==
  ASSUME NEW s \in Seq(Chars), NEW ch \in Chars, NEW t, t = Append(s, ch),
         Breaks(t, Len(s) + 1)
  PROVE  TokensOf(t) = IF ch = Blank THEN TokensOf(s)
                       ELSE Append(TokensOf(s), Operator(ch))
<1>1. t \in Seq(Chars) /\ Len(t) = Len(s) + 1 /\ Len(s) \in Nat /\ t[Len(s) + 1] = ch
  BY Longer
<1>2. PICK n \in Nat : n = Len(s)
  BY <1>1
<1>3. StartsToken(t, n + 1) <=> ch /= Blank
  BY <1>1, <1>2, Zenon DEF StartsToken
<1>4. PICK S : S = Starts(s)
  OBVIOUS
<1>5. /\ S \in SUBSET Starts(t)
      /\ Starts(t) = IF StartsToken(t, n + 1) THEN S \union {n + 1} ELSE S
      /\ \A p \in S : p \in 1 .. n
  BY <1>2, <1>4, StartsGrow
<1>6. Each(S, TokenFrom(t)) = Each(S, TokenFrom(s))
  <2>1. \A p \in S : n + 1 \in p .. n + 1
    BY <1>5
  <2>2. \A p \in S : \E q \in p .. Len(s) + 1 : Breaks(t, q)
    BY <1>2, <2>1
  <2> QED
    BY <1>4, <2>2, TokensKept
<1>7. TokensOf(s) = Each(S, TokenFrom(s)) /\ TokensOf(t) = Each(Starts(t), TokenFrom(t))
  BY <1>1, <1>4, TokensAre
<1>8. CASE ch = Blank
  BY <1>3, <1>5, <1>6, <1>7, <1>8
<1>9. CASE ch /= Blank
  <2>1. n + 1 \in Starts(t) /\ Starts(t) = S \union {n + 1}
    BY <1>3, <1>5, <1>9
  <2>2. \A p \in S : p < n + 1
    BY <1>5
  <2>3. PICK m \in Starts(t) : m = n + 1
    BY <2>1
  <2>4. \A p \in S : p < m
    BY <2>2, <2>3
  <2>5. Each(S \union {m}, TokenFrom(t)) =
          Append(Each(S, TokenFrom(t)), TokenAt(t, m))
    BY <1>1, <1>5, <2>4, TokensGrow
  <2>6. TokensOf(t) = Append(TokensOf(s), TokenAt(t, n + 1))
    BY <1>6, <1>7, <2>1, <2>3, <2>5
  <2>7. TokenAt(t, n + 1) = Operator(ch)
    BY <1>1, <1>2, TokenIs
  <2> QED
    BY <1>9, <2>6, <2>7
<1> QED
  BY <1>8, <1>9

(* After a break or at the beginning, anything else begins a word.         *)
LEMMA WordBegun ==
  ASSUME NEW s \in Seq(Chars), NEW ch \in Chars, NEW t, t = Append(s, ch),
         ~Breaks(t, Len(s) + 1), s = <<>> \/ Breaks(s, Len(s))
  PROVE  TokensOf(t) = Append(TokensOf(s),
                         Word(IF Delimits(t, Len(s) + 1) THEN <<>> ELSE <<ch>>))
<1>1. t \in Seq(Chars) /\ Len(t) = Len(s) + 1 /\ Len(s) \in Nat
  BY Longer
<1>2. PICK n \in Nat : n = Len(s)
  BY <1>1
<1>3. n = 0 \/ (n \in 1 .. n /\ Breaks(t, n))
  <2>1. CASE s = <<>>
    BY <1>2, <2>1
  <2>2. CASE n > 0 /\ Breaks(s, n)
    <3>1. n \in 1 .. Len(s)
      BY <1>2, <2>2
    <3> QED
      BY <1>2, <2>2, <3>1, BreaksKept
  <2>3. n = 0 \/ n > 0
    BY <1>2
  <2>4. CASE n = 0
    BY <2>4
  <2> QED
    BY <1>2, <2>1, <2>2, <2>3, <2>4
<1>4. StartsToken(t, n + 1)
  <2>1. n + 1 = 1 \/ Breaks(t, (n + 1) - 1)
    <3>1. (n + 1) - 1 = n
      OBVIOUS
    <3> QED
      BY <1>3, <3>1
  <2> QED
    BY <1>2, <2>1, Zenon DEF StartsToken
<1>5. PICK S : S = Starts(s)
  OBVIOUS
<1>6. /\ S \in SUBSET Starts(t) /\ Starts(t) = S \union {n + 1}
      /\ \A p \in S : p \in 1 .. n
  BY <1>2, <1>4, <1>5, StartsGrow
<1>7. Each(S, TokenFrom(t)) = Each(S, TokenFrom(s))
  <2>1. ASSUME NEW p \in S PROVE \E q \in p .. n + 1 : Breaks(t, q)
    <3>1. p \in 1 .. n
      BY <1>6
    <3>2. n \in p .. n + 1 /\ n /= 0
      BY <3>1
    <3> QED
      BY <1>3, <3>2
  <2>2. \A p \in S : \E q \in p .. Len(s) + 1 : Breaks(t, q)
    BY <1>2, <2>1
  <2> QED
    BY <1>5, <2>2, TokensKept
<1>8. TokensOf(s) = Each(S, TokenFrom(s)) /\ TokensOf(t) = Each(Starts(t), TokenFrom(t))
  BY <1>1, <1>5, TokensAre
<1>9. TokensOf(t) = Append(TokensOf(s), TokenAt(t, n + 1))
  <2>1. n + 1 \in Starts(t) /\ \A p \in S : p < n + 1
    BY <1>6
  <2>2. Each(S \union {n + 1}, TokenFrom(t)) =
          Append(Each(S, TokenFrom(t)), TokenAt(t, n + 1))
    BY <1>1, <1>6, <2>1, TokensGrow
  <2> QED
    BY <1>6, <1>7, <1>8, <2>2
<1>10. TokenAt(t, n + 1) = Word(IF Delimits(t, n + 1) THEN <<>> ELSE <<ch>>)
  <2>1. n + 1 \in 1 .. Len(s) + 1 /\ \A q \in n + 1 .. Len(s) + 1 : ~Breaks(t, q)
    <3>1. \A q \in n + 1 .. n + 1 : q = n + 1
      OBVIOUS
    <3>2. n + 1 \in 1 .. n + 1
      OBVIOUS
    <3> QED
      BY <1>2, <3>1, <3>2
  <2>2. TokenAt(t, n + 1) = Word(IF Delimits(t, n + 1) THEN WordSoFar(s, n + 1)
                                 ELSE Append(WordSoFar(s, n + 1), ch))
    BY <1>2, <2>1, WordGoesOn
  <2>3. WordSoFar(s, n + 1) = <<>>
    BY <1>2, NothingSoFar
  <2>4. Append(<<>>, ch) = <<ch>>
    OBVIOUS
  <2> QED
    BY <2>2, <2>3, <2>4
<1> QED
  BY <1>2, <1>9, <1>10

(* In a word, anything else belongs to the word, the last token.           *)
Continued(s, ch, t) ==
  \E before \in Seq(Tokens), v \in Seq(Chars) :
    /\ TokensOf(s) = Append(before, Word(v))
    /\ TokensOf(t) = Append(before, Word(IF Delimits(t, Len(s) + 1) THEN v
                                        ELSE Append(v, ch)))

LEMMA WordContinued ==
  ASSUME NEW s \in Seq(Chars), NEW ch \in Chars,
         ~Breaks(Append(s, ch), Len(s) + 1), s /= <<>>, ~Breaks(s, Len(s))
  PROVE  Continued(s, ch, Append(s, ch))
<1>0. PICK t : t = Append(s, ch)
  OBVIOUS
<1>1. t \in Seq(Chars) /\ Len(t) = Len(s) + 1 /\ ~Breaks(t, Len(s) + 1)
  BY <1>0, Longer
<1>2. PICK n \in Nat : n = Len(s) /\ n > 0
  BY EmptySeq, LenProperties
<1>3. \A q \in 1 .. n : Breaks(t, q) <=> Breaks(s, q)
  BY <1>0, <1>2, BreaksKept
<1>4. \E m \in 1 .. n : (m = 1 \/ Breaks(s, m - 1)) /\ \A q \in m .. n : ~Breaks(s, q)
  <2> DEFINE G(m) == m = 1 \/ Breaks(s, m - 1)
             T == {j \in 0 .. n - 1 : G(n - j)}
  <2>1. T \in SUBSET Nat
    OBVIOUS
  <2>2. T /= {}
    <3>1. n - 1 \in 0 .. n - 1 /\ n - (n - 1) = 1
      BY <1>2
    <3>2. G(n - (n - 1))
      BY <3>1
    <3> QED
      BY <3>1, <3>2
  <2>3. PICK j \in T : \A l \in T : j <= l
    <3> HIDE DEF T
    <3> QED
      BY <2>1, <2>2, Least
  <2>4. PICK m \in 1 .. n : m = n - j
    BY <2>3
  <2>5. j \in 0 .. n - 1 /\ G(m)
    BY <2>3, <2>4
  <2>6. ASSUME NEW q \in m .. n, Breaks(s, q) PROVE FALSE
    <3>1. q /= n
      BY <1>2, <2>6
    <3>2. PICK l \in 0 .. n - 1 : l = n - (q + 1)
      BY <2>4, <3>1
    <3>3. n - l = q + 1 /\ (q + 1) - 1 = q /\ l < j
      BY <2>4, <2>5, <3>2
    <3>4. G(q + 1)
      BY <2>6, <3>3
    <3>5. G(n - l)
      BY <3>3, <3>4
    <3>6. l \in T
      BY <3>5
    <3>7. j <= l
      BY <2>3, <3>6
    <3> QED
      BY <2>5, <3>3, <3>7
  <2> QED
    BY <2>5, <2>6
<1>5. PICK m \in 1 .. n :
        (m = 1 \/ Breaks(s, m - 1)) /\ \A q \in m .. n : ~Breaks(s, q)
  BY <1>4
<1>6. m \in m .. n /\ n \in m .. n
  BY <1>5
<1>7. StartsToken(s, m)
  BY <1>5, <1>6, Zenon DEF StartsToken
<1>8. PICK S : S = {p \in Starts(s) : p < m}
  OBVIOUS
<1>9. Starts(s) = {p \in 1 .. n : StartsToken(s, p)}
  BY <1>2 DEF Starts
<1>10. S \in SUBSET Starts(s) /\ m \in Starts(s) /\ \A p \in S : p < m /\ p \in 1 .. n
  BY <1>5, <1>7, <1>8, <1>9
<1>11. Starts(s) = S \union {m}
  <2>1. ASSUME NEW p \in Starts(s), p > m PROVE FALSE
    <3>1. p \in 1 .. n /\ StartsToken(s, p) /\ p \in m .. n /\ p - 1 \in m .. n /\ p /= 1
      BY <1>5, <1>9, <2>1
    <3> QED
      BY <1>5, <3>1 DEF StartsToken
  <2>2. \A p \in Starts(s) : p < m \/ p = m \/ p > m
    BY <1>5, <1>9
  <2>3. \A p \in Starts(s) : p \in S \/ p = m
    BY <1>8, <2>1, <2>2
  <2> QED
    BY <1>10, <2>3
<1>12. Starts(t) = S \union {m}
  <2>1. ~StartsToken(t, n + 1)
    <3>1. (n + 1) - 1 = n /\ n + 1 /= 1 /\ n \in 1 .. n
      BY <1>2
    <3>2. ~Breaks(t, n)
      BY <1>2, <1>3, <3>1
    <3> QED
      BY <1>1, <1>2, <3>1, <3>2 DEF StartsToken
  <2> QED
    BY <1>2, <1>11, <1>0, <2>1, StartsGrow
<1>13. Each(S, TokenFrom(t)) = Each(S, TokenFrom(s))
  <2>1. ASSUME NEW p \in S PROVE \E q \in p .. n + 1 : Breaks(t, q)
    <3>1. p \in 1 .. n /\ p < m
      BY <1>10
    <3>2. m - 1 \in 1 .. n /\ m - 1 \in p .. n + 1 /\ m /= 1
      BY <1>5, <3>1
    <3> QED
      BY <1>3, <1>5, <3>2
  <2> QED
    BY <1>2, <1>10, <1>0, <2>1, TokensKept
<1>14. PICK before \in Seq(Tokens) : before = Each(S, TokenFrom(s))
  BY <1>10, StartsAre
<1>15. TokensOf(s) = Append(before, TokenAt(s, m))
  <2>1. TokensOf(s) = Each(S \union {m}, TokenFrom(s))
    BY <1>11, TokensAre
  <2>2. Each(S \union {m}, TokenFrom(s)) = Append(Each(S, TokenFrom(s)), TokenAt(s, m))
    BY <1>10, TokensGrow
  <2> QED
    BY <1>14, <2>1, <2>2
<1>16. TokensOf(t) = Append(before, TokenAt(t, m))
  <2>1. TokensOf(t) = Each(S \union {m}, TokenFrom(t))
    BY <1>1, <1>12, TokensAre
  <2>2. S \in SUBSET Starts(t) /\ m \in Starts(t)
    BY <1>12
  <2>3. Each(S \union {m}, TokenFrom(t)) = Append(Each(S, TokenFrom(t)), TokenAt(t, m))
    BY <1>1, <1>10, <2>2, TokensGrow
  <2> QED
    BY <1>13, <1>14, <2>1, <2>3
<1>17. PICK v : v = WordSoFar(s, m)
  OBVIOUS
<1>18. /\ v \in Seq(Chars) /\ TokenAt(s, m) = Word(v)
       /\ TokenAt(t, m) = Word(IF Delimits(t, Len(s) + 1) THEN v ELSE Append(v, ch))
  <2>1. m \in 1 .. Len(s) + 1 /\ m \in 1 .. Len(s)
    BY <1>2, <1>5
  <2>2. \A q \in m .. Len(s) + 1 : ~Breaks(t, q)
    <3>1. ASSUME NEW q \in m .. n + 1 PROVE ~Breaks(t, q)
      <4>1. q = n + 1 \/ (q \in 1 .. n /\ q \in m .. n)
        BY <1>5
      <4> QED
        BY <1>1, <1>2, <1>3, <1>5, <4>1
    <3> QED
      BY <1>2, <3>1
  <2> QED
    BY <1>17, <2>1, <1>0, <2>2, WordGoesOn
<1> QED
  BY <1>0, <1>14, <1>15, <1>16, <1>18 DEF Continued
-----------------------------------------------------------------------------
(* The lexer: what it has collected is what the reference says of the line *)
(* that it has read, with the word it is in, if any, as the last token.    *)
LexedSoFar ==
  IF state = "START"
  THEN /\ c_value = <<>> /\ (line = <<>> \/ Breaks(line, Len(line)))
       /\ TokensOf(line) = oTokens
       /\ Open(line)[Len(line)] = Blank
  ELSE /\ line /= <<>> /\ ~Breaks(line, Len(line))
       /\ TokensOf(line) = Append(oTokens, Word(c_value))
       /\ Open(line)[Len(line)] = IF state = "IN_WORD" THEN Blank ELSE state

Lexed ==
  /\ line \in Seq(Chars) /\ c_value \in Seq(Chars) /\ oTokens \in Seq(Tokens)
  /\ Lexing => LexedSoFar
  /\ state = "LEX_SUCCESS" => c_value = <<>>
  /\ TokensAsWritten

LEMMA NothingLexed ==
  /\ <<>> \in Seq(Chars) /\ <<>> \in Seq(Tokens) /\ Len(<<>>) = 0
  /\ TokensOf(<<>>) = <<>> /\ Open(<<>>)[0] = Blank
<1>1. <<>> \in Seq(Chars) /\ <<>> \in Seq(Tokens) /\ Len(<<>>) = 0
  OBVIOUS
<1>2. Open(<<>>)[0] = Blank
  BY <1>1, OpenNext
<1>3. Starts(<<>>) = {}
  BY <1>1 DEF Starts
<1>4. TokensOf(<<>>) = <<>>
  <2>1. TokensOf(<<>>) = Each({}, TokenFrom(<<>>))
    BY <1>1, <1>3, TokensAre
  <2> QED
    BY <2>1, InOrderEmpty DEF Each
<1> QED
  BY <1>1, <1>2, <1>4

(* What the next character means follows from the quote that is open.      *)
Means(ch, quote, t) ==
  /\ Open(t)[Len(t)] = IF quote = Blank /\ ch \in Quotes THEN ch
                       ELSE IF quote = ch THEN Blank ELSE quote
  /\ Breaks(t, Len(t)) <=> quote = Blank /\ ch \in Operators \union {Blank}
  /\ Delimits(t, Len(t)) <=> quote /= Open(t)[Len(t)]

LEMMA CharacterRead ==
  ASSUME NEW s \in Seq(Chars), NEW ch \in Chars
  PROVE  Means(ch, Open(s)[Len(s)], Append(s, ch))
<1>0. PICK t : t = Append(s, ch)
  OBVIOUS
<1>a. PICK quote : quote = Open(s)[Len(s)]
  OBVIOUS
<1>1. /\ t \in Seq(Chars) /\ Len(t) = Len(s) + 1 /\ Len(s) \in Nat
      /\ t[Len(s) + 1] = ch
  BY <1>0, Longer
<1>2. PICK n \in Nat : n = Len(t)
  BY <1>1
<1>3. n - 1 = Len(s) /\ n \in 1 .. n /\ Len(s) \in 0 .. Len(s) /\ t[n] = ch
  BY <1>1, <1>2
<1>4. Open(t)[Len(s)] = quote
  BY <1>0, <1>a, <1>3, OpenKept
<1>5. Open(t)[n - 1] = quote
  BY <1>3, <1>4
<1>6. Open(t)[n] = IF Open(t)[n - 1] = Blank /\ t[n] \in Quotes THEN t[n]
                   ELSE IF Open(t)[n - 1] = t[n] THEN Blank
                   ELSE Open(t)[n - 1]
  BY <1>1, <1>2, <1>3, OpenNext
<1>7. Open(t)[n] = IF quote = Blank /\ ch \in Quotes THEN ch
                   ELSE IF quote = ch THEN Blank ELSE quote
  BY <1>3, <1>5, <1>6, Zenon
<1>8. Breaks(t, n) <=> quote = Blank /\ ch \in Operators \union {Blank}
  BY <1>3, <1>5, Zenon DEF Breaks
<1>9. Delimits(t, n) <=> quote /= Open(t)[n]
  BY <1>5, Zenon DEF Delimits
<1> QED
  BY <1>0, <1>a, <1>2, <1>7, <1>8, <1>9, Zenon DEF Means

(* A character that is no break belongs to the word, or begins one.        *)
LEMMA InWord ==
  ASSUME Lexed, Lexing, NEW ch \in Chars, NEW t, t = Append(line, ch),
         ~Breaks(t, Len(t))
  PROVE  TokensOf(t) = Append(oTokens,
                         Word(IF Delimits(t, Len(t)) THEN c_value
                              ELSE Append(c_value, ch)))
<1>1. line \in Seq(Chars) /\ c_value \in Seq(Chars) /\ oTokens \in Seq(Tokens)
  BY DEF Lexed
<1>2. LexedSoFar
  BY DEF Lexed
<1>3. Len(t) = Len(line) + 1
  BY <1>1, Longer
<1>4. CASE state = "START"
  <2>1. /\ c_value = <<>> /\ (line = <<>> \/ Breaks(line, Len(line)))
        /\ TokensOf(line) = oTokens
    BY <1>2, <1>4 DEF LexedSoFar
  <2>2. TokensOf(t) = Append(TokensOf(line),
                        Word(IF Delimits(t, Len(t)) THEN <<>> ELSE <<ch>>))
    BY <1>1, <1>3, <2>1, WordBegun
  <2>3. Append(<<>>, ch) = <<ch>>
    OBVIOUS
  <2> QED
    BY <2>1, <2>2, <2>3
<1>5. CASE state /= "START"
  <2>1. /\ line /= <<>> /\ ~Breaks(line, Len(line))
        /\ TokensOf(line) = Append(oTokens, Word(c_value))
    BY <1>2, <1>5 DEF LexedSoFar
  <2>2. PICK before \in Seq(Tokens), v \in Seq(Chars) :
          /\ TokensOf(line) = Append(before, Word(v))
          /\ TokensOf(t) = Append(before,
                             Word(IF Delimits(t, Len(t)) THEN v
                                  ELSE Append(v, ch)))
    <3>1. PICK s \in Seq(Chars) : s = line
      BY <1>1
    <3>2. /\ t = Append(s, ch) /\ ~Breaks(Append(s, ch), Len(s) + 1)
          /\ s /= <<>> /\ ~Breaks(s, Len(s))
      BY <1>3, <2>1, <3>1
    <3>3. Continued(s, ch, Append(s, ch))
      BY <3>2, WordContinued
    <3> QED
      BY <1>3, <3>1, <3>2, <3>3, Zenon DEF Continued
  <2>3. Append(oTokens, Word(c_value)) = Append(before, Word(v))
    BY <2>1, <2>2
  <2>4. \A c \in Seq(Chars) : Word(c) \in Tokens /\ Word(c).value = c
    BY DEF Word, Tokens
  <2>5. oTokens = before /\ Word(c_value) = Word(v)
    <3>1. PICK a \in Tokens : a = Word(c_value)
      BY <1>1, <2>4
    <3>2. PICK b \in Tokens : b = Word(v)
      BY <2>4
    <3>3. Append(oTokens, a) = Append(before, b)
      BY <2>3, <3>1, <3>2
    <3>4. oTokens = before /\ a = b
      BY <1>1, <3>3, AppendInjective
    <3> QED
      BY <3>1, <3>2, <3>4
  <2>6. c_value = v
    <3>1. Word(c_value).value = c_value /\ Word(v).value = v
      BY <1>1, <2>4
    <3> QED
      BY <2>5, <3>1
  <2> QED
    BY <2>2, <2>5, <2>6
<1> QED
  BY <1>4, <1>5

(* Every step of the lexer.                                                *)
LEMMA SeparateLexed ==
  ASSUME Lexed, NEW ch \in Operators \union {Blank}, Separate(ch)
  PROVE  Lexed'
<1>1. /\ line \in Seq(Chars) /\ c_value \in Seq(Chars) /\ oTokens \in Seq(Tokens)
      /\ Lexing /\ LexedSoFar /\ ch \in Chars
      /\ line' = Append(line, ch) /\ state' = "START" /\ c_value' = <<>>
  BY DEF Lexed, Lexing, Separate, Reads, Chars
<1>2. PICK t : t = line'
  OBVIOUS
<1>3. t \in Seq(Chars)
  BY <1>1, <1>2, Longer
<1>4. Open(line)[Len(line)] = Blank
  BY <1>1 DEF LexedSoFar, Separate
<1>5. Open(t)[Len(t)] = Blank /\ Breaks(t, Len(t))
  <2>1. PICK quote : quote = Open(line)[Len(line)]
    OBVIOUS
  <2>2. PICK s \in Seq(Chars) : s = line
    BY <1>1
  <2>3. Means(ch, quote, t)
    BY <1>1, <1>2, <2>1, <2>2, CharacterRead
  <2>4. quote = Blank /\ ch \notin Quotes
    BY <1>4, <2>1, Characters
  <2> QED
    BY <2>3, <2>4 DEF Means
<1>6. TokensOf(line) = oTokens \o PendingWord
  <2>1. CASE state = "START"
    BY <1>1, <2>1, ConcatEmptySeq DEF LexedSoFar, PendingWord
  <2>2. CASE state = "IN_WORD"
    <3>1. PICK word \in Tokens : word = Word(c_value)
      BY <1>1 DEF Word, Tokens
    <3>2. Append(oTokens, word) = oTokens \o <<word>>
      BY <1>1, AppendIsConcat
    <3> QED
      BY <1>1, <2>2, <3>1, <3>2 DEF LexedSoFar, PendingWord
  <2> QED
    BY <2>1, <2>2 DEF Separate
<1>7. PICK a \in Seq(Tokens) : a = TokensOf(line)
  BY <1>1, TokensAre, StartsAre
<1>8. oTokens' = a \o (IF ch = Blank THEN <<>> ELSE <<Operator(ch)>>)
  BY <1>6, <1>7, Zenon DEF Separate
<1>9. TokensOf(t) = IF ch = Blank THEN a ELSE Append(a, Operator(ch))
  <2>1. Len(t) = Len(line) + 1
    BY <1>1, <1>2, Longer
  <2>2. Breaks(t, Len(line) + 1)
    BY <1>5, <2>1
  <2> QED
    BY <1>1, <1>2, <1>7, <2>2, BreakAppended
<1>10. oTokens' \in Seq(Tokens) /\ TokensOf(t) = oTokens'
  <2>1. CASE ch = Blank
    BY <1>7, <1>8, <1>9, <2>1, ConcatEmptySeq
  <2>2. CASE ch /= Blank
    <3>1. PICK token \in Tokens : token = Operator(ch)
      <4>1. <<>> \in Seq(Chars) /\ ch \in Operators
        BY <2>2
      <4> QED
        BY <4>1 DEF Operator, Tokens
    <3>2. Append(a, token) = a \o <<token>> /\ Append(a, token) \in Seq(Tokens)
      BY <1>7, AppendIsConcat, AppendProperties
    <3> QED
      BY <1>8, <1>9, <2>2, <3>1, <3>2
  <2> QED
    BY <2>1, <2>2
<1>11. c_value' \in Seq(Chars)
  BY <1>1, EmptySeq
<1>12. LexedSoFar'
  BY <1>1, <1>2, <1>5, <1>10 DEF LexedSoFar
<1>13. TokensAsWritten'
  BY <1>1 DEF TokensAsWritten
<1> QED
  BY <1>1, <1>2, <1>3, <1>10, <1>11, <1>12, <1>13 DEF Lexed

(* The other characters: a quote opens or closes, or a character is kept.  *)
LEMMA KeptLexed ==
  ASSUME Lexed, Lexing, NEW ch \in Chars, line' = Append(line, ch),
         UNCHANGED oTokens,
         state' \in {"IN_WORD"} \union Quotes,
         NEW quote, quote = Open(line)[Len(line)],
         ~(quote = Blank /\ ch \in Operators \union {Blank}),
         Open(line')[Len(line')] = IF state' = "IN_WORD" THEN Blank ELSE state',
         c_value' = IF quote = Open(line')[Len(line')]
                    THEN Append(c_value, ch) ELSE c_value
  PROVE  Lexed'
<1>1. line \in Seq(Chars) /\ c_value \in Seq(Chars) /\ oTokens \in Seq(Tokens)
  BY DEF Lexed
<1>2. PICK t : t = line'
  OBVIOUS
<1>3. t \in Seq(Chars) /\ Len(t) = Len(line) + 1 /\ Len(line) \in Nat
  BY <1>1, <1>2, Longer
<1>4. ~Breaks(t, Len(t)) /\ (Delimits(t, Len(t)) <=> quote /= Open(t)[Len(t)])
  <2>1. PICK s \in Seq(Chars) : s = line
    BY <1>1
  <2>2. Means(ch, quote, t)
    BY <1>2, <2>1, CharacterRead
  <2> QED
    BY <2>2 DEF Means
<1>5. TokensOf(t) = Append(oTokens,
                      Word(IF Delimits(t, Len(t)) THEN c_value
                           ELSE Append(c_value, ch)))
  BY <1>2, <1>4, InWord
<1>6. TokensOf(t) = Append(oTokens, Word(c_value'))
  BY <1>2, <1>4, <1>5
<1>7. c_value' \in Seq(Chars)
  BY <1>1, AppendProperties
<1>8. t /= <<>>
  BY <1>3
<1>9. state' /= "START" /\ state' /= "LEX_SUCCESS" /\ state' /= "LEX_QERROR"
  BY DEF Quotes
<1>10. LexedSoFar'
  BY <1>2, <1>4, <1>6, <1>8, <1>9 DEF LexedSoFar
<1>11. TokensAsWritten'
  BY <1>9 DEF TokensAsWritten
<1> QED
  BY <1>1, <1>2, <1>3, <1>7, <1>9, <1>10, <1>11 DEF Lexed

LEMMA CharacterLexed ==
  ASSUME Lexed,
         \/ \E ch \in Quotes : OpenQuote(ch) \/ CloseQuote(ch)
         \/ \E ch \in Letters : Letter(ch)
         \/ \E ch \in Chars : Quoted(ch)
  PROVE  Lexed'
<1>1. line \in Seq(Chars) /\ c_value \in Seq(Chars)
  BY DEF Lexed
<1>2. PICK quote : quote = Open(line)[Len(line)]
  OBVIOUS
<1>3. /\ state \in {"START", "IN_WORD"} => Lexing /\ quote = Blank
      /\ state \in Quotes => Lexing /\ quote = state
  BY <1>2, Characters DEF Lexed, Lexing, LexedSoFar
<1>4. ASSUME NEW ch \in Chars, line' = Append(line, ch)
      PROVE  Open(line')[Len(line')] = IF quote = Blank /\ ch \in Quotes THEN ch
                                       ELSE IF quote = ch THEN Blank ELSE quote
  <2>1. PICK t : t = line'
    OBVIOUS
  <2>2. PICK s \in Seq(Chars) : s = line
    BY <1>1
  <2>3. Means(ch, quote, t)
    BY <1>2, <1>4, <2>1, <2>2, CharacterRead
  <2> QED
    BY <2>1, <2>3 DEF Means
<1>5. ASSUME NEW ch \in Quotes, OpenQuote(ch) PROVE Lexed'
  <2>1. /\ ch \in Chars /\ line' = Append(line, ch) /\ state' = ch
        /\ UNCHANGED <<c_value, oTokens>> /\ Lexing /\ quote = Blank
    BY <1>3, <1>5 DEF OpenQuote, Reads, Chars
  <2>2. Open(line')[Len(line')] = ch /\ ch /= Blank /\ ch /= "IN_WORD"
    BY <1>4, <2>1, Characters
  <2>3. ch \notin Operators \union {Blank}
    BY Characters
  <2> QED
    BY <1>2, <2>1, <2>2, <2>3, KeptLexed
<1>6. ASSUME NEW ch \in Quotes, CloseQuote(ch) PROVE Lexed'
  <2>1. /\ ch \in Chars /\ line' = Append(line, ch) /\ state' = "IN_WORD"
        /\ UNCHANGED <<c_value, oTokens>> /\ Lexing /\ quote = ch
    BY <1>3, <1>6 DEF CloseQuote, Reads, Chars
  <2>2. quote /= Blank
    BY <2>1, Characters
  <2>3. Open(line')[Len(line')] = Blank
    BY <1>4, <2>1, <2>2
  <2> QED
    BY <1>2, <2>1, <2>2, <2>3, KeptLexed
<1>7. ASSUME NEW ch \in Letters, Letter(ch) PROVE Lexed'
  <2>1. /\ ch \in Chars /\ line' = Append(line, ch) /\ state' = "IN_WORD"
        /\ UNCHANGED oTokens /\ c_value' = Append(c_value, ch)
        /\ Lexing /\ quote = Blank
    BY <1>3, <1>7 DEF Letter, Collect, Reads, Chars
  <2>2. ch \notin Quotes /\ ch \notin Operators \union {Blank}
    BY Characters
  <2>3. Open(line')[Len(line')] = Blank
    BY <1>4, <2>1, <2>2
  <2> QED
    BY <1>2, <2>1, <2>2, <2>3, KeptLexed
<1>8. ASSUME NEW ch \in Chars, Quoted(ch) PROVE Lexed'
  <2>1. /\ line' = Append(line, ch) /\ state' = state /\ state \in Quotes
        /\ UNCHANGED oTokens /\ c_value' = Append(c_value, ch)
        /\ Lexing /\ quote = state /\ state /= ch
    BY <1>3, <1>8 DEF Quoted, Collect, Reads
  <2>2. quote /= Blank /\ state' /= "IN_WORD"
    BY <2>1, Characters
  <2>3. Open(line')[Len(line')] = quote
    BY <1>4, <2>1, <2>2
  <2> QED
    BY <1>2, <2>1, <2>2, <2>3, KeptLexed
<1> QED
  BY <1>5, <1>6, <1>7, <1>8

LEMMA EndLexed ==
  ASSUME Lexed, EndOfLine
  PROVE  Lexed'
<1>1. /\ line \in Seq(Chars) /\ c_value \in Seq(Chars) /\ oTokens \in Seq(Tokens)
      /\ LexedSoFar /\ line' = line /\ c_value' = <<>>
      /\ oTokens' = oTokens \o PendingWord
      /\ state' = IF state \in Quotes THEN "LEX_QERROR" ELSE "LEX_SUCCESS"
  BY DEF Lexed, EndOfLine
<1>2. PICK word \in Tokens : word = Word(c_value)
  BY <1>1 DEF Word, Tokens
<1>3. /\ Append(oTokens, word) = oTokens \o <<word>>
      /\ Append(oTokens, word) \in Seq(Tokens)
      /\ oTokens \o <<>> = oTokens
  BY <1>1, AppendIsConcat, AppendProperties, ConcatEmptySeq
<1>4. oTokens' \in Seq(Tokens)
  BY <1>1, <1>2, <1>3 DEF PendingWord
<1>5. ~Lexing'
  BY <1>1, Characters DEF Lexing
<1>6. TokensAsWritten'
  <2>1. CASE state \in Quotes
    <3>1. state' = "LEX_QERROR" /\ state /= Blank
      BY <1>1, <2>1, Characters
    <3>2. Open(line)[Len(line)] = state
      BY <1>1, <2>1, Characters DEF LexedSoFar
    <3> QED
      BY <1>1, <3>1, <3>2 DEF TokensAsWritten
  <2>2. CASE state = "START"
    <3>1. Open(line)[Len(line)] = Blank /\ TokensOf(line) = oTokens
      BY <1>1, <2>2 DEF LexedSoFar
    <3>2. oTokens' = oTokens /\ state' = "LEX_SUCCESS"
      BY <1>1, <1>3, <2>2, Characters DEF PendingWord
    <3> QED
      BY <1>1, <3>1, <3>2 DEF TokensAsWritten
  <2>3. CASE state = "IN_WORD"
    <3>1. Open(line)[Len(line)] = Blank /\ TokensOf(line) = Append(oTokens, word)
      BY <1>1, <1>2, <2>3 DEF LexedSoFar
    <3>2. oTokens' = Append(oTokens, word) /\ state' = "LEX_SUCCESS"
      BY <1>1, <1>2, <1>3, <2>3, Characters DEF PendingWord
    <3> QED
      BY <1>1, <3>1, <3>2 DEF TokensAsWritten
  <2> QED
    BY <2>1, <2>2, <2>3 DEF EndOfLine, Lexing
<1>7. c_value' \in Seq(Chars)
  BY <1>1, EmptySeq
<1> QED
  BY <1>1, <1>4, <1>5, <1>6, <1>7 DEF Lexed

LEMMA StepLexed ==
  ASSUME Lexed, [Next]_vars
  PROVE  Lexed'
<1>1. CASE lex_line
  <2>1. CASE \E ch \in Operators \union {Blank} : Separate(ch)
    BY <2>1, SeparateLexed
  <2>2. CASE NoMemory
    BY <2>2 DEF NoMemory, Lexed, Lexing, TokensAsWritten, Quotes
  <2> QED
    BY <1>1, <2>1, <2>2, CharacterLexed, EndLexed DEF lex_line
<1>2. CASE UNCHANGED lexVars
  BY <1>2 DEF Lexed, LexedSoFar, TokensAsWritten, Lexing, lexVars
<1>3. CASE Execute
  <2>1. c_value = <<>>
    BY <1>3 DEF Lexed, Execute, Accepted
  <2>2. /\ line' = <<>> /\ oTokens' = <<>> /\ state' = "START" /\ c_value' = <<>>
    BY <1>3, <2>1 DEF Execute
  <2> QED
    BY <2>2, NothingLexed DEF Lexed, LexedSoFar, TokensAsWritten
<1>4. lex_line \/ UNCHANGED lexVars \/ Execute
  BY DEF Next, Lex, Refuse, Finish, execute_exit, execute_cd, Run, vars
<1> QED
  BY <1>1, <1>2, <1>3, <1>4

LEMMA LexerInvariance == Spec => []Lexed
<1>1. Init => Lexed
  BY NothingLexed DEF Init, LexInit, Lexed, LexedSoFar, TokensAsWritten
<1>2. Lexed /\ [Next]_vars => Lexed'
  BY StepLexed
<1> QED
  BY <1>1, <1>2, PTL DEF Spec

(* The lexer finds the words and operators that are written on the line,   *)
(* of any length and over any alphabet, or reports an open quote.          *)
THEOREM LinesUnderstood == Spec => []TokensAsWritten
<1>1. Lexed => TokensAsWritten
  BY DEF Lexed
<1> QED
  BY <1>1, LexerInvariance, PTL
-----------------------------------------------------------------------------
(* The parser: where the pipes cut a line into commands.                   *)
Cut(b, c) ==
  /\ c \in Seq(Nat) /\ Len(c) > 1 /\ c[1] = 0 /\ c[Len(c)] = Len(b) + 1
  /\ \A i, j \in 1 .. Len(c) : i < j => c[i] < c[j]
  /\ \A i \in 2 .. Len(c) - 1 : c[i] \in 1 .. Len(b) /\ b[c[i]].type = "|"
  /\ \A x \in 1 .. Len(b) : b[x].type = "|" => \E i \in 2 .. Len(c) - 1 : c[i] = x

LEMMA CutsAre ==
  ASSUME NEW b \in Seq(Tokens)
  PROVE  /\ Cut(b, InOrder(Cuts(b)))
         /\ IsFiniteSet(Cuts(b)) /\ Len(InOrder(Cuts(b))) = Cardinality(Cuts(b))
<1>1. PICK n \in Nat : n = Len(b)
  BY LenProperties
<1>2. PICK S : S = Cuts(b)
  OBVIOUS
<1>3. S = {i \in 1 .. n : b[i].type = "|"} \union {0, n + 1}
  BY <1>1, <1>2 DEF Cuts
<1>4. S \in SUBSET (0 .. n + 1) /\ 0 \in S /\ n + 1 \in S
  BY <1>3
<1>5. S \in SUBSET Nat /\ IsFiniteSet(S)
  <2>1. S \in SUBSET Nat
    BY <1>4
  <2> QED
    BY <1>4, <2>1, UpToFinite
<1>6. PICK c : c = InOrder(S)
  OBVIOUS
<1>7. PICK N \in Nat : N = Cardinality(S)
  BY <1>5, InOrderIs
<1>8. /\ c \in Seq(S) /\ Len(c) = N
      /\ \A i \in 1 .. N : c[i] \in S
      /\ \A x \in S : \E i \in 1 .. N : c[i] = x
      /\ \A i, j \in 1 .. N : i < j => c[i] < c[j]
  BY <1>5, <1>6, <1>7, InOrderIs
<1>9. c \in Seq(Nat)
  BY <1>5, <1>8, SeqMonotonic
<1>10. PICK first \in 1 .. N : c[first] = 0
  BY <1>4, <1>8
<1>11. PICK last \in 1 .. N : c[last] = n + 1
  BY <1>4, <1>8
<1>12. \A i \in 1 .. N : c[i] \in 0 .. n + 1
  BY <1>4, <1>8
<1>13. first = 1
  <2>1. ASSUME first > 1 PROVE FALSE
    <3>1. 1 \in 1 .. N /\ c[1] < c[first]
      BY <1>8, <2>1
    <3> QED
      BY <1>10, <1>12, <3>1
  <2> QED
    BY <2>1
<1>14. last = N
  <2>1. ASSUME last < N PROVE FALSE
    <3>1. N \in 1 .. N /\ c[last] < c[N]
      BY <1>8, <2>1
    <3> QED
      BY <1>11, <1>12, <3>1
  <2> QED
    BY <2>1
<1>15. N > 1
  BY <1>10, <1>11, <1>13, <1>14
<1>16. ASSUME NEW i \in 2 .. N - 1 PROVE c[i] \in 1 .. n /\ b[c[i]].type = "|"
  <2>1. i \in 1 .. N /\ 1 \in 1 .. N /\ N \in 1 .. N /\ 1 < i /\ i < N
    OBVIOUS
  <2>2. c[1] < c[i] /\ c[i] < c[N] /\ c[i] \in S /\ c[i] \in 0 .. n + 1
    BY <1>8, <1>12, <2>1
  <2>3. c[i] /= 0 /\ c[i] /= n + 1
    BY <1>10, <1>11, <1>13, <1>14, <2>2
  <2> QED
    BY <1>3, <2>2, <2>3
<1>17. ASSUME NEW x \in 1 .. n, b[x].type = "|"
       PROVE  \E i \in 2 .. N - 1 : c[i] = x
  <2>1. PICK i \in 1 .. N : c[i] = x
    BY <1>3, <1>8, <1>17
  <2>2. i /= 1 /\ i /= N
    BY <1>10, <1>11, <1>13, <1>14, <2>1
  <2>3. i \in 2 .. N - 1
    BY <2>2
  <2> QED
    BY <2>1, <2>3
<1>18. Cut(b, c)
  <2>1. c[1] = 0 /\ c[N] = n + 1
    BY <1>10, <1>11, <1>13, <1>14
  <2> QED
    BY <1>1, <1>8, <1>9, <1>15, <1>16, <1>17, <2>1 DEF Cut
<1> QED
  BY <1>2, <1>5, <1>6, <1>7, <1>8, <1>18

(* Every other token is in one command.                                    *)
LEMMA Placed ==
  ASSUME NEW b \in Seq(Tokens), NEW c, Cut(b, c),
         NEW i \in 1 .. Len(b), b[i].type /= "|"
  PROVE  \E m \in 1 .. Len(c) - 1 : c[m] < i /\ i < c[m + 1]
<1>1. PICK N \in Nat : N = Len(c)
  BY LenProperties DEF Cut
<1>2. /\ N > 1 /\ c[1] = 0 /\ c[N] = Len(b) + 1 /\ Len(b) \in Nat
      /\ \A j \in 1 .. N : c[j] \in Nat
  BY <1>1, LenProperties, ElementOfSeq DEF Cut
<1> DEFINE T == {j \in 1 .. N : i < c[j]}
<1>3. T \in SUBSET Nat /\ T /= {}
  <2>1. N \in T
    BY <1>2
  <2> QED
    BY <2>1
<1>4. PICK j \in T : \A l \in T : j <= l
  <2> HIDE DEF T
  <2> QED
    BY <1>3, Least
<1>5. j \in 1 .. N /\ i < c[j] /\ j /= 1
  BY <1>2, <1>4
<1>6. PICK m \in 1 .. N - 1 : m + 1 = j
  <2>1. j - 1 \in 1 .. N - 1 /\ (j - 1) + 1 = j
    BY <1>5
  <2> QED
    BY <2>1
<1>7. m \in 1 .. N /\ m < j /\ c[m] \in Nat
  BY <1>2, <1>6
<1>8. ~(i < c[m])
  <2>1. m \notin T
    BY <1>4, <1>5, <1>7
  <2> QED
    BY <1>7, <2>1
<1>9. c[m] /= i
  <2>1. CASE m = 1
    BY <1>2, <2>1
  <2>2. CASE m /= 1
    <3>1. m \in 2 .. N - 1
      BY <2>2
    <3>2. b[c[m]].type = "|"
      BY <1>1, <3>1 DEF Cut
    <3> QED
      BY <3>2
  <2> QED
    BY <2>1, <2>2
<1>10. c[m] < i /\ i < c[m + 1]
  BY <1>5, <1>6, <1>7, <1>8, <1>9
<1> QED
  BY <1>1, <1>10

(* The commands are what is between the cuts.                              *)
Parts(b, c, parts) ==
  /\ DOMAIN parts = 1 .. Len(c) - 1 /\ Len(parts) = Len(c) - 1
  /\ \A m \in 1 .. Len(c) - 1 :
       /\ parts[m] \in Seq(Tokens)
       /\ Len(parts[m]) = c[m + 1] - c[m] - 1
       /\ \A j \in 1 .. Len(parts[m]) :
            /\ c[m] + j \in 1 .. Len(b) /\ c[m] + j < c[m + 1]
            /\ parts[m][j] = b[c[m] + j]

LEMMA PartsAre ==
  ASSUME NEW b \in Seq(Tokens)
  PROVE  Parts(b, InOrder(Cuts(b)), Commands(b))
<1>1. PICK c : c = InOrder(Cuts(b))
  OBVIOUS
<1>2. Cut(b, c)
  BY <1>1, CutsAre
<1>3. PICK N \in Nat : N = Len(c)
  BY <1>2, LenProperties DEF Cut
<1>4. /\ N > 1 /\ c[N] = Len(b) + 1 /\ Len(b) \in Nat
      /\ \A j \in 1 .. N : c[j] \in Nat
      /\ \A i, j \in 1 .. N : i < j => c[i] < c[j]
  BY <1>2, <1>3, LenProperties, ElementOfSeq DEF Cut
<1>5. PICK parts : parts = Commands(b)
  OBVIOUS
<1>6. parts = [i \in 1 .. N - 1 |-> SubSeq(b, c[i] + 1, c[i + 1] - 1)]
  BY <1>1, <1>3, <1>5 DEF Commands
<1>7. DOMAIN parts = 1 .. N - 1 /\ Len(parts) = N - 1
  BY <1>4, <1>6
<1>8. ASSUME NEW m \in 1 .. N - 1
      PROVE  /\ parts[m] \in Seq(Tokens)
             /\ Len(parts[m]) = c[m + 1] - c[m] - 1
             /\ \A j \in 1 .. Len(parts[m]) :
                  /\ c[m] + j \in 1 .. Len(b) /\ c[m] + j < c[m + 1]
                  /\ parts[m][j] = b[c[m] + j]
  <2>1. m \in 1 .. N /\ m + 1 \in 1 .. N /\ N \in 1 .. N
    OBVIOUS
  <2>2. PICK x \in Nat : x = c[m]
    BY <1>4, <2>1
  <2>3. PICK y \in Nat : y = c[m + 1]
    BY <1>4, <2>1
  <2>4. x < y
    BY <1>4, <2>1, <2>2, <2>3
  <2>5. y <= Len(b) + 1
    <3>1. m + 1 < N \/ m + 1 = N
      OBVIOUS
    <3>2. m + 1 < N => y < c[N]
      BY <1>4, <2>1, <2>3
    <3> QED
      BY <1>4, <2>3, <3>1, <3>2
  <2>6. parts[m] = SubSeq(b, x + 1, y - 1)
    BY <1>6, <2>2, <2>3
  <2>7. \A i \in x + 1 .. y - 1 : i \in 1 .. Len(b)
    BY <1>4, <2>5
  <2>8. \A i \in x + 1 .. y - 1 : b[i] \in Tokens
    BY <2>7, ElementOfSeq
  <2>9. x + 1 \in Int /\ y - 1 \in Int
    OBVIOUS
  <2>10. PICK lo \in Int : lo = x + 1
    BY <2>9
  <2>11. PICK hi \in Int : hi = y - 1
    BY <2>9
  <2>12. /\ SubSeq(b, lo, hi) \in Seq(Tokens)
         /\ Len(SubSeq(b, lo, hi)) = IF lo <= hi THEN hi - lo + 1 ELSE 0
         /\ \A i \in 1 .. hi - lo + 1 : SubSeq(b, lo, hi)[i] = b[lo + i - 1]
    <3>1. \A i \in lo .. hi : b[i] \in Tokens
      BY <2>8, <2>10, <2>11
    <3> QED
      BY <3>1, SubSeqProperties
  <2>13. hi - lo + 1 = y - x - 1 /\ (lo <= hi \/ y - x - 1 = 0)
    BY <2>4, <2>10, <2>11
  <2>14. parts[m] \in Seq(Tokens) /\ Len(parts[m]) = y - x - 1
    BY <2>6, <2>10, <2>11, <2>12, <2>13
  <2>15. ASSUME NEW j \in 1 .. y - x - 1
         PROVE  x + j \in 1 .. Len(b) /\ x + j < y /\ parts[m][j] = b[x + j]
    <3>1. x + j \in x + 1 .. y - 1 /\ lo + j - 1 = x + j
      BY <2>10
    <3>2. j \in 1 .. hi - lo + 1
      BY <2>13
    <3> QED
      BY <2>6, <2>7, <2>10, <2>11, <2>12, <3>1, <3>2
  <2> QED
    BY <2>2, <2>3, <2>14, <2>15
<1>9. Parts(b, c, parts)
  BY <1>3, <1>7, <1>8 DEF Parts
<1> QED
  BY <1>1, <1>5, <1>9
-----------------------------------------------------------------------------
(* What is right with the i-th token.                                      *)
Sound(ts, i) ==
  LET t == ts[i].type IN
  /\ i = 1 => t = "word"
  /\ i > 1 =>
       /\ t \in {"|", ">"} => ~Before(ts, i, ">")
       /\ t = "<" => ~Before(ts, i, "|") /\ ~Before(ts, i, "<")
       /\ t \in {"|", "<", ">"} => WordFollows(ts, i)
       /\ t = "&" => ~(i < Len(ts))

LEMMA FaultIs ==
  ASSUME NEW ts, NEW i \in 1 .. Len(ts), ts[i].type \in {"word"} \union Operators
  PROVE  Fault(ts, i) = "SUCCESS" <=> Sound(ts, i)
<1>1. PICK t : t = ts[i].type
  OBVIOUS
<1>2. PICK out \in BOOLEAN : out <=> Before(ts, i, ">")
  OBVIOUS
<1>3. PICK in \in BOOLEAN : in <=> Before(ts, i, "<")
  OBVIOUS
<1>4. PICK piped \in BOOLEAN : piped <=> Before(ts, i, "|")
  OBVIOUS
<1>5. PICK named \in BOOLEAN : named <=> WordFollows(ts, i)
  OBVIOUS
<1>6. PICK ended \in BOOLEAN : ended <=> ~(i < Len(ts))
  OBVIOUS
<1>7. Fault(ts, i) =
        CASE i = 1 /\ t /= "word" -> "NOCMD"
          [] i > 1 /\ t \in {"|", ">"} /\ out -> "MULTREDOUT"
          [] i > 1 /\ t = "|" /\ ~named -> "NOCMD"
          [] i > 1 /\ t = "<" /\ (piped \/ in) -> "MULTREDIN"
          [] i > 1 /\ t = "<" /\ ~named -> "NODESTIN"
          [] i > 1 /\ t = ">" /\ ~named -> "NODESTOUT"
          [] i > 1 /\ t = "&" /\ ~ended -> "INVALIDBG"
          [] OTHER -> "SUCCESS"
  BY <1>1, <1>2, <1>3, <1>4, <1>5, <1>6 DEF Fault
<1>8. Sound(ts, i) <=>
        /\ i = 1 => t = "word"
        /\ i > 1 =>
             /\ t \in {"|", ">"} => ~out
             /\ t = "<" => ~piped /\ ~in
             /\ t \in {"|", "<", ">"} => named
             /\ t = "&" => ended
  BY <1>1, <1>2, <1>3, <1>4, <1>5, <1>6 DEF Sound
<1>9. t \in {"word", "|", "&", "<", ">"} /\ (i = 1 \/ i > 1) /\ ~(i = 1 /\ i > 1)
  BY <1>1 DEF Operators
<1> QED
  BY <1>7, <1>8, <1>9

LEMMA CheckIs ==
  ASSUME NEW ts \in Seq(Tokens)
  PROVE  syntax_check(ts) = "SUCCESS" <=> \A i \in 1 .. Len(ts) : Sound(ts, i)
<1>1. DOMAIN ts = 1 .. Len(ts) /\ Len(ts) \in Nat
  BY LenProperties
<1>2. ASSUME NEW i \in 1 .. Len(ts)
      PROVE  Fault(ts, i) = "SUCCESS" <=> Sound(ts, i)
  <2>1. ts[i] \in Tokens
    BY ElementOfSeq
  <2>2. ts[i].type \in {"word"} \union Operators
    BY <2>1 DEF Tokens
  <2> QED
    BY <2>2, FaultIs
<1> DEFINE wrong == {i \in 1 .. Len(ts) : Fault(ts, i) /= "SUCCESS"}
<1>3. syntax_check(ts) =
        IF wrong = {} THEN "SUCCESS"
        ELSE Fault(ts, CHOOSE i \in wrong : \A j \in wrong : i <= j)
  BY <1>1 DEF syntax_check
<1>4. wrong = {} <=> \A i \in 1 .. Len(ts) : Sound(ts, i)
  BY <1>2
<1>5. CASE wrong /= {}
  <2>1. wrong \in SUBSET Nat
    BY <1>1
  <2>2. PICK i : i = CHOOSE x \in wrong : \A j \in wrong : x <= j
    OBVIOUS
  <2>3. i \in wrong
    <3> HIDE DEF wrong
    <3>1. \E x \in wrong : \A j \in wrong : x <= j
      BY <1>5, <2>1, Least
    <3> QED
      BY <2>2, <3>1
  <2>4. Fault(ts, i) /= "SUCCESS"
    BY <2>3
  <2>5. syntax_check(ts) = Fault(ts, i)
    <3> HIDE DEF wrong
    <3> QED
      BY <1>3, <1>5, <2>2, Zenon
  <2> QED
    BY <1>4, <1>5, <2>4, <2>5
<1>6. CASE wrong = {}
  <2> HIDE DEF wrong
  <2> QED
    BY <1>3, <1>4, <1>6
<1> QED
  BY <1>5, <1>6

(* What the grammar asks of the tokens, at their places on the line.       *)
Ordered(b, i) ==
  /\ b[i].type = "<" => ~Before(b, i, "|") /\ ~Before(b, i, "<")
  /\ b[i].type \in {"|", ">"} => ~Before(b, i, ">")
WellFormed(b) ==
  /\ WordFollows(b, 0)
  /\ \A i \in 1 .. Len(b) : /\ b[i].type \in {"|", "<", ">"} => WordFollows(b, i)
                            /\ Ordered(b, i)
                            /\ b[i].type /= "&"

(* & at the end is set aside.                                              *)
LEMMA BodyIs ==
  ASSUME NEW ts \in Seq(Tokens), ts /= <<>>
  PROVE  /\ Body(ts) \in Seq(Tokens) /\ Len(Body(ts)) \in Nat
         /\ \A i \in 1 .. Len(Body(ts)) : i \in 1 .. Len(ts) /\ Body(ts)[i] = ts[i]
         /\ IF ts[Len(ts)].type = "&" THEN Len(ts) = Len(Body(ts)) + 1
            ELSE Body(ts) = ts
<1>1. PICK n \in Nat : n = Len(ts) /\ n > 0
  BY EmptySeq, LenProperties
<1>2. CASE ts[n].type /= "&"
  BY <1>1, <1>2, LenProperties DEF Body, Last
<1>3. CASE ts[n].type = "&"
  <2>1. PICK hi \in Nat : hi = n - 1
    BY <1>1
  <2>2. Body(ts) = SubSeq(ts, 1, hi)
    BY <1>1, <1>3, <2>1 DEF Body, Last, Front
  <2>3. \A i \in 1 .. hi : i \in 1 .. Len(ts) /\ ts[i] \in Tokens
    <3>1. \A i \in 1 .. hi : i \in 1 .. Len(ts)
      BY <1>1, <2>1
    <3> QED
      BY <3>1, ElementOfSeq
  <2>4. /\ SubSeq(ts, 1, hi) \in Seq(Tokens)
        /\ Len(SubSeq(ts, 1, hi)) = IF 1 <= hi THEN hi - 1 + 1 ELSE 0
        /\ \A i \in 1 .. hi - 1 + 1 : SubSeq(ts, 1, hi)[i] = ts[1 + i - 1]
    BY <2>3, SubSeqProperties
  <2>5. Len(SubSeq(ts, 1, hi)) = hi
    BY <2>4
  <2>6. \A i \in 1 .. hi : SubSeq(ts, 1, hi)[i] = ts[i]
    BY <2>4
  <2> QED
    BY <1>1, <1>3, <2>1, <2>2, <2>3, <2>4, <2>5, <2>6
<1> QED
  BY <1>1, <1>2, <1>3

LEMMA SoundLine ==
  ASSUME NEW ts \in Seq(Tokens), ts /= <<>>
  PROVE  (\A i \in 1 .. Len(ts) : Sound(ts, i)) <=> WellFormed(Body(ts))
<1>1. PICK L \in Nat : L = Len(ts) /\ L > 0
  BY EmptySeq, LenProperties
<1>2. PICK b : b = Body(ts)
  OBVIOUS
<1>3. PICK n \in Nat : n = Len(b)
  BY <1>2, BodyIs
<1>4. /\ \A i \in 1 .. n : i \in 1 .. L /\ b[i] = ts[i]
      /\ (n = L /\ ts[L].type /= "&") \/ (n + 1 = L /\ ts[L].type = "&")
  BY <1>1, <1>2, <1>3, BodyIs
<1>5. ASSUME NEW i \in 1 .. n, NEW type
      PROVE  Before(b, i, type) <=> Before(ts, i, type)
  <2>1. \A j \in 1 .. i - 1 : j \in 1 .. n
    BY <1>3
  <2> QED
    BY <1>4, <2>1 DEF Before
<1>6. ASSUME NEW i \in 0 .. n
      PROVE  WordFollows(b, i) <=> (i < L /\ ts[i + 1].type = "word")
  <2>1. CASE i < n
    <3>1. i + 1 \in 1 .. n /\ i < L
      BY <1>4, <2>1
    <3> QED
      BY <1>3, <1>4, <2>1, <3>1 DEF WordFollows
  <2>2. CASE i = n
    BY <1>3, <1>4, <2>2 DEF WordFollows
  <2> QED
    BY <2>1, <2>2
<1>7. \A i \in 1 .. n : Ordered(b, i) <=> Ordered(ts, i)
  BY <1>4, <1>5 DEF Ordered
<1>8. ASSUME \A i \in 1 .. L : Sound(ts, i)
      PROVE  WellFormed(b)
  <2>1. ts[1].type = "word"
    BY <1>1, <1>8 DEF Sound
  <2>2. WordFollows(b, 0)
    <3>1. 0 < L /\ ts[0 + 1].type = "word" /\ 0 \in 0 .. n
      BY <1>1, <2>1
    <3> QED
      BY <1>6, <3>1
  <2>3. ASSUME NEW i \in 1 .. n
        PROVE  /\ b[i].type \in {"|", "<", ">"} => WordFollows(b, i)
               /\ Ordered(b, i) /\ b[i].type /= "&"
    <3>1. i \in 1 .. L /\ b[i] = ts[i] /\ Sound(ts, i) /\ i \in 0 .. n
      BY <1>4, <1>8
    <3>2. CASE i = 1
      BY <2>1, <3>1, <3>2 DEF Ordered
    <3>3. CASE i > 1
      <4>1. Ordered(ts, i) /\ (ts[i].type \in {"|", "<", ">"} => WordFollows(ts, i))
        BY <3>1, <3>3 DEF Sound, Ordered
      <4>2. ts[i].type /= "&"
        BY <1>1, <1>4, <3>1, <3>3 DEF Sound
      <4> QED
        BY <1>1, <1>6, <1>7, <3>1, <4>1, <4>2 DEF WordFollows
    <3> QED
      BY <3>2, <3>3
  <2> QED
    BY <1>3, <2>2, <2>3 DEF WellFormed
<1>9. ASSUME WellFormed(b), NEW i \in 1 .. L
      PROVE  Sound(ts, i)
  <2>1. ts[1].type = "word" /\ n > 0
    <3>1. 0 \in 0 .. n /\ 0 + 1 = 1
      OBVIOUS
    <3>2. WordFollows(b, 0)
      BY <1>9 DEF WellFormed
    <3> QED
      BY <1>3, <1>6, <3>1, <3>2 DEF WordFollows
  <2>2. CASE i \in 1 .. n
    <3>1. /\ b[i] = ts[i] /\ i \in 0 .. n /\ Ordered(b, i) /\ b[i].type /= "&"
          /\ b[i].type \in {"|", "<", ">"} => WordFollows(b, i)
      BY <1>3, <1>4, <1>9, <2>2 DEF WellFormed
    <3>2. Ordered(ts, i)
      BY <1>7, <2>2, <3>1
    <3>3. ts[i].type \in {"|", "<", ">"} => WordFollows(ts, i)
      BY <1>1, <1>6, <3>1 DEF WordFollows
    <3> QED
      BY <2>1, <3>1, <3>2, <3>3 DEF Sound, Ordered
  <2>3. CASE i \notin 1 .. n
    <3>1. i = L /\ ts[i].type = "&" /\ i > 1 /\ ~(i < L)
      BY <1>4, <2>1, <2>3
    <3> QED
      BY <1>1, <3>1 DEF Sound
  <2> QED
    BY <2>2, <2>3
<1> QED
  BY <1>1, <1>2, <1>8, <1>9
-----------------------------------------------------------------------------
(* The grammar asks the same of the commands as of the line they are on.   *)
At(b, c, m, j, i) ==
  /\ m \in 1 .. Len(c) - 1 /\ j \in Nat /\ j > 0
  /\ i = c[m] + j /\ i \in 1 .. Len(b) /\ c[m] < i /\ i < c[m + 1]

LEMMA PartOf ==
  ASSUME NEW b \in Seq(Tokens), NEW c, NEW parts, Cut(b, c), Parts(b, c, parts),
         NEW m \in 1 .. Len(c) - 1, NEW j \in 1 .. Len(parts[m])
  PROVE  At(b, c, m, j, c[m] + j) /\ parts[m][j] = b[c[m] + j]
<1>1. PICK N \in Nat : N = Len(c)
  BY LenProperties DEF Cut
<1>2. m \in 1 .. N
  BY <1>1
<1>3. c[m] \in Nat
  BY <1>1, <1>2, ElementOfSeq DEF Cut
<1>4. Len(parts[m]) \in Nat
  BY LenProperties DEF Parts
<1>5. j \in Nat /\ j > 0 /\ c[m] < c[m] + j
  BY <1>3, <1>4
<1> QED
  BY <1>5 DEF At, Parts

LEMMA PlaceOf ==
  ASSUME NEW b \in Seq(Tokens), NEW c, NEW parts, Cut(b, c), Parts(b, c, parts),
         NEW i \in 1 .. Len(b), b[i].type /= "|"
  PROVE  \E m \in 1 .. Len(c) - 1 : \E j \in 1 .. Len(parts[m]) :
           At(b, c, m, j, i) /\ parts[m][j] = b[i]
<1>1. PICK m \in 1 .. Len(c) - 1 : c[m] < i /\ i < c[m + 1]
  BY Placed
<1>2. PICK N \in Nat : N = Len(c)
  BY LenProperties DEF Cut
<1>3. m \in 1 .. N /\ m + 1 \in 1 .. N
  BY <1>2
<1>4. c[m] \in Nat /\ c[m + 1] \in Nat /\ Len(b) \in Nat
  BY <1>2, <1>3, ElementOfSeq, LenProperties DEF Cut
<1>5. PICK j \in Nat : j = i - c[m]
  BY <1>1, <1>4
<1>6. j > 0 /\ c[m] + j = i /\ j <= c[m + 1] - c[m] - 1
  BY <1>1, <1>4, <1>5
<1>7. Len(parts[m]) = c[m + 1] - c[m] - 1
  BY DEF Parts
<1>8. j \in 1 .. Len(parts[m])
  BY <1>4, <1>5, <1>6, <1>7
<1>9. At(b, c, m, j, c[m] + j) /\ parts[m][j] = b[c[m] + j]
  BY <1>8, PartOf
<1> QED
  BY <1>6, <1>8, <1>9

(* A cut is before the command or after it.                                *)
LEMMA CutAround ==
  ASSUME NEW b \in Seq(Tokens), NEW c, Cut(b, c), NEW m, NEW j, NEW i,
         At(b, c, m, j, i), NEW l \in 1 .. Len(c)
  PROVE  /\ l <= m <=> c[l] < i
         /\ l > m <=> i < c[l]
         /\ c[l] /= i
<1>1. PICK N \in Nat : N = Len(c)
  BY LenProperties DEF Cut
<1>2. /\ m \in 1 .. N /\ m + 1 \in 1 .. N /\ l \in 1 .. N /\ m \in Nat /\ l \in Nat
      /\ Len(b) \in Nat
  <2>1. m \in 1 .. N - 1
    BY <1>1 DEF At
  <2>2. Len(b) \in Nat
    BY LenProperties
  <2> QED
    BY <1>1, <2>1, <2>2
<1>3. /\ c[m] \in Nat /\ c[m + 1] \in Nat /\ c[l] \in Nat /\ i \in Nat
      /\ c[m] < i /\ i < c[m + 1]
  <2>1. c \in Seq(Nat)
    BY DEF Cut
  <2>2. c[m] \in Nat /\ c[m + 1] \in Nat /\ c[l] \in Nat
    BY <1>1, <1>2, <2>1, ElementOfSeq
  <2>3. i \in 1 .. Len(b) /\ c[m] < i /\ i < c[m + 1]
    BY DEF At
  <2> QED
    BY <1>2, <2>2, <2>3
<1>4. l < m => c[l] < c[m]
  BY <1>1, <1>2 DEF Cut
<1>5. m + 1 < l => c[m + 1] < c[l]
  BY <1>1, <1>2 DEF Cut
<1>6. CASE l <= m
  <2>1. l < m \/ l = m
    BY <1>2, <1>6
  <2>2. c[l] < i
    BY <1>3, <1>4, <2>1
  <2> QED
    BY <1>2, <1>3, <1>6, <2>2
<1>7. CASE l > m
  <2>1. m + 1 < l \/ m + 1 = l
    BY <1>2, <1>7
  <2>2. i < c[l]
    BY <1>3, <1>5, <2>1
  <2> QED
    BY <1>2, <1>3, <1>7, <2>2
<1> QED
  BY <1>2, <1>6, <1>7

LEMMA NotThePipe ==
  ASSUME NEW b \in Seq(Tokens), NEW c, Cut(b, c), NEW m, NEW j, NEW i,
         At(b, c, m, j, i)
  PROVE  b[i].type /= "|"
<1>1. SUFFICES ASSUME b[i].type = "|" PROVE FALSE
  OBVIOUS
<1>2. i \in 1 .. Len(b)
  BY DEF At
<1>3. PICK l \in 2 .. Len(c) - 1 : c[l] = i
  BY <1>1, <1>2 DEF Cut
<1>4. PICK N \in Nat : N = Len(c)
  BY LenProperties DEF Cut
<1>5. l \in 1 .. Len(c)
  BY <1>4
<1> QED
  BY <1>3, <1>5, CutAround

LEMMA FollowsInPart ==
  ASSUME NEW b \in Seq(Tokens), NEW c, NEW parts, Cut(b, c), Parts(b, c, parts),
         NEW m \in 1 .. Len(c) - 1, NEW j \in 0 .. Len(parts[m])
  PROVE  WordFollows(parts[m], j) <=> WordFollows(b, c[m] + j)
<1>1. PICK N \in Nat : N = Len(c)
  BY LenProperties DEF Cut
<1>2. m \in 1 .. N /\ m + 1 \in 1 .. N
  BY <1>1
<1>3. PICK n \in Nat : n = Len(b)
  BY LenProperties
<1>4. PICK w \in Nat : w = Len(parts[m])
  BY LenProperties DEF Parts
<1>5. c[m] \in Nat /\ c[m + 1] \in Nat
  BY <1>1, <1>2, ElementOfSeq DEF Cut
<1>6. w = c[m + 1] - c[m] - 1
  BY <1>4 DEF Parts
<1>7. CASE j < w
  <2>1. j + 1 \in 1 .. Len(parts[m])
    BY <1>4, <1>7
  <2>2. parts[m][j + 1] = b[c[m] + (j + 1)] /\ c[m] + (j + 1) \in 1 .. Len(b)
    BY <2>1 DEF Parts
  <2>3. c[m] + (j + 1) = c[m] + j + 1 /\ c[m] + j < n
    <3>1. PICK x \in Nat : x = c[m]
      BY <1>5
    <3>2. j \in Nat /\ x + (j + 1) <= n
      BY <1>3, <1>4, <2>2, <3>1
    <3>3. x + (j + 1) = x + j + 1 /\ x + j < n
      BY <1>3, <3>2
    <3> QED
      BY <3>1, <3>3
  <2> QED
    BY <1>3, <1>4, <1>7, <2>2, <2>3 DEF WordFollows
<1>8. CASE j = w
  <2>1. c[m] + j + 1 = c[m + 1]
    BY <1>4, <1>5, <1>6, <1>8
  <2>2. ~WordFollows(parts[m], j)
    BY <1>4, <1>8 DEF WordFollows
  <2>3. CASE m + 1 = N
    <3>1. c[m + 1] = n + 1
      BY <1>1, <1>3, <2>3 DEF Cut
    <3>2. c[m] + j = n
      BY <1>3, <1>4, <1>5, <2>1, <3>1
    <3> QED
      BY <1>3, <2>2, <3>2 DEF WordFollows
  <2>4. CASE m + 1 /= N
    <3>1. m + 1 \in 2 .. Len(c) - 1
      BY <1>1, <2>4
    <3>2. b[c[m + 1]].type = "|"
      BY <3>1 DEF Cut
    <3> QED
      BY <2>1, <2>2, <3>2 DEF WordFollows
  <2> QED
    BY <2>3, <2>4
<1>9. j < w \/ j = w
  BY <1>4
<1> QED
  BY <1>7, <1>8, <1>9

LEMMA CommandIs ==
  ASSUME NEW one \in Seq(Tokens)
  PROVE  IsCommand(one) <=>
           /\ WordFollows(one, 0)
           /\ \A j \in 1 .. Len(one) :
                one[j].type \in {"<", ">"} => WordFollows(one, j)
<1>1. PICK w \in Nat : w = Len(one)
  BY LenProperties
<1>2. DOMAIN one = 1 .. w
  BY <1>1, LenProperties
<1>3. one /= <<>> <=> 0 < w
  BY <1>1, EmptySeq
<1>4. 0 + 1 = 1
  OBVIOUS
<1>5. WordFollows(one, 0) <=> one /= <<>> /\ one[1].type = "word"
  BY <1>1, <1>3, <1>4 DEF WordFollows
<1> QED
  BY <1>1, <1>2, <1>5 DEF IsCommand

LEMMA CommandsSound ==
  ASSUME NEW b \in Seq(Tokens), NEW c, NEW parts, Cut(b, c), Parts(b, c, parts)
  PROVE  (\A m \in 1 .. Len(c) - 1 : IsCommand(parts[m])) <=>
           /\ WordFollows(b, 0)
           /\ \A i \in 1 .. Len(b) :
                b[i].type \in {"|", "<", ">"} => WordFollows(b, i)
<1>1. PICK N \in Nat : N = Len(c) /\ N > 1
  BY LenProperties DEF Cut
<1>2. \A m \in 1 .. N : c[m] \in Nat
  BY <1>1, ElementOfSeq DEF Cut
<1>3. \A m \in 1 .. N - 1 : parts[m] \in Seq(Tokens) /\ Len(parts[m]) \in Nat
  BY <1>1, LenProperties DEF Parts
<1>4. c[1] = 0 /\ 1 \in 1 .. N - 1
  BY <1>1 DEF Cut
<1>5. ASSUME NEW m \in 1 .. N - 1
      PROVE  WordFollows(parts[m], 0) <=> WordFollows(b, c[m])
  <2>1. 0 \in 0 .. Len(parts[m])
    BY <1>3
  <2>2. WordFollows(parts[m], 0) <=> WordFollows(b, c[m] + 0)
    BY <1>1, <2>1, FollowsInPart
  <2>3. m \in 1 .. N
    OBVIOUS
  <2>4. c[m] + 0 = c[m]
    BY <1>2, <2>3
  <2> QED
    BY <2>2, <2>4
<1>6. ASSUME \A m \in 1 .. N - 1 : IsCommand(parts[m])
      PROVE  /\ WordFollows(b, 0)
             /\ \A i \in 1 .. Len(b) :
                  b[i].type \in {"|", "<", ">"} => WordFollows(b, i)
  <2>1. \A m \in 1 .. N - 1 : WordFollows(b, c[m])
    BY <1>3, <1>5, <1>6, CommandIs
  <2>2. ASSUME NEW i \in 1 .. Len(b), b[i].type = "|"
        PROVE  WordFollows(b, i)
    <3>1. PICK l \in 2 .. N - 1 : c[l] = i
      BY <1>1, <2>2 DEF Cut
    <3>2. l \in 1 .. N - 1
      OBVIOUS
    <3> QED
      BY <2>1, <3>1, <3>2
  <2>3. ASSUME NEW i \in 1 .. Len(b), b[i].type \in {"<", ">"}
        PROVE  WordFollows(b, i)
    <3>1. b[i].type /= "|"
      BY <2>3
    <3>2. PICK m \in 1 .. N - 1 : \E j \in 1 .. Len(parts[m]) :
            At(b, c, m, j, i) /\ parts[m][j] = b[i]
      BY <1>1, <3>1, PlaceOf
    <3>3. PICK j \in 1 .. Len(parts[m]) : At(b, c, m, j, i) /\ parts[m][j] = b[i]
      BY <3>2
    <3>4. WordFollows(parts[m], j)
      BY <1>3, <1>6, <2>3, <3>3, CommandIs
    <3>5. j \in 0 .. Len(parts[m])
      BY <1>3
    <3>6. WordFollows(b, c[m] + j)
      BY <1>1, <3>4, <3>5, FollowsInPart
    <3> QED
      BY <3>3, <3>6 DEF At
  <2> QED
    BY <1>4, <2>1, <2>2, <2>3
<1>7. ASSUME WordFollows(b, 0),
             \A i \in 1 .. Len(b) :
               b[i].type \in {"|", "<", ">"} => WordFollows(b, i),
             NEW m \in 1 .. N - 1
      PROVE  IsCommand(parts[m])
  <2>1. WordFollows(b, c[m])
    <3>1. CASE m = 1
      BY <1>4, <1>7, <3>1
    <3>2. CASE m /= 1
      <4>1. m \in 2 .. Len(c) - 1
        BY <1>1, <3>2
      <4>2. c[m] \in 1 .. Len(b) /\ b[c[m]].type = "|"
        BY <4>1 DEF Cut
      <4> QED
        BY <1>7, <4>2
    <3> QED
      BY <3>1, <3>2
  <2>2. ASSUME NEW j \in 1 .. Len(parts[m]), parts[m][j].type \in {"<", ">"}
        PROVE  WordFollows(parts[m], j)
    <3>1. At(b, c, m, j, c[m] + j) /\ parts[m][j] = b[c[m] + j]
      BY <1>1, PartOf
    <3>2. c[m] + j \in 1 .. Len(b)
      BY <3>1 DEF At
    <3>3. WordFollows(b, c[m] + j)
      BY <1>7, <2>2, <3>1, <3>2
    <3>4. j \in 0 .. Len(parts[m])
      BY <1>3
    <3> QED
      BY <1>1, <3>3, <3>4, FollowsInPart
  <2> QED
    BY <1>3, <1>5, <2>1, <2>2, CommandIs
<1> QED
  BY <1>1, <1>6, <1>7

LEMMA PlacedOf ==
  ASSUME NEW b \in Seq(Tokens), NEW c, NEW parts, Cut(b, c), Parts(b, c, parts),
         NEW type, NEW m, NEW j
  PROVE  <<m, j>> \in Of(parts, type) <=>
           /\ m \in 1 .. Len(c) - 1 /\ j \in 1 .. Len(parts[m])
           /\ parts[m][j].type = type
<1>1. DOMAIN parts = 1 .. Len(c) - 1
  BY DEF Parts
<1>2. \A l \in 1 .. Len(c) - 1 : DOMAIN parts[l] = 1 .. Len(parts[l])
  BY LenProperties DEF Parts
<1> QED
  BY <1>1, <1>2 DEF Of

(* Input only into the first command, output only from the last, each at   *)
(* most once.                                                              *)
OnceEach(parts) ==
  /\ \A p \in Of(parts, "<") : p[1] = 1
  /\ \A p \in Of(parts, ">") : p[1] = Len(parts)
  /\ \A type \in {"<", ">"} : \A p, q \in Of(parts, type) : p = q
  /\ Of(parts, "&") = {}

LEMMA OrderSound ==
  ASSUME NEW b \in Seq(Tokens), NEW c, NEW parts, Cut(b, c), Parts(b, c, parts),
         OnceEach(parts), NEW i \in 1 .. Len(b)
  PROVE  Ordered(b, i) /\ b[i].type /= "&"
<1>1. PICK N \in Nat : N = Len(c) /\ N > 1
  BY LenProperties DEF Cut
<1>2. \A x \in 1 .. i - 1 : x \in 1 .. Len(b) /\ x < i
  BY LenProperties
<1>3. ASSUME NEW x \in 1 .. Len(b), b[x].type /= "|"
      PROVE  \E m \in 1 .. N - 1 : \E j : At(b, c, m, j, x)
                                      /\ <<m, j>> \in Of(parts, b[x].type)
  <2>1. PICK m \in 1 .. N - 1 : \E j \in 1 .. Len(parts[m]) :
          At(b, c, m, j, x) /\ parts[m][j] = b[x]
    BY <1>1, <1>3, PlaceOf
  <2>2. PICK j \in 1 .. Len(parts[m]) : At(b, c, m, j, x) /\ parts[m][j] = b[x]
    BY <2>1
  <2>3. <<m, j>> \in Of(parts, b[x].type)
    BY <1>1, <2>2, PlacedOf
  <2> QED
    BY <2>2, <2>3
<1>4. b[i].type /= "&"
  BY <1>3 DEF OnceEach
<1>5. ASSUME NEW type \in {"<", ">"}, NEW x \in 1 .. Len(b), NEW y \in 1 .. Len(b),
             b[x].type = type, b[y].type = type
      PROVE  x = y
  <2>1. b[x].type /= "|" /\ b[y].type /= "|"
    BY <1>5
  <2>2. PICK m \in 1 .. N - 1 : \E j : At(b, c, m, j, x) /\ <<m, j>> \in Of(parts, type)
    BY <1>3, <1>5, <2>1
  <2>3. PICK j : At(b, c, m, j, x) /\ <<m, j>> \in Of(parts, type)
    BY <2>2
  <2>4. PICK o \in 1 .. N - 1 : \E l : At(b, c, o, l, y) /\ <<o, l>> \in Of(parts, type)
    BY <1>3, <1>5, <2>1
  <2>5. PICK l : At(b, c, o, l, y) /\ <<o, l>> \in Of(parts, type)
    BY <2>4
  <2>6. <<m, j>> = <<o, l>>
    BY <1>5, <2>3, <2>5 DEF OnceEach
  <2>7. m = o /\ j = l
    BY <2>6
  <2> QED
    BY <2>3, <2>5, <2>7 DEF At
<1>6. ASSUME b[i].type = "<"
      PROVE  ~Before(b, i, "|") /\ ~Before(b, i, "<")
  <2>1. ~Before(b, i, "<")
    <3>1. ASSUME NEW x \in 1 .. i - 1, b[x].type = "<" PROVE FALSE
      <4>1. x = i
        BY <1>2, <1>5, <1>6, <3>1
      <4> QED
        BY <1>2, <4>1
    <3> QED
      BY <3>1 DEF Before
  <2>2. PICK m \in 1 .. N - 1 : \E j : At(b, c, m, j, i) /\ <<m, j>> \in Of(parts, "<")
    BY <1>3, <1>6
  <2>3. PICK j : At(b, c, m, j, i) /\ <<m, j>> \in Of(parts, "<")
    BY <2>2
  <2>4. m = 1
    BY <2>3 DEF OnceEach
  <2>5. ASSUME NEW x \in 1 .. i - 1, b[x].type = "|" PROVE FALSE
    <3>1. PICK l \in 2 .. N - 1 : c[l] = x
      BY <1>1, <1>2, <2>5 DEF Cut
    <3>2. l \in 1 .. Len(c) /\ l > m
      BY <1>1, <2>4
    <3>3. i < c[l]
      BY <2>3, <3>2, CutAround
    <3> QED
      BY <1>2, <3>1, <3>3
  <2> QED
    BY <2>1, <2>5 DEF Before
<1>7. ASSUME b[i].type \in {"|", ">"}
      PROVE  ~Before(b, i, ">")
  <2>1. SUFFICES ASSUME NEW x \in 1 .. i - 1, b[x].type = ">" PROVE FALSE
    BY DEF Before
  <2>2. CASE b[i].type = ">"
    <3>1. x = i
      BY <1>2, <1>5, <2>1, <2>2
    <3> QED
      BY <1>2, <3>1
  <2>3. CASE b[i].type = "|"
    <3>1. PICK m \in 1 .. N - 1 : \E j : At(b, c, m, j, x) /\ <<m, j>> \in Of(parts, ">")
      <4>1. x \in 1 .. Len(b) /\ b[x].type /= "|"
        BY <1>2, <2>1
      <4> QED
        BY <1>3, <2>1, <4>1
    <3>2. PICK j : At(b, c, m, j, x) /\ <<m, j>> \in Of(parts, ">")
      BY <3>1
    <3>3. m = N - 1
      <4>1. <<m, j>>[1] = Len(parts)
        BY <3>2 DEF OnceEach
      <4> QED
        BY <1>1, <4>1 DEF Parts
    <3>4. PICK l \in 2 .. N - 1 : c[l] = i
      BY <1>1, <2>3 DEF Cut
    <3>5. l \in 1 .. Len(c) /\ l <= m
      BY <1>1, <3>3
    <3>6. c[l] < x
      BY <3>2, <3>5, CutAround
    <3> QED
      BY <1>2, <3>4, <3>6
  <2> QED
    BY <1>7, <2>2, <2>3
<1> QED
  BY <1>4, <1>6, <1>7 DEF Ordered

(* A place is in one command only.                                         *)
LEMMA OnePlace ==
  ASSUME NEW b \in Seq(Tokens), NEW c, Cut(b, c), NEW m, NEW j, NEW o, NEW l, NEW i,
         At(b, c, m, j, i), At(b, c, o, l, i)
  PROVE  <<m, j>> = <<o, l>>
<1>1. PICK N \in Nat : N = Len(c)
  BY LenProperties DEF Cut
<1>2. m \in 1 .. N - 1 /\ o \in 1 .. N - 1
  BY <1>1 DEF At
<1>3. m \in 1 .. N /\ o \in 1 .. N
  BY <1>2
<1>4. c[m] < i /\ c[o] < i
  BY DEF At
<1>5. m \in 1 .. Len(c) /\ o \in 1 .. Len(c)
  BY <1>1, <1>3
<1>6. o <= m
  BY <1>4, <1>5, CutAround
<1>7. m <= o
  BY <1>4, <1>5, CutAround
<1>8. m = o
  BY <1>2, <1>6, <1>7
<1>9. c[m] \in Nat
  BY <1>1, <1>3, ElementOfSeq DEF Cut
<1>10. j = l
  BY <1>8, <1>9 DEF At
<1> QED
  BY <1>8, <1>10

LEMMA OnceSound ==
  ASSUME NEW b \in Seq(Tokens), NEW c, NEW parts, Cut(b, c), Parts(b, c, parts),
         \A i \in 1 .. Len(b) : Ordered(b, i) /\ b[i].type /= "&"
  PROVE  OnceEach(parts)
<1>1. PICK N \in Nat : N = Len(c) /\ N > 1
  BY LenProperties DEF Cut
<1>2. ASSUME NEW type, NEW p \in Of(parts, type)
      PROVE  \E m \in 1 .. N - 1 : \E j : \E i \in 1 .. Len(b) :
               p = <<m, j>> /\ At(b, c, m, j, i) /\ b[i].type = type
  <2>1. PICK m, j : p = <<m, j>>
    BY DEF Of
  <2>2. m \in 1 .. Len(c) - 1 /\ j \in 1 .. Len(parts[m]) /\ parts[m][j].type = type
    BY <2>1, PlacedOf
  <2>3. At(b, c, m, j, c[m] + j) /\ parts[m][j] = b[c[m] + j]
    BY <2>2, PartOf
  <2>4. c[m] + j \in 1 .. Len(b)
    BY <2>3 DEF At
  <2> QED
    BY <1>1, <2>1, <2>2, <2>3, <2>4
<1>3. ASSUME NEW x \in 1 .. Len(b), NEW y \in 1 .. Len(b), x < y
      PROVE  Before(b, y, b[x].type)
  <2>1. x \in 1 .. y - 1
    BY <1>3
  <2> QED
    BY <2>1 DEF Before
<1>4. ASSUME NEW p \in Of(parts, "<") PROVE p[1] = 1
  <2>1. PICK m \in 1 .. N - 1 : \E j : \E i \in 1 .. Len(b) :
          p = <<m, j>> /\ At(b, c, m, j, i) /\ b[i].type = "<"
    BY <1>2, <1>4
  <2>2. PICK j : \E i \in 1 .. Len(b) :
          p = <<m, j>> /\ At(b, c, m, j, i) /\ b[i].type = "<"
    BY <2>1
  <2>3. PICK i \in 1 .. Len(b) : p = <<m, j>> /\ At(b, c, m, j, i) /\ b[i].type = "<"
    BY <2>2
  <2>4. ASSUME m /= 1 PROVE FALSE
    <3>1. m \in 2 .. Len(c) - 1 /\ m \in 1 .. Len(c)
      BY <1>1, <2>4
    <3>2. c[m] \in 1 .. Len(b) /\ b[c[m]].type = "|"
      BY <3>1 DEF Cut
    <3>3. c[m] < i
      BY <2>3 DEF At
    <3>4. Before(b, i, "|")
      BY <1>3, <3>2, <3>3
    <3> QED
      BY <2>3, <3>4 DEF Ordered
  <2> QED
    BY <2>3, <2>4
<1>5. ASSUME NEW p \in Of(parts, ">") PROVE p[1] = Len(parts)
  <2>1. PICK m \in 1 .. N - 1 : \E j : \E i \in 1 .. Len(b) :
          p = <<m, j>> /\ At(b, c, m, j, i) /\ b[i].type = ">"
    BY <1>2, <1>5
  <2>2. PICK j : \E i \in 1 .. Len(b) :
          p = <<m, j>> /\ At(b, c, m, j, i) /\ b[i].type = ">"
    BY <2>1
  <2>3. PICK i \in 1 .. Len(b) : p = <<m, j>> /\ At(b, c, m, j, i) /\ b[i].type = ">"
    BY <2>2
  <2>4. ASSUME m /= N - 1 PROVE FALSE
    <3>1. m + 1 \in 2 .. Len(c) - 1
      BY <1>1, <2>4
    <3>2. c[m + 1] \in 1 .. Len(b) /\ b[c[m + 1]].type = "|"
      BY <3>1 DEF Cut
    <3>3. i < c[m + 1]
      BY <2>3 DEF At
    <3>4. Before(b, c[m + 1], ">")
      BY <1>3, <2>3, <3>2, <3>3
    <3> QED
      BY <3>2, <3>4 DEF Ordered
  <2>5. Len(parts) = N - 1
    BY <1>1 DEF Parts
  <2> QED
    BY <2>3, <2>4, <2>5
<1>6. ASSUME NEW type \in {"<", ">"}, NEW p \in Of(parts, type), NEW q \in Of(parts, type)
      PROVE  p = q
  <2>1. PICK i \in 1 .. Len(b) : b[i].type = type /\ \E m, j :
          p = <<m, j>> /\ At(b, c, m, j, i)
    BY <1>2, <1>6
  <2>2. PICK h \in 1 .. Len(b) : b[h].type = type /\ \E m, j :
          q = <<m, j>> /\ At(b, c, m, j, h)
    BY <1>2, <1>6
  <2>3. ASSUME NEW x \in 1 .. Len(b), NEW y \in 1 .. Len(b),
               b[x].type = type, b[y].type = type
        PROVE  ~(x < y)
    <3>1. SUFFICES ASSUME x < y PROVE FALSE
      OBVIOUS
    <3>2. Before(b, y, type)
      BY <1>3, <2>3, <3>1
    <3>3. Ordered(b, y)
      OBVIOUS
    <3> QED
      BY <2>3, <3>2, <3>3 DEF Ordered
  <2>4. ~(i < h) /\ ~(h < i)
    BY <2>1, <2>2, <2>3
  <2>5. i = h
    BY <2>4, LenProperties
  <2> QED
    BY <2>1, <2>2, <2>5, OnePlace
<1>7. Of(parts, "&") = {}
  BY <1>2
<1> QED
  BY <1>4, <1>5, <1>6, <1>7 DEF OnceEach

LEMMA GrammarIs ==
  ASSUME NEW ts, Body(ts) \in Seq(Tokens)
  PROVE  IsCommandLine(ts) <=> WellFormed(Body(ts))
<1>1. PICK b \in Seq(Tokens) : b = Body(ts)
  OBVIOUS
<1>2. PICK c : c = InOrder(Cuts(b))
  OBVIOUS
<1>3. PICK parts : parts = Commands(b)
  OBVIOUS
<1>4. Cut(b, c) /\ Parts(b, c, parts)
  BY <1>2, <1>3, CutsAre, PartsAre
<1>5. DOMAIN parts = 1 .. Len(c) - 1
  BY <1>4 DEF Parts
<1>6. IsCommandLine(ts) <=>
        (\A m \in 1 .. Len(c) - 1 : IsCommand(parts[m])) /\ OnceEach(parts)
  BY <1>1, <1>3, <1>5 DEF IsCommandLine, OnceEach
<1>7. OnceEach(parts) <=> \A i \in 1 .. Len(b) : Ordered(b, i) /\ b[i].type /= "&"
  BY <1>4, OrderSound, OnceSound
<1>8. (\A m \in 1 .. Len(c) - 1 : IsCommand(parts[m])) <=>
        /\ WordFollows(b, 0)
        /\ \A i \in 1 .. Len(b) :
             b[i].type \in {"|", "<", ">"} => WordFollows(b, i)
  BY <1>4, CommandsSound
<1> QED
  BY <1>1, <1>6, <1>7, <1>8 DEF WellFormed

(* The shell accepts exactly the lines that are command lines: every       *)
(* redirection and pipe is followed by a word, input goes into the first   *)
(* command only and output comes from the last only, and & ends the line.  *)
THEOREM GrammarDecided == Spec => []AcceptsGrammar
<1>1. Lexed => AcceptsGrammar
  <2>1. SUFFICES ASSUME Lexed, state = "LEX_SUCCESS", oTokens /= <<>>
                 PROVE  syntax_check(oTokens) = "SUCCESS" <=> IsCommandLine(oTokens)
    BY DEF AcceptsGrammar
  <2>2. PICK ts \in Seq(Tokens) : ts = oTokens
    BY <2>1 DEF Lexed
  <2>3. syntax_check(ts) = "SUCCESS" <=> \A i \in 1 .. Len(ts) : Sound(ts, i)
    BY CheckIs
  <2>4. (\A i \in 1 .. Len(ts) : Sound(ts, i)) <=> WellFormed(Body(ts))
    BY <2>1, <2>2, SoundLine
  <2>5. Body(ts) \in Seq(Tokens)
    BY <2>1, <2>2, BodyIs
  <2>6. IsCommandLine(ts) <=> WellFormed(Body(ts))
    BY <2>5, GrammarIs
  <2> QED
    BY <2>2, <2>3, <2>4, <2>6
<1> QED
  BY <1>1, LexerInvariance, PTL
-----------------------------------------------------------------------------
(* execute.c: the first and the last token of every command.               *)
Until(ts, c, i) == IF i + 2 = Len(c) THEN Len(ts) ELSE c[i + 2] - 1
Location(ts, c, i) == [start |-> c[i + 1], end |-> Until(ts, c, i)]

(* A line that was accepted, with & at its end or not.                     *)
Line(ts, b, c) ==
  /\ Cut(b, c) /\ WellFormed(b)
  /\ Len(ts) \in Nat /\ Len(b) \in Nat
  /\ \A i \in 1 .. Len(b) : i \in 1 .. Len(ts) /\ b[i] = ts[i]
  /\ \/ Len(ts) = Len(b)
     \/ Len(ts) = Len(b) + 1 /\ ts[Len(ts)].type = "&"

LEMMA LineIs ==
  ASSUME NEW ts \in Seq(Tokens), ts /= <<>>, WellFormed(Body(ts))
  PROVE  Line(ts, Body(ts), InOrder(Cuts(Body(ts))))
<1>1. PICK b \in Seq(Tokens) : b = Body(ts)
  BY BodyIs
<1>2. PICK c : c = InOrder(Cuts(b))
  OBVIOUS
<1>3. Cut(b, c)
  BY <1>2, CutsAre
<1>4. /\ Len(b) \in Nat /\ Len(ts) \in Nat
      /\ \A i \in 1 .. Len(b) : i \in 1 .. Len(ts) /\ b[i] = ts[i]
      /\ IF ts[Len(ts)].type = "&" THEN Len(ts) = Len(b) + 1 ELSE b = ts
  BY <1>1, BodyIs, LenProperties
<1>5. \/ Len(ts) = Len(b)
      \/ Len(ts) = Len(b) + 1 /\ ts[Len(ts)].type = "&"
  BY <1>4
<1>6. WellFormed(b)
  BY <1>1
<1>7. Line(ts, b, c)
  BY <1>3, <1>4, <1>5, <1>6 DEF Line
<1> QED
  BY <1>1, <1>2, <1>7

LEMMA PipesAre ==
  ASSUME NEW ts \in Seq(Tokens), NEW b \in Seq(Tokens), NEW c, Line(ts, b, c)
  PROVE  /\ {i \in DOMAIN ts : ts[i].type = "|"} = {i \in 1 .. Len(b) : b[i].type = "|"}
         /\ \A i \in DOMAIN ts : ts[i].type = "|" => \E l \in 2 .. Len(c) - 1 : c[l] = i
         /\ \A l \in 2 .. Len(c) - 1 : c[l] \in DOMAIN ts /\ ts[c[l]].type = "|"
<1>1. DOMAIN ts = 1 .. Len(ts)
  BY LenProperties
<1>2. ASSUME NEW i \in 1 .. Len(ts), ts[i].type = "|"
      PROVE  i \in 1 .. Len(b) /\ b[i].type = "|"
  <2>1. i \in 1 .. Len(b)
    BY <1>2 DEF Line
  <2> QED
    BY <1>2, <2>1 DEF Line
<1>3. ASSUME NEW i \in 1 .. Len(b), b[i].type = "|"
      PROVE  i \in 1 .. Len(ts) /\ ts[i].type = "|"
  BY <1>3 DEF Line
<1>4. /\ \A x \in 1 .. Len(b) : b[x].type = "|" => \E l \in 2 .. Len(c) - 1 : c[l] = x
      /\ \A l \in 2 .. Len(c) - 1 : c[l] \in 1 .. Len(b) /\ b[c[l]].type = "|"
  BY DEF Line, Cut
<1>5. \A i \in DOMAIN ts : ts[i].type = "|" => \E l \in 2 .. Len(c) - 1 : c[l] = i
  BY <1>1, <1>2, <1>4
<1>6. \A l \in 2 .. Len(c) - 1 : c[l] \in DOMAIN ts /\ ts[c[l]].type = "|"
  BY <1>1, <1>3, <1>4
<1> QED
  BY <1>1, <1>2, <1>3, <1>5, <1>6

PipeFrom(ts, start) ==
  LET later == {i \in DOMAIN ts : i > start /\ ts[i].type = "|"}
  IN  [start |-> start,
       end |-> IF later = {} THEN Len(ts)
               ELSE (CHOOSE i \in later : \A j \in later : i <= j) - 1]

LEMMA LocationIs ==
  ASSUME NEW ts \in Seq(Tokens), NEW b \in Seq(Tokens), NEW c, Line(ts, b, c),
         NEW i \in 0 .. Len(c) - 2, NEW last,
         IF i = 0 THEN last = 0 ELSE last = Until(ts, c, i - 1)
  PROVE  find_pipe_loc(ts, last) = Location(ts, c, i)
<1>1. PICK N \in Nat : N = Len(c) /\ N > 1
  BY LenProperties DEF Line, Cut
<1>2. \A j \in 1 .. N : c[j] \in Nat
  <2>1. c \in Seq(Nat)
    BY DEF Line, Cut
  <2> QED
    BY <1>1, <2>1, ElementOfSeq
<1>3. i \in 0 .. N - 2 /\ i + 1 \in 1 .. N - 1 /\ i + 2 \in 2 .. N /\ i + 1 \in 1 .. N
  BY <1>1
<1>4. PICK start \in Nat : start = c[i + 1]
  BY <1>2, <1>3
<1>5. (IF last = 0 THEN 0 ELSE last + 1) = start
  <2>1. CASE i = 0
    <3>1. c[i + 1] = 0
      BY <2>1 DEF Line, Cut
    <3> QED
      BY <1>4, <2>1, <3>1
  <2>2. CASE i /= 0
    <3>1. i - 1 + 2 = i + 1 /\ i + 1 /= N /\ i + 1 \in 2 .. N - 1 /\ i \in Nat
      BY <1>1, <2>2
    <3>2. last = start - 1
      BY <1>1, <1>4, <2>2, <3>1 DEF Until
    <3>3. c[i + 1] \in 1 .. Len(b) /\ b[c[i + 1]].type = "|"
      BY <1>1, <3>1 DEF Line, Cut
    <3>4. b[1].type = "word"
      <4>1. 0 + 1 = 1
        OBVIOUS
      <4> QED
        BY <4>1 DEF Line, WellFormed, WordFollows
    <3>5. c[i + 1] /= 1
      BY <3>3, <3>4
    <3>6. start > 1
      BY <1>4, <3>3, <3>5
    <3> QED
      BY <3>2, <3>6
  <2> QED
    BY <2>1, <2>2
<1> DEFINE later == {x \in DOMAIN ts : x > start /\ ts[x].type = "|"}
<1>6. find_pipe_loc(ts, last) =
        [start |-> start,
         end |-> IF later = {} THEN Len(ts)
                 ELSE (CHOOSE x \in later : \A j \in later : x <= j) - 1]
  <2>1. find_pipe_loc(ts, last) = PipeFrom(ts, IF last = 0 THEN 0 ELSE last + 1)
    BY Zenon DEF find_pipe_loc, PipeFrom
  <2> QED
    BY <1>5, <2>1, Zenon DEF PipeFrom
<1>7. ASSUME NEW x \in later
      PROVE  \E l \in 2 .. N - 1 : c[l] = x /\ l >= i + 2
  <2>1. PICK l \in 2 .. N - 1 : c[l] = x
    BY <1>1, PipesAre
  <2>2. c[i + 1] < c[l]
    BY <1>4, <2>1
  <2>3. l \in 1 .. N /\ l \in Nat
    OBVIOUS
  <2>4. l < i + 1 => c[l] < c[i + 1]
    BY <1>1, <1>3, <2>3 DEF Line, Cut
  <2>5. l /= i + 1 /\ ~(l < i + 1)
    BY <1>2, <1>3, <2>2, <2>3, <2>4
  <2> QED
    BY <1>3, <2>1, <2>3, <2>5
<1>8. CASE i + 2 = N
  <2>1. later = {}
    BY <1>7, <1>8
  <2>2. Until(ts, c, i) = Len(ts)
    BY <1>1, <1>8 DEF Until
  <2> HIDE DEF later
  <2> QED
    BY <1>4, <1>6, <2>1, <2>2 DEF Location
<1>9. CASE i + 2 /= N
  <2>1. i + 2 \in 2 .. N - 1 /\ i + 2 \in 1 .. N /\ i + 1 < i + 2
    BY <1>3, <1>9
  <2>2. c[i + 2] \in DOMAIN ts /\ ts[c[i + 2]].type = "|"
    BY <1>1, <2>1, PipesAre
  <2>3. c[i + 1] < c[i + 2]
    BY <1>1, <1>3, <2>1 DEF Line, Cut
  <2>4. c[i + 2] \in later
    BY <1>2, <1>4, <2>1, <2>2, <2>3
  <2>5. ASSUME NEW x \in later PROVE c[i + 2] <= x
    <3>1. PICK l \in 2 .. N - 1 : c[l] = x /\ l >= i + 2
      BY <1>7, <2>5
    <3>2. l \in 1 .. N /\ (i + 2 < l \/ i + 2 = l)
      BY <3>1, <2>1
    <3>3. i + 2 < l => c[i + 2] < c[l]
      BY <1>1, <2>1, <3>2 DEF Line, Cut
    <3> QED
      BY <1>2, <2>1, <3>1, <3>2, <3>3
  <2>6. PICK e \in Nat : e = c[i + 2]
    BY <1>2, <2>1
  <2>7. \A x \in later : x \in Nat
    BY LenProperties
  <2>8. PICK x : x = CHOOSE l \in later : \A j \in later : l <= j
    OBVIOUS
  <2>9. x = e
    <3> HIDE DEF later
    <3>1. x \in later /\ \A j \in later : x <= j
      BY <2>4, <2>5, <2>8
    <3>2. x <= e /\ e <= x /\ x \in Nat
      BY <2>4, <2>5, <2>6, <2>7, <3>1
    <3> QED
      BY <3>2
  <2>10. Until(ts, c, i) = e - 1
    BY <1>1, <1>9, <2>6 DEF Until
  <2> HIDE DEF later
  <2> QED
    BY <1>4, <1>6, <2>4, <2>8, <2>9, <2>10 DEF Location
<1> QED
  BY <1>8, <1>9

LocationsOf(ts, f) ==
  [i \in 0 .. count_pipe(ts) |->
     IF i = 0 THEN find_pipe_loc(ts, 0) ELSE find_pipe_loc(ts, f[i - 1].end)]

LEMMA PipesCounted ==
  ASSUME NEW ts \in Seq(Tokens), NEW b \in Seq(Tokens),
         Line(ts, b, InOrder(Cuts(b)))
  PROVE  count_pipe(ts) + 2 = Len(InOrder(Cuts(b))) /\ count_pipe(ts) \in Nat
<1>1. PICK n \in Nat : n = Len(b)
  BY LenProperties
<1>2. PICK S : S = {i \in 1 .. n : b[i].type = "|"}
  OBVIOUS
<1>3. S \in SUBSET (0 .. n)
  <2>1. \A i \in S : i \in 1 .. n
    BY <1>2
  <2>2. \A i \in 1 .. n : i \in 0 .. n
    OBVIOUS
  <2> QED
    BY <2>1, <2>2
<1>4. IsFiniteSet(S) /\ Cardinality(S) \in Nat
  BY <1>3, UpToFinite
<1>5. PICK p \in Nat : p = Cardinality(S)
  BY <1>4
<1>6. 0 \notin S /\ n + 1 \notin S \union {0}
  BY <1>2
<1>7. IsFiniteSet(S \union {0}) /\ Cardinality(S \union {0}) = p + 1
  BY <1>4, <1>5, <1>6, FS_AddElement
<1>8. Cardinality((S \union {0}) \union {n + 1}) = p + 1 + 1
  BY <1>6, <1>7, FS_AddElement
<1>9. Cuts(b) = (S \union {0}) \union {n + 1}
  BY <1>1, <1>2 DEF Cuts
<1>10. count_pipe(ts) = p
  BY <1>1, <1>2, <1>5, PipesAre DEF count_pipe
<1>11. Len(InOrder(Cuts(b))) = Cardinality(Cuts(b))
  BY CutsAre
<1>12. p + 1 + 1 = p + 2
  OBVIOUS
<1> QED
  BY <1>8, <1>9, <1>10, <1>11, <1>12

LEMMA CommandsFound ==
  ASSUME NEW ts \in Seq(Tokens), NEW b \in Seq(Tokens), NEW c,
         c = InOrder(Cuts(b)), Line(ts, b, c)
  PROVE  CommandsOf(ts) =
           [i \in 1 .. Len(c) - 1 |->
              build_command_partial(ts, c[i], Until(ts, c, i - 1))]
<1>1. PICK P \in Nat : P = count_pipe(ts) /\ Len(c) = P + 2
  BY PipesCounted
<1>2. ASSUME NEW f, NEW i \in 0 .. P,
             i /= 0 => f[i - 1] = Location(ts, c, i - 1)
      PROVE  LocationsOf(ts, f)[i] = Location(ts, c, i)
  <2>1. i \in 0 .. Len(c) - 2
    BY <1>1
  <2>2. CASE i = 0
    <3>1. find_pipe_loc(ts, 0) = Location(ts, c, i)
      BY <2>1, <2>2, LocationIs
    <3> QED
      BY <1>1, <2>2, <3>1 DEF LocationsOf
  <2>3. CASE i /= 0
    <3>1. PICK last : last = f[i - 1].end
      OBVIOUS
    <3>2. last = Until(ts, c, i - 1)
      BY <1>2, <2>3, <3>1 DEF Location
    <3>3. find_pipe_loc(ts, last) = Location(ts, c, i)
      BY <2>1, <2>3, <3>2, LocationIs
    <3> QED
      BY <1>1, <2>3, <3>1, <3>3 DEF LocationsOf
  <2> QED
    BY <2>2, <2>3
<1>3. \E f : f = LocationsOf(ts, f)
  <2>1. PICK f : f = [i \in 0 .. P |-> Location(ts, c, i)]
    OBVIOUS
  <2>2. \A i \in 0 .. P : LocationsOf(ts, f)[i] = f[i]
    <3>1. ASSUME NEW i \in 0 .. P PROVE LocationsOf(ts, f)[i] = f[i]
      <4>1. i /= 0 => f[i - 1] = Location(ts, c, i - 1)
        BY <2>1
      <4> QED
        BY <1>2, <2>1, <4>1
    <3> QED
      BY <3>1
  <2>3. LocationsOf(ts, f) = [i \in 0 .. P |-> LocationsOf(ts, f)[i]]
    BY <1>1 DEF LocationsOf
  <2>4. f = LocationsOf(ts, f)
    BY <2>1, <2>2, <2>3
  <2> QED
    BY <2>4
<1>4. PICK loc : loc = CHOOSE f : f = LocationsOf(ts, f)
  OBVIOUS
<1>5. loc = LocationsOf(ts, loc)
  BY <1>3, <1>4, Zenon
<1> DEFINE S == {i \in 0 .. P : loc[i] = Location(ts, c, i)}
<1>6. \A i \in 0 .. P : (i /= 0 => i - 1 \in S) => i \in S
  <2>1. ASSUME NEW i \in 0 .. P, i /= 0 => i - 1 \in S PROVE i \in S
    <3>1. LocationsOf(ts, loc)[i] = Location(ts, c, i)
      BY <1>2, <2>1
    <3>2. loc[i] = Location(ts, c, i)
      BY <1>5, <3>1, Zenon
    <3> QED
      BY <3>2
  <2> QED
    BY <2>1
<1>7. 0 .. P \subseteq S
  <2> HIDE DEF S
  <2>1. 0 \in S
    BY <1>6
  <2>2. \A i \in 1 .. P : i - 1 \in S => i \in S
    BY <1>6
  <2> QED
    BY <2>1, <2>2, Upwards
<1>8. CommandsOf(ts) =
        [i \in 1 .. count_pipe(ts) + 1 |->
           build_command_partial(ts, loc[i - 1].start, loc[i - 1].end)]
  BY <1>4 DEF CommandsOf, LocationsOf
<1>9. ASSUME NEW i \in 1 .. P + 1
      PROVE  loc[i - 1].start = c[i] /\ loc[i - 1].end = Until(ts, c, i - 1)
  <2>1. i - 1 \in 0 .. P /\ i - 1 + 1 = i
    OBVIOUS
  <2>2. loc[i - 1] = Location(ts, c, i - 1)
    BY <1>7, <2>1
  <2> QED
    BY <2>1, <2>2 DEF Location
<1>10. 1 .. Len(c) - 1 = 1 .. P + 1
  BY <1>1
<1>11. \A i \in 1 .. P + 1 :
         build_command_partial(ts, loc[i - 1].start, loc[i - 1].end) =
           build_command_partial(ts, c[i], Until(ts, c, i - 1))
  BY <1>9
<1> QED
  BY <1>1, <1>8, <1>10, <1>11
-----------------------------------------------------------------------------
(* execute.c: the arguments and the files of a command.  After its first i *)
(* tokens the command that is built has the words so far, in their order,  *)
(* and knows a redirection whose file has not come yet.                    *)
Built(redin, redout, args, in, out) ==
  [redin |-> redin, redout |-> redout, args |-> args, in |-> in, out |-> out]
Added(cmd, t) ==
  CASE t.type = "word" /\ cmd.redin ->
         [cmd EXCEPT !.in = Append(@, t.value), !.redin = FALSE]
    [] t.type = "word" /\ ~cmd.redin /\ cmd.redout ->
         [cmd EXCEPT !.out = Append(@, t.value), !.redout = FALSE]
    [] t.type = "word" /\ ~cmd.redin /\ ~cmd.redout ->
         [cmd EXCEPT !.args = Append(@, t.value)]
    [] t.type = "<" -> [cmd EXCEPT !.redin = TRUE]
    [] t.type = ">" -> [cmd EXCEPT !.redout = TRUE]
    [] OTHER -> cmd
BuiltOf(tokens, f) ==
  [i \in 0 .. Len(tokens) |->
     IF i = 0 THEN NoCommand ELSE Added(f[i - 1], tokens[i])]

(* The words that come after a token of a type.                            *)
Places(tokens, i, type) ==
  {j \in 1 .. i : /\ tokens[j].type = "word"
                  /\ (IF j = 1 THEN "word" ELSE tokens[j - 1].type) = type}
Values(tokens) == [j \in DOMAIN tokens |-> tokens[j].value]
After(tokens, i, type) == Each(Places(tokens, i, type), Values(tokens))
Waits(tokens, i, type) == i > 0 /\ tokens[i].type = type

BuiltSoFar(tokens, i) ==
  Built(Waits(tokens, i, "<"), Waits(tokens, i, ">"),
        After(tokens, i, "word"), After(tokens, i, "<"), After(tokens, i, ">"))

LEMMA AfterIs ==
  ASSUME NEW tokens \in Seq(Tokens), NEW type
  PROVE  /\ After(tokens, 0, type) = <<>>
         /\ \A i \in 1 .. Len(tokens) :
              After(tokens, i, type) =
                IF /\ tokens[i].type = "word"
                   /\ (IF i = 1 THEN "word" ELSE tokens[i - 1].type) = type
                THEN Append(After(tokens, i - 1, type), tokens[i].value)
                ELSE After(tokens, i - 1, type)
<1>1. After(tokens, 0, type) = <<>>
  <2>1. Places(tokens, 0, type) = {}
    BY DEF Places
  <2>2. PICK f : f = Values(tokens)
    OBVIOUS
  <2>3. InOrder({}) = <<>>
    BY InOrderEmpty
  <2>4. Each({}, f) = <<>>
    BY <2>3 DEF Each
  <2> QED
    BY <2>1, <2>2, <2>4 DEF After
<1>2. ASSUME NEW i \in 1 .. Len(tokens),
             tokens[i].type = "word",
             (IF i = 1 THEN "word" ELSE tokens[i - 1].type) = type
      PROVE  After(tokens, i, type)
               = Append(After(tokens, i - 1, type), tokens[i].value)
  <2>1. PICK w \in Nat : w = Len(tokens)
    BY LenProperties
  <2>2. i \in Nat /\ i - 1 \in Nat /\ DOMAIN tokens = 1 .. w
    BY <2>1, LenProperties
  <2>3. PICK S : S = Places(tokens, i - 1, type)
    OBVIOUS
  <2>4. \A p \in S : p \in 1 .. i - 1
    BY <2>3 DEF Places
  <2>5. S \in SUBSET (0 .. w) /\ \A p \in S : p < i /\ p \in 1 .. w
    BY <2>1, <2>2, <2>4
  <2>6. i \in 1 .. w
    BY <2>1
  <2>7. Places(tokens, i, type) = S \union {i}
    <3>1. \A j : j \in 1 .. i <=> j \in 1 .. i - 1 \/ j = i
      BY <2>2, <2>6
    <3>2. \A j : j \in Places(tokens, i, type) <=> j \in S \/ j = i
      BY <1>2, <2>3, <3>1 DEF Places
    <3> QED
      BY <3>2
  <2>8. S \in SUBSET Nat
    BY <2>5
  <2>9. IsFiniteSet(S)
    BY <2>1, <2>5, UpToFinite
  <2>10. PICK f : f = Values(tokens)
    OBVIOUS
  <2>11. \A p \in 1 .. w : f[p] = tokens[p].value
    BY <2>2, <2>10 DEF Values
  <2>12. PICK V : V = {f[p] : p \in 1 .. w}
    OBVIOUS
  <2>13. \A p \in S \union {i} : f[p] \in V
    BY <2>5, <2>6, <2>12
  <2>14. Each(S \union {i}, f) = Append(Each(S, f), f[i])
    BY <2>2, <2>5, <2>8, <2>9, <2>13, EachGrows
  <2> QED
    BY <2>3, <2>6, <2>7, <2>10, <2>11, <2>14 DEF After
<1>3. ASSUME NEW i \in 1 .. Len(tokens),
             ~(/\ tokens[i].type = "word"
               /\ (IF i = 1 THEN "word" ELSE tokens[i - 1].type) = type)
      PROVE  After(tokens, i, type) = After(tokens, i - 1, type)
  <2>1. i \in Nat
    BY LenProperties
  <2>2. \A j : j \in 1 .. i <=> j \in 1 .. i - 1 \/ j = i
    BY <2>1
  <2>3. Places(tokens, i, type) = Places(tokens, i - 1, type)
    BY <1>3, <2>2 DEF Places
  <2> QED
    BY <2>3 DEF After
<1> QED
  BY <1>1, <1>2, <1>3

(* One command, & behind it or not.                                        *)
Proper(tokens) ==
  /\ \A j \in 1 .. Len(tokens) :
       /\ tokens[j].type \in {"<", ">"} => WordFollows(tokens, j)
       /\ tokens[j].type /= "|"
       /\ tokens[j].type = "&" => j = Len(tokens)

LEMMA NextBuilt ==
  ASSUME NEW tokens \in Seq(Tokens), Proper(tokens), NEW i \in 1 .. Len(tokens)
  PROVE  Added(BuiltSoFar(tokens, i - 1), tokens[i]) = BuiltSoFar(tokens, i)
<1>1. PICK w \in Nat : w = Len(tokens)
  BY LenProperties
<1>2. i \in Nat /\ i > 0 /\ i <= w
  BY <1>1
<1>3. PICK t : t = tokens[i].type
  OBVIOUS
<1>4. tokens[i] \in Tokens
  BY ElementOfSeq
<1>5. t \in {"word", "|", "&", "<", ">"} /\ t /= "|"
  BY <1>3, <1>4 DEF Tokens, Operators, Proper
<1>6. PICK prior : prior = IF i = 1 THEN "word" ELSE tokens[i - 1].type
  OBVIOUS
<1>7. prior \in {"word", "<", ">"} /\ (t /= "word" => prior = "word")
  <2>1. CASE i = 1
    BY <1>6, <2>1
  <2>2. CASE i /= 1
    <3>1. i - 1 \in 1 .. Len(tokens) /\ i - 1 /= Len(tokens) /\ i - 1 + 1 = i
      BY <1>1, <1>2, <2>2
    <3>2. tokens[i - 1] \in Tokens
      BY <3>1, ElementOfSeq
    <3>3. prior \in {"word", "|", "&", "<", ">"}
      BY <1>6, <2>2, <3>2 DEF Tokens, Operators
    <3>4. prior /= "|" /\ prior /= "&"
      BY <1>6, <2>2, <3>1 DEF Proper
    <3>5. prior \in {"<", ">"} => t = "word"
      BY <1>3, <1>6, <2>2, <3>1 DEF Proper, WordFollows
    <3> QED
      BY <3>3, <3>4, <3>5
  <2> QED
    BY <2>1, <2>2
<1>8. ASSUME NEW type \in {"<", ">"}
      PROVE  /\ Waits(tokens, i - 1, type) <=> prior = type
             /\ Waits(tokens, i, type) <=> t = type
  BY <1>2, <1>3, <1>6 DEF Waits
<1>9. ASSUME NEW type
      PROVE  After(tokens, i, type) =
               IF t = "word" /\ prior = type
               THEN Append(After(tokens, i - 1, type), tokens[i].value)
               ELSE After(tokens, i - 1, type)
  BY <1>3, <1>6, AfterIs
<1>10. PICK args : args = After(tokens, i - 1, "word")
  OBVIOUS
<1>11. PICK in : in = After(tokens, i - 1, "<")
  OBVIOUS
<1>12. PICK out : out = After(tokens, i - 1, ">")
  OBVIOUS
<1>13. PICK tok : tok = tokens[i]
  OBVIOUS
<1>14. PICK was : was = BuiltSoFar(tokens, i - 1)
  OBVIOUS
<1>15. PICK now : now = BuiltSoFar(tokens, i)
  OBVIOUS
<1>16. was = Built(prior = "<", prior = ">", args, in, out)
  BY <1>8, <1>10, <1>11, <1>12, <1>14 DEF BuiltSoFar, Waits
<1>17. now =
         Built(t = "<", t = ">",
               IF t = "word" /\ prior = "word" THEN Append(args, tok.value) ELSE args,
               IF t = "word" /\ prior = "<" THEN Append(in, tok.value) ELSE in,
               IF t = "word" /\ prior = ">" THEN Append(out, tok.value) ELSE out)
  BY <1>8, <1>9, <1>10, <1>11, <1>12, <1>13, <1>15 DEF BuiltSoFar, Waits
<1>18. t = tok.type
  BY <1>3, <1>13
<1> SUFFICES Added(was, tok) = now
  BY <1>13, <1>14, <1>15
<1>19. CASE t = "word" /\ prior = "<"
  <2>1. was = Built(TRUE, FALSE, args, in, out)
    BY <1>16, <1>19
  <2>2. now = Built(FALSE, FALSE, args, Append(in, tok.value), out)
    BY <1>17, <1>19
  <2> QED
    BY <1>18, <1>19, <2>1, <2>2 DEF Added, Built
<1>20. CASE t = "word" /\ prior = ">"
  <2>1. was = Built(FALSE, TRUE, args, in, out)
    BY <1>16, <1>20
  <2>2. now = Built(FALSE, FALSE, args, in, Append(out, tok.value))
    BY <1>17, <1>20
  <2> QED
    BY <1>18, <1>20, <2>1, <2>2 DEF Added, Built
<1>21. CASE prior = "word"
  <2>1. was = Built(FALSE, FALSE, args, in, out)
    BY <1>16, <1>21
  <2>2. CASE t = "word"
    <3>1. now = Built(FALSE, FALSE, Append(args, tok.value), in, out)
      BY <1>17, <1>21, <2>2
    <3> QED
      BY <1>18, <2>1, <2>2, <3>1 DEF Added, Built
  <2>3. CASE t = "<"
    <3>1. now = Built(TRUE, FALSE, args, in, out)
      BY <1>17, <2>3
    <3> QED
      BY <1>18, <2>1, <2>3, <3>1 DEF Added, Built
  <2>4. CASE t = ">"
    <3>1. now = Built(FALSE, TRUE, args, in, out)
      BY <1>17, <2>4
    <3> QED
      BY <1>18, <2>1, <2>4, <3>1 DEF Added, Built
  <2>5. CASE t = "&"
    <3>1. now = Built(FALSE, FALSE, args, in, out)
      BY <1>17, <2>5
    <3> QED
      BY <1>18, <2>1, <2>5, <3>1 DEF Added, Built
  <2> QED
    BY <1>5, <2>2, <2>3, <2>4, <2>5
<1> QED
  BY <1>5, <1>7, <1>19, <1>20, <1>21

LEMMA WordsAfterIs ==
  ASSUME NEW one \in Seq(Tokens), NEW type
  PROVE  /\ WordsAfter(one, {type}) = After(one, Len(one), type)
         /\ Len(WordsAfter(one, {type})) \in Nat
<1>1. PICK w \in Nat : w = Len(one)
  BY LenProperties
<1>2. DOMAIN one = 1 .. w
  BY <1>1, LenProperties
<1>3. PICK S : S = Places(one, w, type)
  OBVIOUS
<1>4. S = {i \in DOMAIN one :
             /\ one[i].type = "word"
             /\ (IF i = 1 THEN "word" ELSE one[i - 1].type) \in {type}}
  BY <1>2, <1>3 DEF Places
<1>5. \A p \in S : p \in 1 .. w
  BY <1>3 DEF Places
<1>6. S \in SUBSET (0 .. w) /\ S \in SUBSET Nat
  BY <1>5
<1>7. IsFiniteSet(S)
  BY <1>6, UpToFinite
<1>8. PICK at : at = InOrder(S)
  OBVIOUS
<1>9. \A p \in DOMAIN at : at[p] \in S
  BY <1>6, <1>7, <1>8, InOrderIs
<1>10. WordsAfter(one, {type}) = [p \in DOMAIN at |-> one[at[p]].value]
  BY <1>4, <1>8 DEF WordsAfter
<1>11. After(one, w, type) = [p \in DOMAIN at |-> Values(one)[at[p]]]
  BY <1>3, <1>8 DEF After, Each
<1>12. ASSUME NEW p \in DOMAIN at PROVE Values(one)[at[p]] = one[at[p]].value
  <2>1. at[p] \in DOMAIN one
    BY <1>2, <1>5, <1>9
  <2> QED
    BY <2>1 DEF Values
<1>13. Len(WordsAfter(one, {type})) \in Nat
  <2>1. PICK n \in Nat : n = Cardinality(S)
    BY <1>7, FS_CardinalityType
  <2>2. DOMAIN at = 1 .. n
    BY <1>6, <1>7, <1>8, <2>1, InOrderIs
  <2>3. Len([p \in 1 .. n |-> one[at[p]].value]) = n
    OBVIOUS
  <2> QED
    BY <1>10, <2>1, <2>2, <2>3
<1> QED
  BY <1>1, <1>10, <1>11, <1>12, <1>13

(* What is left of the record when a command's words are all seen.         *)
IsBuilt(command, cmd) ==
  /\ command.args = cmd.args /\ command.in = cmd.in /\ command.out = cmd.out
  /\ command.overflow <=> Len(cmd.args) + 1 > MAX_ARGS_CNT

LEMMA BuildIs ==
  ASSUME NEW ts, NEW start, NEW end, NEW tokens \in Seq(Tokens), Proper(tokens),
         tokens = SubSeq(ts, start + 1, end)
  PROVE  IsBuilt(build_command_partial(ts, start, end),
                 BuiltSoFar(tokens, Len(tokens)))
<1>1. PICK w \in Nat : w = Len(tokens)
  BY LenProperties
<1>2. NoCommand = BuiltSoFar(tokens, 0)
  <2>1. \A type : After(tokens, 0, type) = <<>>
    BY AfterIs
  <2>2. \A type \in {"<", ">"} : Waits(tokens, 0, type) = FALSE
    BY DEF Waits
  <2> QED
    BY <2>1, <2>2 DEF NoCommand, BuiltSoFar, Built
<1>3. ASSUME NEW f, NEW i \in 0 .. w,
             i /= 0 => f[i - 1] = BuiltSoFar(tokens, i - 1)
      PROVE  BuiltOf(tokens, f)[i] = BuiltSoFar(tokens, i)
  <2>1. CASE i = 0
    BY <1>1, <1>2, <2>1 DEF BuiltOf
  <2>2. CASE i /= 0
    <3>1. i \in 1 .. Len(tokens)
      BY <1>1, <2>2
    <3>2. Added(BuiltSoFar(tokens, i - 1), tokens[i]) = BuiltSoFar(tokens, i)
      BY <3>1, NextBuilt
    <3>3. BuiltOf(tokens, f)[i] = Added(f[i - 1], tokens[i])
      BY <1>1, <2>2 DEF BuiltOf
    <3> QED
      BY <1>3, <2>2, <3>2, <3>3, Zenon
  <2> QED
    BY <2>1, <2>2
<1>4. \E f : f = BuiltOf(tokens, f)
  <2>1. PICK f : f = [i \in 0 .. w |-> BuiltSoFar(tokens, i)]
    OBVIOUS
  <2>2. ASSUME NEW i \in 0 .. w PROVE BuiltOf(tokens, f)[i] = f[i]
    <3>1. i /= 0 => i - 1 \in 0 .. w
      OBVIOUS
    <3>2. i /= 0 => f[i - 1] = BuiltSoFar(tokens, i - 1)
      BY <2>1, <3>1
    <3> QED
      BY <1>3, <2>1, <3>2
  <2>3. BuiltOf(tokens, f) = [i \in 0 .. w |-> BuiltOf(tokens, f)[i]]
    BY <1>1 DEF BuiltOf
  <2>4. f = BuiltOf(tokens, f)
    BY <2>1, <2>2, <2>3
  <2> QED
    BY <2>4
<1>5. PICK built : built = CHOOSE f : f = BuiltOf(tokens, f)
  OBVIOUS
<1>6. built = BuiltOf(tokens, built)
  BY <1>4, <1>5, Zenon
<1> DEFINE S == {i \in 0 .. w : built[i] = BuiltSoFar(tokens, i)}
<1>7. \A i \in 0 .. w : (i /= 0 => i - 1 \in S) => i \in S
  <2>1. ASSUME NEW i \in 0 .. w, i /= 0 => i - 1 \in S PROVE i \in S
    <3>1. BuiltOf(tokens, built)[i] = BuiltSoFar(tokens, i)
      BY <1>3, <2>1
    <3>2. built[i] = BuiltSoFar(tokens, i)
      BY <1>6, <3>1, Zenon
    <3> QED
      BY <3>2
  <2> QED
    BY <2>1
<1>8. 0 .. w \subseteq S
  <2> HIDE DEF S
  <2>1. 0 \in S
    BY <1>7
  <2>2. \A i \in 1 .. w : i - 1 \in S => i \in S
    BY <1>7
  <2> QED
    BY <2>1, <2>2, Upwards
<1>9. PICK cmd : cmd = built[Len(tokens)]
  OBVIOUS
<1>10. build_command_partial(ts, start, end) =
         [args |-> cmd.args, in |-> cmd.in, out |-> cmd.out,
          overflow |-> Len(cmd.args) + 1 > MAX_ARGS_CNT]
  <2>1. build_command_partial(ts, start, end) =
          LET all == SubSeq(ts, start + 1, end)
              last == (CHOOSE f : f = BuiltOf(all, f))[Len(all)]
          IN  [args |-> last.args, in |-> last.in, out |-> last.out,
               overflow |-> Len(last.args) + 1 > MAX_ARGS_CNT]
    BY DEF build_command_partial, BuiltOf, Added
  <2> QED
    BY <1>5, <1>9, <2>1, Zenon
<1>11. cmd = BuiltSoFar(tokens, Len(tokens))
  BY <1>1, <1>8, <1>9
<1>12. PICK full \in BOOLEAN : full = (Len(cmd.args) + 1 > MAX_ARGS_CNT)
  <2>1. cmd.args = After(tokens, Len(tokens), "word")
    BY <1>11 DEF BuiltSoFar, Built
  <2>2. Len(cmd.args) \in Nat
    BY <2>1, WordsAfterIs
  <2>3. (Len(cmd.args) + 1 > MAX_ARGS_CNT) \in BOOLEAN
    BY <2>2, SizeAssumption
  <2> QED
    BY <2>3, Zenon
<1>13. build_command_partial(ts, start, end) =
         [args |-> cmd.args, in |-> cmd.in, out |-> cmd.out, overflow |-> full]
  BY <1>10, <1>12, Zenon
<1>14. PICK command : command = build_command_partial(ts, start, end)
  OBVIOUS
<1>15. /\ command.args = cmd.args /\ command.in = cmd.in /\ command.out = cmd.out
       /\ command.overflow <=> full
  <2>1. command =
          [args |-> cmd.args, in |-> cmd.in, out |-> cmd.out, overflow |-> full]
    BY <1>13, <1>14, Zenon
  <2> QED
    BY <2>1
<1>16. IsBuilt(command, cmd)
  BY <1>12, <1>15 DEF IsBuilt
<1> QED
  BY <1>11, <1>14, <1>16

(* The tokens that the shell takes for a command are those of the command, *)
(* with & behind them if it is the last of a line that ends with &.        *)
Carries(tokens, one) ==
  /\ tokens \in Seq(Tokens) /\ one \in Seq(Tokens)
  /\ \A j \in 1 .. Len(one) : j \in 1 .. Len(tokens) /\ tokens[j] = one[j]
  /\ \/ Len(tokens) = Len(one)
     \/ Len(tokens) = Len(one) + 1 /\ tokens[Len(tokens)].type = "&"

LEMMA CarriesProper ==
  ASSUME NEW tokens, NEW one, Carries(tokens, one),
         \A j \in 1 .. Len(one) :
           /\ one[j].type \in {"<", ">"} => WordFollows(one, j)
           /\ one[j].type /= "|" /\ one[j].type /= "&"
  PROVE  Proper(tokens)
<1>1. PICK w \in Nat : w = Len(one)
  BY LenProperties DEF Carries
<1>2. PICK W \in Nat : W = Len(tokens)
  BY LenProperties DEF Carries
<1>3. ASSUME NEW j \in 1 .. W
      PROVE  /\ tokens[j].type \in {"<", ">"} => WordFollows(tokens, j)
             /\ tokens[j].type /= "|"
             /\ tokens[j].type = "&" => j = W
  <2>1. CASE j \in 1 .. w
    <3>1. /\ tokens[j] = one[j] /\ one[j].type /= "|" /\ one[j].type /= "&"
          /\ one[j].type \in {"<", ">"} => WordFollows(one, j)
      BY <1>1, <2>1 DEF Carries
    <3>2. ASSUME WordFollows(one, j) PROVE WordFollows(tokens, j)
      <4>1. j < w /\ one[j + 1].type = "word"
        BY <1>1, <3>2 DEF WordFollows
      <4>2. j + 1 \in 1 .. w
        BY <2>1, <4>1
      <4>3. j + 1 \in 1 .. W /\ tokens[j + 1] = one[j + 1]
        BY <1>1, <1>2, <4>2 DEF Carries
      <4>4. j < W
        BY <4>3
      <4> QED
        BY <1>2, <4>1, <4>3, <4>4 DEF WordFollows
    <3> QED
      BY <3>1, <3>2
  <2>2. CASE j \notin 1 .. w
    <3>1. j = W /\ tokens[j].type = "&"
      BY <1>1, <1>2, <2>2 DEF Carries
    <3> QED
      BY <3>1
  <2> QED
    BY <2>1, <2>2
<1> QED
  BY <1>2, <1>3 DEF Proper

LEMMA CarriesSame ==
  ASSUME NEW tokens, NEW one, Carries(tokens, one), NEW type
  PROVE  After(tokens, Len(tokens), type) = After(one, Len(one), type)
<1>1. PICK w \in Nat : w = Len(one)
  BY LenProperties DEF Carries
<1>2. PICK W \in Nat : W = Len(tokens)
  BY LenProperties DEF Carries
<1>3. \A j \in 1 .. w : j \in 1 .. W /\ tokens[j] = one[j]
  BY <1>1, <1>2 DEF Carries
<1>4. \/ W = w
      \/ W = w + 1 /\ tokens[W].type = "&"
  BY <1>1, <1>2 DEF Carries
<1>5. PICK S : S = Places(one, w, type)
  OBVIOUS
<1>6. \A p \in S : p \in 1 .. w
  BY <1>5 DEF Places
<1>7. Places(tokens, W, type) = S
  <2>1. ASSUME NEW p \in 1 .. w
        PROVE  /\ tokens[p] = one[p] /\ p \in 1 .. W
               /\ p /= 1 => tokens[p - 1] = one[p - 1]
    <3>1. p /= 1 => p - 1 \in 1 .. w
      OBVIOUS
    <3> QED
      BY <1>3, <3>1
  <2>2. ASSUME NEW p \in 1 .. W, tokens[p].type = "word" PROVE p \in 1 .. w
    BY <1>4, <2>2
  <2>3. \A p : p \in Places(tokens, W, type) <=> p \in S
    BY <1>5, <2>1, <2>2 DEF Places
  <2> QED
    BY <2>3 DEF Places
<1>8. S \in SUBSET (0 .. w) /\ S \in SUBSET Nat
  BY <1>6
<1>9. IsFiniteSet(S)
  BY <1>8, UpToFinite
<1>10. \A p \in S : Values(tokens)[p] = Values(one)[p]
  <2>1. DOMAIN one = 1 .. w /\ DOMAIN tokens = 1 .. W
    BY <1>1, <1>2, LenProperties DEF Carries
  <2> QED
    BY <1>3, <1>6, <2>1 DEF Values
<1>11. Each(S, Values(tokens)) = Each(S, Values(one))
  BY <1>8, <1>9, <1>10, EachSame
<1> QED
  BY <1>1, <1>2, <1>5, <1>7, <1>11 DEF After

LEMMA TokensOfCommand ==
  ASSUME NEW ts \in Seq(Tokens), NEW b \in Seq(Tokens), NEW c, NEW parts,
         Line(ts, b, c), Parts(b, c, parts), NEW m \in 1 .. Len(c) - 1
  PROVE  Carries(SubSeq(ts, c[m] + 1, Until(ts, c, m - 1)), parts[m])
<1>1. PICK N \in Nat : N = Len(c) /\ N > 1
  BY LenProperties DEF Line, Cut
<1>2. PICK n \in Nat : n = Len(b)
  BY LenProperties
<1>3. PICK L \in Nat : L = Len(ts)
  BY LenProperties
<1>4. /\ L = n \/ (L = n + 1 /\ ts[L].type = "&")
      /\ \A i \in 1 .. n : i \in 1 .. L /\ b[i] = ts[i]
  BY <1>2, <1>3 DEF Line
<1>5. \A j \in 1 .. N : c[j] \in Nat
  <2>1. c \in Seq(Nat)
    BY DEF Line, Cut
  <2> QED
    BY <1>1, <2>1, ElementOfSeq
<1>6. m \in 1 .. N /\ m + 1 \in 1 .. N
  BY <1>1
<1>7. PICK x \in Nat : x = c[m]
  BY <1>5, <1>6
<1>8. PICK y \in Nat : y = c[m + 1]
  BY <1>5, <1>6
<1>9. x < y
  BY <1>1, <1>6, <1>7, <1>8 DEF Line, Cut
<1>10. PICK one \in Seq(Tokens) : one = parts[m]
  BY DEF Parts
<1>11. PICK w \in Nat : w = Len(one)
  BY LenProperties
<1>12. /\ w = y - x - 1
       /\ \A j \in 1 .. w : x + j \in 1 .. n /\ one[j] = b[x + j]
  BY <1>2, <1>7, <1>8, <1>10, <1>11 DEF Parts
<1>13. \A j \in 1 .. w : x + j \in 1 .. L /\ one[j] = ts[x + j]
  BY <1>4, <1>12
<1>14. PICK e \in Int : /\ e = Until(ts, c, m - 1) /\ e <= L
                        /\ e = x + w \/ (e = x + w + 1 /\ ts[e].type = "&")
  <2>1. m - 1 + 2 = m + 1
    OBVIOUS
  <2>2. CASE m + 1 = N
    <3>1. y = n + 1
      BY <1>1, <1>2, <1>8, <2>2 DEF Line, Cut
    <3>2. Until(ts, c, m - 1) = L
      BY <1>1, <1>3, <2>1, <2>2 DEF Until
    <3>3. x + w = n
      BY <1>12, <3>1
    <3>4. L \in Int /\ L <= L
      OBVIOUS
    <3> QED
      BY <1>4, <3>2, <3>3, <3>4
  <2>3. CASE m + 1 /= N
    <3>1. m + 1 \in 2 .. N - 1
      BY <1>1, <2>3
    <3>2. y \in 1 .. n
      BY <1>1, <1>2, <1>8, <3>1 DEF Line, Cut
    <3>3. Until(ts, c, m - 1) = y - 1
      BY <1>1, <1>8, <2>1, <2>3 DEF Until
    <3>4. y - 1 \in Int /\ y - 1 <= L /\ y - 1 = x + w
      BY <1>4, <1>12, <3>2
    <3> QED
      BY <3>3, <3>4
  <2> QED
    BY <2>2, <2>3
<1>15. PICK lo \in Nat : lo = x + 1
  OBVIOUS
<1>16. PICK tokens : tokens = SubSeq(ts, lo, e)
  OBVIOUS
<1>17. PICK W \in Nat : W = e - x
  BY <1>14
<1>18. tokens \in Seq(Tokens) /\ Len(tokens) = W /\ \A j \in 1 .. W : tokens[j] = ts[x + j]
  <2>1. \A i \in lo .. e : i \in 1 .. Len(ts)
    BY <1>3, <1>14, <1>15
  <2>2. \A i \in lo .. e : ts[i] \in Tokens
    BY <2>1, ElementOfSeq
  <2>3. /\ tokens \in Seq(Tokens)
        /\ Len(tokens) = IF lo <= e THEN e - lo + 1 ELSE 0
        /\ \A i \in 1 .. e - lo + 1 : tokens[i] = ts[lo + i - 1]
    BY <1>16, <2>2, SubSeqProperties
  <2>4. e - lo + 1 = W /\ (lo <= e \/ W = 0)
    <3>1. e \in Int /\ W = e - x /\ lo = x + 1
      BY <1>14, <1>15, <1>17
    <3> QED
      BY <3>1
  <2>5. Len(tokens) = W
    BY <2>3, <2>4
  <2>6. ASSUME NEW j \in 1 .. W PROVE tokens[j] = ts[x + j]
    <3>1. lo + j - 1 = x + j
      BY <1>15
    <3> QED
      BY <2>3, <2>4, <3>1
  <2> QED
    BY <2>3, <2>5, <2>6
<1>19. W = w \/ (W = w + 1 /\ ts[e].type = "&")
  BY <1>14, <1>17
<1>20. \A j \in 1 .. w : j \in 1 .. W /\ tokens[j] = one[j]
  <2>1. \A j \in 1 .. w : j \in 1 .. W
    BY <1>19
  <2> QED
    BY <1>13, <1>18, <2>1
<1>21. \/ W = w
       \/ W = w + 1 /\ tokens[W].type = "&"
  <2>1. ASSUME W = w + 1, ts[e].type = "&" PROVE tokens[W].type = "&"
    <3>1. W \in 1 .. W /\ x + W = e
      BY <1>17, <2>1
    <3> QED
      BY <1>18, <2>1, <3>1
  <2> QED
    BY <1>19, <2>1
<1>22. Carries(tokens, one)
  BY <1>11, <1>18, <1>20, <1>21 DEF Carries
<1> QED
  BY <1>7, <1>10, <1>14, <1>15, <1>16, <1>22

AsWritten(read, one) ==
  LET words == WordsAfter(one, {"word"})
  IN  IF Len(words) >= MAX_ARGS_CNT THEN read.overflow
      ELSE /\ ~read.overflow /\ read.args = words
           /\ read.in = WordsAfter(one, {"<"})
           /\ read.out = WordsAfter(one, {">"})

LEMMA CommandRead ==
  ASSUME NEW ts \in Seq(Tokens), NEW b \in Seq(Tokens), NEW c, NEW parts,
         Line(ts, b, c), Parts(b, c, parts), NEW m \in 1 .. Len(c) - 1
  PROVE  AsWritten(build_command_partial(ts, c[m], Until(ts, c, m - 1)), parts[m])
<1>1. PICK N \in Nat : N = Len(c) /\ N > 1
  BY LenProperties DEF Line, Cut
<1>2. PICK one \in Seq(Tokens) : one = parts[m]
  BY DEF Parts
<1>3. PICK tokens : tokens = SubSeq(ts, c[m] + 1, Until(ts, c, m - 1))
  OBVIOUS
<1>4. Carries(tokens, one)
  BY <1>2, <1>3, TokensOfCommand
<1>5. WellFormed(b) /\ Cut(b, c)
  BY DEF Line
<1>6. IsCommand(one)
  <2>1. /\ WordFollows(b, 0)
        /\ \A i \in 1 .. Len(b) :
             b[i].type \in {"|", "<", ">"} => WordFollows(b, i)
    BY <1>5 DEF WellFormed
  <2>2. \A l \in 1 .. Len(c) - 1 : IsCommand(parts[l])
    BY <1>5, <2>1, CommandsSound
  <2> QED
    BY <1>2, <2>2
<1>7. ASSUME NEW j \in 1 .. Len(one)
      PROVE  /\ one[j].type \in {"<", ">"} => WordFollows(one, j)
             /\ one[j].type /= "|" /\ one[j].type /= "&"
  <2>1. one[j].type \in {"<", ">"} => WordFollows(one, j)
    BY <1>6, CommandIs
  <2>2. At(b, c, m, j, c[m] + j) /\ one[j] = b[c[m] + j]
    BY <1>2, <1>5, PartOf
  <2>3. b[c[m] + j].type /= "|"
    BY <1>5, <2>2, NotThePipe
  <2>4. b[c[m] + j].type /= "&"
    BY <1>5, <2>2 DEF WellFormed, At
  <2> QED
    BY <2>1, <2>2, <2>3, <2>4
<1>8. Proper(tokens)
  BY <1>4, <1>7, CarriesProper
<1>9. tokens \in Seq(Tokens)
  BY <1>4 DEF Carries
<1>10. PICK read : read = build_command_partial(ts, c[m], Until(ts, c, m - 1))
  OBVIOUS
<1>11. IsBuilt(read, BuiltSoFar(tokens, Len(tokens)))
  BY <1>3, <1>8, <1>9, <1>10, BuildIs
<1>12. ASSUME NEW type PROVE After(tokens, Len(tokens), type) = WordsAfter(one, {type})
  BY <1>4, CarriesSame, WordsAfterIs
<1>13. PICK words : words = WordsAfter(one, {"word"})
  OBVIOUS
<1>14. /\ read.args = words
       /\ read.in = WordsAfter(one, {"<"}) /\ read.out = WordsAfter(one, {">"})
       /\ read.overflow <=> Len(words) + 1 > MAX_ARGS_CNT
  BY <1>11, <1>12, <1>13 DEF IsBuilt, BuiltSoFar, Built
<1>15. Len(words) \in Nat
  BY <1>2, <1>13, WordsAfterIs
<1>16. Len(words) >= MAX_ARGS_CNT <=> Len(words) + 1 > MAX_ARGS_CNT
  BY <1>15, SizeAssumption
<1>17. AsWritten(read, one)
  BY <1>13, <1>14, <1>16 DEF AsWritten
<1> QED
  BY <1>2, <1>10, <1>17

(* A line that is accepted is run as it is written: the shell makes one    *)
(* process of every command between pipes, and gives it the words of that  *)
(* command as arguments and the words behind < and > as files; a command   *)
(* overflows args exactly when it has MAX_ARGS_CNT words or more.          *)
THEOREM CommandsRun == Spec => []CommandsAsWritten
<1>1. Lexed => CommandsAsWritten
  <2>1. SUFFICES ASSUME Lexed, state = "LEX_SUCCESS", oTokens /= <<>>,
                        syntax_check(oTokens) = "SUCCESS",
                        NEW parts, parts = Commands(Body(oTokens))
                 PROVE  /\ Len(CommandsOf(oTokens)) = Len(parts)
                        /\ \A m \in DOMAIN parts :
                             AsWritten(CommandsOf(oTokens)[m], parts[m])
    BY DEF CommandsAsWritten, AsWritten
  <2>2. PICK ts \in Seq(Tokens) : ts = oTokens
    BY <2>1 DEF Lexed
  <2>3. \A i \in 1 .. Len(ts) : Sound(ts, i)
    BY <2>1, <2>2, CheckIs
  <2>4. WellFormed(Body(ts))
    BY <2>1, <2>2, <2>3, SoundLine
  <2>5. PICK b \in Seq(Tokens) : b = Body(ts)
    BY <2>1, <2>2, BodyIs
  <2>6. PICK c : c = InOrder(Cuts(b))
    OBVIOUS
  <2>7. Line(ts, b, c)
    BY <2>1, <2>2, <2>4, <2>5, <2>6, LineIs
  <2>8. Parts(b, c, parts)
    BY <2>1, <2>2, <2>5, <2>6, PartsAre
  <2>9. CommandsOf(ts) =
          [i \in 1 .. Len(c) - 1 |->
             build_command_partial(ts, c[i], Until(ts, c, i - 1))]
    BY <2>6, <2>7, CommandsFound
  <2>10. PICK N \in Nat : N = Len(c) /\ N > 1
    BY <2>7, LenProperties DEF Line, Cut
  <2>11. Len(CommandsOf(ts)) = N - 1
    BY <2>9, <2>10
  <2>12. DOMAIN parts = 1 .. N - 1 /\ Len(parts) = N - 1
    BY <2>8, <2>10 DEF Parts
  <2>13. ASSUME NEW m \in 1 .. N - 1
         PROVE  AsWritten(CommandsOf(ts)[m], parts[m])
    <3>1. m \in 1 .. Len(c) - 1
      BY <2>10
    <3>2. CommandsOf(ts)[m] = build_command_partial(ts, c[m], Until(ts, c, m - 1))
      BY <2>9, <3>1
    <3> QED
      BY <2>7, <2>8, <3>1, <3>2, CommandRead
  <2> QED
    BY <2>2, <2>11, <2>12, <2>13
<1> QED
  BY <1>1, LexerInvariance, PTL

-----------------------------------------------------------------------------
(* execute.c: the wiring of the pipeline.                                  *)
Started == {"fork", "close"}

(* The read end of the pipe before the loop's command is the one end that  *)
(* the shell keeps from one command to the next, in save_fd.               *)
Kept == IF k = 1 THEN {} ELSE {Read(k - 1)}
Made == IF IsLast THEN {} ELSE {Read(k), Write(k)}

ShellWired ==
  /\ k \in Nat \ {0}
  /\ step = "idle" => k = 1
  /\ step \in {"idle", "pipe"} => shellEnds = Kept
  /\ step \in Started => shellEnds = Kept \union Made
  /\ step \in {"idle", "pipe"} \union Started =>
       save_fd = IF k = 1 THEN NoEnd ELSE Read(k - 1)
  /\ step \in {"wait", "done", "died"} => shellEnds = {}

(* A child has inherited no end but those it will duplicate or close, and  *)
(* a program works with the ends that its place gives it.                  *)
Around(p) == {Read(p - 1), Read(p), Write(p)}
ChildWired(p) ==
  /\ child[p] = "forked" => ends[p] \subseteq Around(p)
  /\ child[p] = "running" =>
       /\ ends[p] = {}
       /\ stdin[p] \in {Terminal, File, Read(p - 1)}
       /\ stdout[p] \in {Terminal, File, Write(p)}

Functions ==
  /\ child \in [Procs -> {"unborn", "forked", "running", "over"}]
  /\ DOMAIN ends = Procs /\ DOMAIN stdin = Procs /\ DOMAIN stdout = Procs

Wired ==
  /\ step \in {"idle", "pipe", "fork", "close", "wait", "done", "died"}
  /\ Functions
  /\ ShellWired
  /\ \A p \in Procs : ChildWired(p)

-----------------------------------------------------------------------------
LEMMA InitWired == Init => Wired
<1> SUFFICES ASSUME Init PROVE Wired
  OBVIOUS
<1> USE DEF Init, PipelineInit
<1>1. Functions
  BY DEF Functions
<1>2. ShellWired
  BY DEF ShellWired, Kept, Started
<1>3. \A p \in Procs : ChildWired(p)
  BY DEF ChildWired
<1> QED
  BY <1>1, <1>2, <1>3 DEF Wired

(* What every step of the shell's loop does to its own descriptors.        *)
LEMMA LoopWired ==
  ASSUME Wired, MakePipe \/ Fork \/ ParentCloses \/ WaitFg \/ ShellFails
  PROVE  ShellWired'
<1> USE DEF Wired, ShellWired, Started
<1>1. CASE MakePipe
  <2>1. Kept' = Kept /\ Made' = Made
    BY <1>1 DEF MakePipe, Kept, Made, IsLast, Read, Write
  <2>2. shellEnds' = Kept \union Made
    BY <1>1 DEF MakePipe, Made
  <2> QED
    BY <1>1, <2>1, <2>2 DEF MakePipe, Read
<1>2. CASE Fork
  <2>1. Kept' = Kept /\ Made' = Made
    BY <1>2 DEF Fork, Kept, Made, IsLast, Read, Write
  <2> QED
    BY <1>2, <2>1 DEF Fork, Read
<1>3. CASE ParentCloses
  <2>1. shellEnds = Kept \union Made /\ k' = k + 1 /\ k' \in Nat \ {0, 1}
    BY <1>3 DEF ParentCloses
  <2>2. NoEnd \notin Made /\ save_fd /= Write(k) /\ Kept \subseteq {save_fd}
    BY <1>3 DEF ParentCloses, NoEnd, Made, Kept, Read, Write
  <2>3. CASE IsLast
    <3>1. shellEnds' = {}
      BY <1>3, <2>1, <2>2, <2>3 DEF ParentCloses, Made
    <3>2. step' = "wait"
      BY <1>3, <2>3 DEF ParentCloses
    <3> QED
      BY <2>1, <3>1, <3>2
  <2>4. CASE ~IsLast
    <3>1. Read(k) /= save_fd /\ Read(k) /= Write(k)
      BY <1>3 DEF ParentCloses, NoEnd, Read, Write
    <3>2. shellEnds' = {Read(k)}
      BY <1>3, <2>1, <2>2, <2>4, <3>1 DEF ParentCloses, Made
    <3>3. step' = "pipe" /\ save_fd' = Read(k)
      BY <1>3, <2>4 DEF ParentCloses
    <3>4. k' - 1 = k /\ k' /= 1
      BY <2>1
    <3>5. Kept' = {Read(k)}
      BY <3>4 DEF Kept, Read
    <3>6. Read(k' - 1) = Read(k)
      BY <3>4
    <3> QED
      BY <2>1, <3>2, <3>3, <3>4, <3>5, <3>6 DEF Read
  <2> QED
    BY <2>3, <2>4
<1>4. CASE WaitFg
  BY <1>4 DEF WaitFg
<1>5. CASE ShellFails
  BY <1>5 DEF ShellFails
<1> QED
  BY <1>1, <1>2, <1>3, <1>4, <1>5

(* The shell forks into what it has open: the ends around place k.         *)
LEMMA ForkWired ==
  ASSUME Wired, Fork
  PROVE  Functions' /\ \A p \in Procs : ChildWired(p)'
<1> USE DEF Wired, Functions
<1>1. shellEnds \subseteq Around(k)
  BY DEF Fork, ShellWired, Started, Kept, Made, Around
<1>2. Functions'
  BY DEF Fork
<1>3. ASSUME NEW p \in Procs PROVE ChildWired(p)'
  <2>1. CASE p = k
    <3>1. child'[p] = "forked" /\ ends'[p] = shellEnds
      BY <2>1, <1>3 DEF Fork
    <3> QED
      BY <1>1, <2>1, <3>1 DEF ChildWired, Around, Read, Write
  <2>2. CASE p /= k
    <3>1. child'[p] = child[p] /\ ends'[p] = ends[p]
      BY <2>2, <1>3 DEF Fork
    <3> QED
      BY <1>3, <3>1 DEF Fork, ChildWired, Around, Read, Write
  <2> QED
    BY <2>1, <2>2
<1> QED
  BY <1>2, <1>3

LEMMA ExecWired ==
  ASSUME Wired, NEW p \in Procs, ChildExec(p)
  PROVE  Functions' /\ \A q \in Procs : ChildWired(q)'
<1> USE DEF Wired, Functions
<1>1. Functions'
  BY DEF ChildExec
<1>2. ASSUME NEW q \in Procs PROVE ChildWired(q)'
  <2>1. CASE q = p
    <3>1. child'[q] = "running"
      BY <2>1 DEF ChildExec
    <3>2. ends'[q] = ends[p] \ {Read(p - 1), Read(p), Write(p)}
      BY <2>1 DEF ChildExec
    <3>3. ends[p] \subseteq Around(p)
      BY DEF ChildExec, ChildWired
    <3>4. stdin'[q] \in {Terminal, File, Read(p - 1)}
      BY <2>1 DEF ChildExec
    <3>5. stdout'[q] \in {Terminal, File, Write(p)}
      BY <2>1 DEF ChildExec
    <3> QED
      BY <2>1, <3>1, <3>2, <3>3, <3>4, <3>5
      DEF ChildWired, Around, Terminal, File, Read, Write
  <2>2. CASE q /= p
    <3>1. /\ child'[q] = child[q] /\ ends'[q] = ends[q]
          /\ stdin'[q] = stdin[q] /\ stdout'[q] = stdout[q]
      BY <2>2, <1>2 DEF ChildExec
    <3> QED
      BY <1>2, <3>1 DEF ChildWired, Around, Terminal, File, Read, Write
  <2> QED
    BY <2>1, <2>2
<1> QED
  BY <1>1, <1>2

(* A process that ends, reads or writes keeps the ends it has.             *)
LEMMA OthersWired ==
  ASSUME Wired,
         UNCHANGED <<ends, stdin, stdout>>,
         \/ UNCHANGED child
         \/ \E p \in Procs : child' = [child EXCEPT ![p] = "over"]
  PROVE  Functions' /\ \A q \in Procs : ChildWired(q)'
<1> USE DEF Wired, Functions
<1>1. ends' = ends /\ stdin' = stdin /\ stdout' = stdout
  OBVIOUS
<1>2. Functions'
  BY <1>1
<1>3. ASSUME NEW q \in Procs PROVE ChildWired(q)'
  <2>1. child'[q] = child[q] \/ child'[q] = "over"
    BY <1>3
  <2> QED
    BY <1>1, <1>3, <2>1 DEF ChildWired, Around, Terminal, File, Read, Write
<1> QED
  BY <1>2, <1>3

(* ShellWired is about the shell alone.                                    *)
LEMMA ShellStays ==
  ASSUME ShellWired, UNCHANGED <<cmds, step, k, save_fd, shellEnds>>
  PROVE  ShellWired'
<1>1. /\ cmds' = cmds /\ step' = step /\ k' = k
      /\ save_fd' = save_fd /\ shellEnds' = shellEnds
  OBVIOUS
<1>2. Kept' = Kept /\ Made' = Made /\ Read(k' - 1) = Read(k - 1)
  BY <1>1 DEF Kept, Made, IsLast, Read, Write
<1> QED
  BY <1>1, <1>2 DEF ShellWired, Started, Read, NoEnd

LEMMA StartWired ==
  ASSUME Wired, NEW commands, NEW bg, StartPipeline(commands, bg)
  PROVE  Wired'
<1>1. UNCHANGED <<k, save_fd, shellEnds, child, stdin, stdout, ends>>
      /\ step = "idle" /\ step' = "pipe"
  BY DEF StartPipeline
<1>2. Functions' /\ \A q \in Procs : ChildWired(q)'
  BY <1>1, OthersWired
<1>3. k' = k /\ save_fd' = save_fd /\ shellEnds' = shellEnds
  BY <1>1
<1>4. Kept' = Kept /\ Read(k' - 1) = Read(k - 1)
  BY <1>3 DEF Kept, Read
<1>5. ShellWired'
  BY <1>1, <1>3, <1>4 DEF Wired, ShellWired, Started, Read, NoEnd
<1> QED
  BY <1>1, <1>2, <1>5 DEF Wired

LEMMA StepWired ==
  ASSUME Wired, PipelineNext
  PROVE  Wired'
<1> DEFINE Loop == MakePipe \/ Fork \/ ParentCloses \/ WaitFg \/ ShellFails
<1>1. CASE Loop
  <2>1. ShellWired'
    BY <1>1, LoopWired
  <2>2. Functions' /\ \A p \in Procs : ChildWired(p)'
    <3>1. CASE Fork
      BY <3>1, ForkWired
    <3>2. CASE ~Fork
      <4>1. UNCHANGED <<ends, stdin, stdout, child>>
        BY <1>1, <3>2 DEF MakePipe, ParentCloses, WaitFg, ShellFails
      <4> QED
        BY <4>1, OthersWired
    <3> QED
      BY <3>1, <3>2
  <2>3. step' \in {"idle", "pipe", "fork", "close", "wait", "done", "died"}
    BY <1>1 DEF MakePipe, Fork, ParentCloses, WaitFg, ShellFails
  <2> QED
    BY <2>1, <2>2, <2>3 DEF Wired
<1>2. CASE \E p \in Procs : Runs(p) \/ Type(p) \/ Quit(p)
  <2>1. PICK p \in Procs : Runs(p) \/ Type(p) \/ Quit(p)
    BY <1>2
  <2>2. UNCHANGED <<cmds, step, k, save_fd, shellEnds>>
    BY <2>1 DEF Runs, Type, Quit, ChildExec, ChildFails, Input, Output
  <2>3. ShellWired' /\ step' = step
    BY <2>2, ShellStays DEF Wired
  <2>4. Functions' /\ \A q \in Procs : ChildWired(q)'
    <3>1. CASE ChildExec(p)
      BY <3>1, ExecWired
    <3>2. CASE ~ChildExec(p)
      <4>1. UNCHANGED <<ends, stdin, stdout>>
        BY <2>1, <3>2 DEF Runs, Type, Quit, ChildFails, Input, Output
      <4>2. UNCHANGED child \/ child' = [child EXCEPT ![p] = "over"]
        BY <2>1, <3>2 DEF Runs, Type, Quit, ChildFails, Input, Output, Ends
      <4> QED
        BY <4>1, <4>2, OthersWired
    <3> QED
      BY <3>1, <3>2
  <2> QED
    BY <2>3, <2>4 DEF Wired
<1> QED
  BY <1>1, <1>2 DEF PipelineNext, ShellLoop

LEMMA NextWired ==
  ASSUME Wired, [Next]_vars
  PROVE  Wired'
<1>1. ASSUME UNCHANGED pipeVars PROVE Wired'
  <2>1. UNCHANGED <<cmds, step, k, save_fd, shellEnds, child, ends, stdin,
                    stdout>>
    BY <1>1 DEF pipeVars
  <2>2. ShellWired' /\ step' = step
    BY <2>1, ShellStays DEF Wired
  <2>3. Functions' /\ \A q \in Procs : ChildWired(q)'
    BY <2>1, OthersWired
  <2> QED
    BY <2>2, <2>3 DEF Wired
<1>2. CASE Lex
  BY <1>1, <1>2 DEF Lex
<1>3. CASE Refuse
  BY <1>1, <1>3 DEF Refuse, Finish
<1>4. CASE execute_exit
  BY <1>1, <1>4 DEF execute_exit, Finish
<1>5. CASE execute_cd
  BY <1>1, <1>5 DEF execute_cd, Finish
<1>6. CASE Execute
  BY <1>6, StartWired DEF Execute
<1>7. CASE Run
  BY <1>7, StepWired DEF Run
<1>8. CASE UNCHANGED vars
  BY <1>1, <1>8 DEF vars
<1> QED
  BY <1>2, <1>3, <1>4, <1>5, <1>6, <1>7, <1>8 DEF Next

-----------------------------------------------------------------------------
LEMMA WiredSuffices ==
  ASSUME Wired
  PROVE  PipesWired
<1> DEFINE running == {p \in Procs : child[p] = "running"}
<1>1. \A p \in running : ends[p] = {}
  BY DEF Wired, ChildWired
<1>2. ASSUME NEW p \in running, NEW q \in running, p /= q
      PROVE {stdin[p], stdout[p]} \intersect {stdin[q], stdout[q]}
              \subseteq {Terminal, File}
  <2>1. p \in Int /\ q \in Int
    BY ProcsAssumption DEF Procs
  <2>2. /\ stdin[p] \in {Terminal, File, Read(p - 1)}
        /\ stdout[p] \in {Terminal, File, Write(p)}
        /\ stdin[q] \in {Terminal, File, Read(q - 1)}
        /\ stdout[q] \in {Terminal, File, Write(q)}
    BY DEF Wired, ChildWired
  <2>3. /\ Read(p - 1) /= Read(q - 1) /\ Write(p) /= Write(q)
        /\ Read(p - 1) /= Write(q) /\ Write(p) /= Read(q - 1)
    BY <1>2, <2>1 DEF Read, Write
  <2> QED
    BY <2>2, <2>3
<1>3. step \in {"wait", "done"} => shellEnds = {}
  BY DEF Wired, ShellWired
<1> QED
  BY <1>1, <1>2, <1>3 DEF PipesWired

(* Every program of a pipeline of any length has open only the ends of the *)
(* pipes to its neighbours, shares them with no other, and the shell keeps *)
(* none once it has started them all: iter_pipe_fork_exec closes what it   *)
(* should, before and after every fork.                                    *)
THEOREM NeighboursWired == Spec => []PipesWired
<1>1. Init => Wired
  BY InitWired
<1>2. Wired /\ [Next]_vars => Wired'
  BY NextWired
<1>3. Wired => PipesWired
  BY WiredSuffices
<1> QED
  BY <1>1, <1>2, <1>3, PTL DEF Spec
=============================================================================
