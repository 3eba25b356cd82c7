-------------------------- MODULE JobControl_proofs --------------------------
(***************************************************************************)
(* Theorems about JobControl, for any numbers of processes, of jobs and of *)
(* job structures, for every set of commands, and wherever the handlers    *)
(* run.                                                                    *)
(***************************************************************************)
EXTENDS JobControl, FiniteSetTheorems, SequenceTheorems, WellFoundedInduction,
        TLAPS

-----------------------------------------------------------------------------
(* Lists.                                                                  *)

Distinct(s) == \A k, l \in DOMAIN s : s[k] = s[l] => k = l

(* A set of naturals that is not empty has a least element.                *)
LEMMA Least ==
  ASSUME NEW T \in SUBSET Nat, T /= {}
  PROVE  \E x \in T : \A y \in T : x <= y
<1> DEFINE R == {p \in Nat \X Nat : p[1] < p[2]}
<1>1. R = OpToRel(<, Nat)
  BY DEF OpToRel
<1>2. IsWellFoundedOn(R, Nat)
  BY <1>1, NatLessThanWellFounded
<1>3. \E x \in T : \A y \in T : ~(<<y, x>> \in R)
  BY <1>2, WFMin
<1>4. \A x, y \in T : ~(<<y, x>> \in R) => x <= y
  OBVIOUS
<1> QED
  BY <1>3, <1>4

(* Where an element stands in a list.                                      *)
Place(s, c) == CHOOSE k \in DOMAIN s : s[k] = c

LEMMA PlaceOf ==
  ASSUME NEW S, NEW s \in Seq(S), NEW c \in ToSet(s)
  PROVE  /\ Place(s, c) \in 1 .. Len(s)
         /\ s[Place(s, c)] = c
         /\ c \in S
<1>1. DOMAIN s = 1 .. Len(s) /\ s \in [1 .. Len(s) -> S]
  BY LenProperties
<1>2. \E k \in DOMAIN s : s[k] = c
  BY DEF ToSet
<1> QED
  BY <1>1, <1>2 DEF Place

(* A list without its k-th element.                                        *)
LEMMA Without ==
  ASSUME NEW S, NEW s \in Seq(S), NEW k \in 1 .. Len(s)
  PROVE  /\ RemoveAt(s, k) \in Seq(S)
         /\ Len(RemoveAt(s, k)) = Len(s) - 1
         /\ \A j \in 1 .. Len(s) - 1 :
              RemoveAt(s, k)[j] = IF j < k THEN s[j] ELSE s[j + 1]
<1>1. Len(s) \in Nat /\ s \in [1 .. Len(s) -> S]
  BY LenProperties
<1>2. /\ SubSeq(s, 1, k - 1) \in Seq(S)
      /\ Len(SubSeq(s, 1, k - 1)) = k - 1
      /\ \A j \in 1 .. k - 1 : SubSeq(s, 1, k - 1)[j] = s[j]
  <2>1. \A j \in 1 .. k - 1 : s[j] \in S
    BY <1>1
  <2>2. /\ SubSeq(s, 1, k - 1) \in Seq(S)
        /\ Len(SubSeq(s, 1, k - 1))
             = IF 1 <= k - 1 THEN (k - 1) - 1 + 1 ELSE 0
        /\ \A j \in 1 .. (k - 1) - 1 + 1 :
             SubSeq(s, 1, k - 1)[j] = s[1 + j - 1]
    BY <2>1, SubSeqProperties
  <2> QED
    BY <2>2
<1>3. /\ SubSeq(s, k + 1, Len(s)) \in Seq(S)
      /\ Len(SubSeq(s, k + 1, Len(s))) = Len(s) - k
      /\ \A j \in 1 .. Len(s) - k : SubSeq(s, k + 1, Len(s))[j] = s[k + j]
  <2>1. \A j \in k + 1 .. Len(s) : s[j] \in S
    BY <1>1
  <2>2. /\ SubSeq(s, k + 1, Len(s)) \in Seq(S)
        /\ Len(SubSeq(s, k + 1, Len(s)))
             = IF k + 1 <= Len(s) THEN Len(s) - (k + 1) + 1 ELSE 0
        /\ \A j \in 1 .. Len(s) - (k + 1) + 1 :
             SubSeq(s, k + 1, Len(s))[j] = s[k + 1 + j - 1]
    BY <1>1, <2>1, SubSeqProperties
  <2>3. Len(s) - (k + 1) + 1 = Len(s) - k
    BY <1>1
  <2>4. /\ k \in Nat /\ Len(s) \in Nat /\ k <= Len(s)
    BY <1>1
  <2>5. PICK n : n = Len(s) - k
    OBVIOUS
  <2>6. PICK r : r = SubSeq(s, k + 1, Len(s))
    OBVIOUS
  <2>7. r \in Seq(S) /\ \A j \in 1 .. n : r[j] = s[k + 1 + j - 1]
    BY <2>2, <2>3, <2>5, <2>6
  <2>8. Len(r) = n
    <3>1. CASE k + 1 <= Len(s)
      BY <2>2, <2>3, <2>5, <2>6, <3>1
    <3>2. CASE ~(k + 1 <= Len(s))
      <4>1. n = 0
        BY <2>4, <2>5, <3>2
      <4> QED
        BY <2>2, <2>6, <3>2, <4>1
    <3> QED
      BY <3>1, <3>2
  <2>9. ASSUME NEW j \in 1 .. n
        PROVE  r[j] = s[k + j]
    <3>1. k + 1 + j - 1 = k + j
      BY <2>4, <2>5
    <3> QED
      BY <2>7, <3>1
  <2> QED
    BY <2>5, <2>6, <2>7, <2>8, <2>9
<1>4. RemoveAt(s, k) = SubSeq(s, 1, k - 1) \o SubSeq(s, k + 1, Len(s))
  BY DEF RemoveAt
<1>5. PICK a, b : a = SubSeq(s, 1, k - 1) /\ b = SubSeq(s, k + 1, Len(s))
  OBVIOUS
<1>6. /\ a \in Seq(S) /\ b \in Seq(S)
      /\ Len(a) = k - 1 /\ Len(b) = Len(s) - k
      /\ \A j \in 1 .. k - 1 : a[j] = s[j]
      /\ \A j \in 1 .. Len(s) - k : b[j] = s[k + j]
  BY <1>2, <1>3, <1>5
<1>7. /\ a \o b \in Seq(S)
      /\ Len(a \o b) = Len(a) + Len(b)
      /\ \A j \in 1 .. Len(a) + Len(b) :
           (a \o b)[j] = IF j <= Len(a) THEN a[j] ELSE b[j - Len(a)]
  BY <1>6, ConcatProperties
<1>8. ASSUME NEW j \in 1 .. Len(s) - 1
      PROVE  (a \o b)[j] = IF j < k THEN s[j] ELSE s[j + 1]
  <2>1. CASE j < k
    BY <1>1, <1>6, <1>7, <2>1
  <2>2. CASE ~(j < k)
    <3>1. j - (k - 1) \in 1 .. Len(s) - k
      BY <1>1, <2>2
    <3>2. (a \o b)[j] = b[j - (k - 1)]
      BY <1>1, <1>6, <1>7, <2>2
    <3>3. b[j - (k - 1)] = s[k + (j - (k - 1))] /\ k + (j - (k - 1)) = j + 1
      BY <1>6, <3>1
    <3> QED
      BY <2>2, <3>2, <3>3
  <2> QED
    BY <2>1, <2>2
<1>9. Len(a \o b) = Len(s) - 1
  BY <1>1, <1>6, <1>7
<1> QED
  BY <1>4, <1>5, <1>7, <1>8, <1>9

(* A list without one of its elements: it is one shorter and has the       *)
(* others, each once.                                                      *)
LEMMA Removed ==
  ASSUME NEW S, NEW s \in Seq(S), Distinct(s), NEW c \in ToSet(s)
  PROVE  LET r == RemoveAt(s, Place(s, c)) IN
           /\ r \in Seq(S)
           /\ Len(r) = Len(s) - 1
           /\ Distinct(r)
           /\ ToSet(r) = ToSet(s) \ {c}
<1> DEFINE k == Place(s, c)
           r == RemoveAt(s, k)
<1>1. k \in 1 .. Len(s) /\ s[k] = c
  BY PlaceOf
<1>2. DOMAIN s = 1 .. Len(s) /\ Len(s) \in Nat /\ s \in [1 .. Len(s) -> S]
  BY LenProperties
<1> HIDE DEF k
<1>5. /\ r \in Seq(S) /\ Len(r) = Len(s) - 1
      /\ \A j \in 1 .. Len(s) - 1 : r[j] = IF j < k THEN s[j] ELSE s[j + 1]
  BY <1>1, Without
<1>6. DOMAIN r = 1 .. Len(s) - 1
  BY <1>2, <1>5, LenProperties
<1> HIDE DEF r
<1>7. Distinct(r)
  <2>1. ASSUME NEW m \in DOMAIN r, NEW n \in DOMAIN r, m < n
        PROVE  r[m] /= r[n]
    <3>1. /\ m \in 1 .. Len(s) - 1 /\ n \in 1 .. Len(s) - 1
          /\ \A x, y \in 1 .. Len(s) : x /= y => s[x] /= s[y]
      BY <1>2, <1>6 DEF Distinct
    <3>2. CASE m < k /\ n < k
      <4>1. r[m] = s[m] /\ r[n] = s[n]
        BY <1>5, <3>1, <3>2
      <4>2. m \in 1 .. Len(s) /\ n \in 1 .. Len(s) /\ m /= n
        BY <1>2, <2>1, <3>1
      <4> QED
        BY <3>1, <4>1, <4>2
    <3>3. CASE m < k /\ ~(n < k)
      <4>1. r[m] = s[m] /\ r[n] = s[n + 1]
        BY <1>5, <3>1, <3>3
      <4>2. m \in 1 .. Len(s) /\ n + 1 \in 1 .. Len(s) /\ m /= n + 1
        BY <1>2, <2>1, <3>1
      <4> QED
        BY <3>1, <4>1, <4>2
    <3>4. CASE ~(m < k) /\ ~(n < k)
      <4>1. r[m] = s[m + 1] /\ r[n] = s[n + 1]
        BY <1>5, <3>1, <3>4
      <4>2. m + 1 \in 1 .. Len(s) /\ n + 1 \in 1 .. Len(s) /\ m + 1 /= n + 1
        BY <1>2, <2>1, <3>1
      <4> QED
        BY <3>1, <4>1, <4>2
    <3> QED
      BY <1>1, <2>1, <3>1, <3>2, <3>3, <3>4
  <2>2. \A m, n \in DOMAIN r : m < n \/ n < m \/ m = n
    BY <1>6
  <2> QED
    BY <2>1, <2>2 DEF Distinct
<1>8. ToSet(r) = ToSet(s) \ {c}
  <2>1. ASSUME NEW x \in ToSet(r) PROVE x \in ToSet(s) \ {c}
    <3>1. PICK j \in DOMAIN r : r[j] = x
      BY DEF ToSet
    <3>2. PICK l \in DOMAIN s : l /= k /\ s[l] = x
      <4>1. j \in 1 .. Len(s) - 1
        BY <1>6
      <4>2. CASE j < k
        <5>1. j \in DOMAIN s /\ j /= k /\ s[j] = x
          BY <1>1, <1>2, <1>5, <3>1, <4>1, <4>2
        <5> QED
          BY <5>1
      <4>3. CASE ~(j < k)
        <5>1. j + 1 \in DOMAIN s /\ j + 1 /= k /\ s[j + 1] = x
          BY <1>1, <1>2, <1>5, <3>1, <4>1, <4>3
        <5> QED
          BY <5>1
      <4> QED
        BY <4>2, <4>3
    <3> QED
      BY <1>1, <1>2, <3>2 DEF ToSet, Distinct
  <2>2. ASSUME NEW x \in ToSet(s) \ {c} PROVE x \in ToSet(r)
    <3>1. PICK l \in DOMAIN s : s[l] = x
      BY DEF ToSet
    <3>2. l /= k
      BY <1>1, <3>1
    <3>3. \E j \in 1 .. Len(s) - 1 : r[j] = x
      <4>1. CASE l < k
        BY <1>1, <1>2, <1>5, <3>1, <4>1
      <4>2. CASE l > k
        <5>1. l - 1 \in 1 .. Len(s) - 1 /\ ~(l - 1 < k) /\ (l - 1) + 1 = l
          BY <1>1, <1>2, <3>1, <4>2
        <5> QED
          BY <1>5, <3>1, <5>1
      <4> QED
        BY <1>1, <1>2, <3>1, <3>2, <4>1, <4>2
    <3> QED
      BY <1>6, <3>3 DEF ToSet
  <2> QED
    BY <2>1, <2>2
<1>9. RemoveAt(s, Place(s, c)) = r
  BY DEF r, k
<1> QED
  BY <1>5, <1>7, <1>8, <1>9

(* A list with one more element in front or at the end.                    *)
LEMMA Pushed ==
  ASSUME NEW S, NEW s \in Seq(S), NEW c \in S
  PROVE  /\ <<c>> \o s \in Seq(S)
         /\ ToSet(<<c>> \o s) = ToSet(s) \union {c}
         /\ Distinct(s) /\ c \notin ToSet(s) => Distinct(<<c>> \o s)
<1> DEFINE r == <<c>> \o s
<1>1. DOMAIN s = 1 .. Len(s) /\ Len(s) \in Nat
  BY LenProperties
<1>2. <<c>> \in Seq(S) /\ Len(<<c>>) = 1
  OBVIOUS
<1>3. /\ r \in Seq(S) /\ Len(r) = 1 + Len(s)
      /\ \A j \in 1 .. 1 + Len(s) : r[j] = IF j <= 1 THEN <<c>>[j] ELSE s[j - 1]
  BY <1>2, ConcatProperties
<1>4. DOMAIN r = 1 .. 1 + Len(s)
  BY <1>3, LenProperties
<1> HIDE DEF r
<1>5. r[1] = c /\ \A j \in 1 .. Len(s) : r[j + 1] = s[j]
  <2>1. <<c>>[1] = c
    OBVIOUS
  <2>2. ASSUME NEW j \in 1 .. Len(s) PROVE r[j + 1] = s[j]
    <3>1. j + 1 \in 1 .. 1 + Len(s) /\ ~(j + 1 <= 1) /\ (j + 1) - 1 = j
      BY <1>1
    <3> QED
      BY <1>3, <3>1
  <2> QED
    BY <1>1, <1>3, <2>1, <2>2
<1>6. \A l \in DOMAIN r : l = 1 \/ (l - 1 \in 1 .. Len(s) /\ r[l] = s[l - 1])
  BY <1>1, <1>3, <1>4
<1>7. ToSet(r) = ToSet(s) \union {c}
  <2>1. ASSUME NEW x \in ToSet(r) PROVE x \in ToSet(s) \union {c}
    BY <1>1, <1>5, <1>6 DEF ToSet
  <2>2. ASSUME NEW x \in ToSet(s) PROVE x \in ToSet(r)
    <3>1. PICK l \in DOMAIN s : s[l] = x
      BY DEF ToSet
    <3>2. l + 1 \in DOMAIN r /\ r[l + 1] = x
      BY <1>1, <1>4, <1>5, <3>1
    <3> QED
      BY <3>2 DEF ToSet
  <2>3. c \in ToSet(r)
    BY <1>1, <1>4, <1>5 DEF ToSet
  <2> QED
    BY <2>1, <2>2, <2>3
<1>8. ASSUME Distinct(s), c \notin ToSet(s) PROVE Distinct(r)
  <2>1. \A l \in 1 .. Len(s) : s[l] /= c
    BY <1>1, <1>8 DEF ToSet
  <2> QED
    BY <1>1, <1>4, <1>5, <1>6, <1>8, <2>1 DEF Distinct
<1> QED
  BY <1>3, <1>7, <1>8 DEF r

LEMMA Appended ==
  ASSUME NEW S, NEW s \in Seq(S), NEW c \in S
  PROVE  /\ Append(s, c) \in Seq(S)
         /\ Len(Append(s, c)) = Len(s) + 1
         /\ ToSet(Append(s, c)) = ToSet(s) \union {c}
         /\ Distinct(s) /\ c \notin ToSet(s) => Distinct(Append(s, c))
<1> DEFINE r == Append(s, c)
<1>1. DOMAIN s = 1 .. Len(s) /\ Len(s) \in Nat
  BY LenProperties
<1>2. /\ r \in Seq(S) /\ Len(r) = Len(s) + 1
      /\ \A j \in 1 .. Len(s) : r[j] = s[j]
      /\ r[Len(s) + 1] = c
  BY AppendProperties
<1>3. DOMAIN r = 1 .. Len(s) + 1
  BY <1>2, LenProperties
<1> HIDE DEF r
<1>4. ToSet(r) = ToSet(s) \union {c}
  <2>1. ASSUME NEW x \in ToSet(r) PROVE x \in ToSet(s) \union {c}
    <3>1. PICK j \in 1 .. Len(s) + 1 : r[j] = x
      BY <1>3 DEF ToSet
    <3>2. j \in 1 .. Len(s) \/ j = Len(s) + 1
      BY <1>1
    <3> QED
      BY <1>1, <1>2, <3>1, <3>2 DEF ToSet
  <2>2. ASSUME NEW x \in ToSet(s) PROVE x \in ToSet(r)
    BY <1>1, <1>2, <1>3 DEF ToSet
  <2>3. c \in ToSet(r)
    BY <1>1, <1>2, <1>3 DEF ToSet
  <2> QED
    BY <2>1, <2>2, <2>3
<1>5. ASSUME Distinct(s), c \notin ToSet(s) PROVE Distinct(r)
  <2>1. \A l \in 1 .. Len(s) : s[l] /= c
    BY <1>1, <1>5 DEF ToSet
  <2>2. \A l \in 1 .. Len(s) + 1 : l \in 1 .. Len(s) \/ l = Len(s) + 1
    BY <1>1
  <2> QED
    BY <1>1, <1>2, <1>3, <1>5, <2>1, <2>2 DEF Distinct
<1> QED
  BY <1>2, <1>4, <1>5 DEF r

(* What follows an element of a list.                                      *)
LEMMA Following ==
  ASSUME NEW S, NEW s \in Seq(S), NEW c \in ToSet(s)
  PROVE  /\ After(s, c) \in Seq(S)
         /\ ToSet(After(s, c)) \subseteq ToSet(s)
         /\ Distinct(s) => /\ Distinct(After(s, c))
                           /\ c \notin ToSet(After(s, c))
         /\ Len(s) = 1 => After(s, c) = <<>>
<1> DEFINE k == Place(s, c)
           r == SubSeq(s, 1 + k, Len(s))
<1>1. k \in 1 .. Len(s) /\ s[k] = c
  BY PlaceOf
<1>2. DOMAIN s = 1 .. Len(s) /\ Len(s) \in Nat /\ s \in [1 .. Len(s) -> S]
  BY LenProperties
<1>3. After(s, c) = r
  BY DEF After, Place
<1> HIDE DEF k
<1>4. /\ r \in Seq(S) /\ Len(r) = Len(s) - k
      /\ \A j \in 1 .. Len(s) - k : r[j] = s[k + j]
  <2>1. \A j \in 1 + k .. Len(s) : s[j] \in S
    BY <1>1, <1>2
  <2>2. /\ r \in Seq(S)
        /\ Len(r) = IF 1 + k <= Len(s) THEN Len(s) - (1 + k) + 1 ELSE 0
        /\ \A j \in 1 .. Len(s) - (1 + k) + 1 : r[j] = s[1 + k + j - 1]
    BY <1>1, <1>2, <2>1, SubSeqProperties
  <2> QED
    BY <1>1, <1>2, <2>2
<1>5. DOMAIN r = 1 .. Len(s) - k
  BY <1>4, LenProperties
<1>6. ASSUME Len(s) = 1 PROVE r = <<>>
  <2>1. Len(r) = 0
    BY <1>1, <1>4, <1>6
  <2> QED
    BY <1>4, <2>1, EmptySeq
<1> HIDE DEF r
<1>7. ToSet(r) \subseteq ToSet(s)
  <2>1. ASSUME NEW x \in ToSet(r) PROVE x \in ToSet(s)
    <3>1. PICK j \in 1 .. Len(s) - k : r[j] = x
      BY <1>5 DEF ToSet
    <3>2. k + j \in DOMAIN s /\ s[k + j] = x
      BY <1>1, <1>2, <1>4, <3>1
    <3> QED
      BY <3>2 DEF ToSet
  <2> QED
    BY <2>1
<1>8. ASSUME Distinct(s) PROVE Distinct(r) /\ c \notin ToSet(r)
  <2>1. \A j \in 1 .. Len(s) - k : k + j \in DOMAIN s /\ k + j /= k
    BY <1>1, <1>2
  <2>2. ASSUME NEW m \in DOMAIN r, NEW n \in DOMAIN r, r[m] = r[n]
        PROVE  m = n
    <3>1. k + m \in DOMAIN s /\ k + n \in DOMAIN s /\ s[k + m] = s[k + n]
      BY <1>4, <1>5, <2>1, <2>2
    <3>2. k + m = k + n
      BY <1>8, <3>1 DEF Distinct
    <3> QED
      BY <1>1, <1>5, <3>2
  <2>3. \A j \in 1 .. Len(s) - k : r[j] /= c
    BY <1>1, <1>2, <1>4, <1>8, <2>1 DEF Distinct
  <2> QED
    BY <1>5, <2>2, <2>3 DEF ToSet, Distinct
<1> QED
  BY <1>3, <1>4, <1>6, <1>7, <1>8

(* What follows an element of a list, by its place.                        *)
LEMMA AfterIs ==
  ASSUME NEW S, NEW s \in Seq(S), NEW c \in ToSet(s)
  PROVE  /\ After(s, c) \in Seq(S)
         /\ Len(After(s, c)) = Len(s) - Place(s, c)
         /\ DOMAIN After(s, c) = 1 .. Len(s) - Place(s, c)
         /\ \A j \in 1 .. Len(s) - Place(s, c) :
              After(s, c)[j] = s[Place(s, c) + j]
<1> DEFINE k == Place(s, c)
           r == SubSeq(s, 1 + k, Len(s))
<1>1. k \in 1 .. Len(s)
  BY PlaceOf
<1>2. Len(s) \in Nat /\ s \in [1 .. Len(s) -> S]
  BY LenProperties
<1>3. After(s, c) = r
  BY DEF After, Place
<1> HIDE DEF k
<1>4. \A j \in 1 + k .. Len(s) : s[j] \in S
  BY <1>1, <1>2
<1>5. /\ r \in Seq(S)
      /\ Len(r) = IF 1 + k <= Len(s) THEN Len(s) - (1 + k) + 1 ELSE 0
      /\ \A j \in 1 .. Len(s) - (1 + k) + 1 : r[j] = s[1 + k + j - 1]
  BY <1>1, <1>2, <1>4, SubSeqProperties
<1> HIDE DEF r
<1>6. Len(r) = Len(s) - k /\ \A j \in 1 .. Len(s) - k : r[j] = s[k + j]
  <2>1. Len(r) = Len(s) - k
    <3>1. k \in Nat /\ k <= Len(s) /\ Len(s) \in Nat
      BY <1>1, <1>2
    <3>2. CASE 1 + k <= Len(s)
      <4>1. Len(r) = Len(s) - (1 + k) + 1
        BY <1>5, <3>2
      <4> QED
        BY <3>1, <4>1
    <3>3. CASE ~(1 + k <= Len(s))
      <4>1. Len(r) = 0
        BY <1>5, <3>3
      <4> QED
        BY <3>1, <3>3, <4>1
    <3> QED
      BY <3>2, <3>3
  <2>2. ASSUME NEW j \in 1 .. Len(s) - k PROVE r[j] = s[k + j]
    <3>1. j \in 1 .. Len(s) - (1 + k) + 1 /\ 1 + k + j - 1 = k + j
      BY <1>1, <1>2
    <3> QED
      BY <1>5, <3>1
  <2> QED
    BY <2>1, <2>2
<1>7. DOMAIN r = 1 .. Len(s) - k
  BY <1>5, <1>6, LenProperties
<1> QED
  BY <1>3, <1>5, <1>6, <1>7 DEF k, r

(* y is x or comes after it.                                               *)
UpTo(s, x, y) == \E k, l \in DOMAIN s : k <= l /\ s[k] = x /\ s[l] = y

LEMMA UpToHead ==
  ASSUME NEW S, NEW s \in Seq(S), NEW y \in ToSet(s)
  PROVE  s /= <<>> /\ UpTo(s, Head(s), y)
<1>1. DOMAIN s = 1 .. Len(s) /\ Len(s) \in Nat
  BY LenProperties
<1>2. PICK l \in DOMAIN s : s[l] = y
  BY DEF ToSet
<1>3. Len(s) > 0 /\ s /= <<>> /\ Head(s) = s[1] /\ 1 \in DOMAIN s /\ 1 <= l
  BY <1>1, <1>2, EmptySeq
<1> QED
  BY <1>2, <1>3 DEF UpTo

LEMMA UpToNext ==
  ASSUME NEW S, NEW s \in Seq(S), Distinct(s), NEW x, NEW y,
         UpTo(s, x, y), x /= y
  PROVE  /\ After(s, x) /= <<>>
         /\ UpTo(s, Head(After(s, x)), y)
         /\ y \in ToSet(After(s, x))
<1>1. DOMAIN s = 1 .. Len(s) /\ Len(s) \in Nat
  BY LenProperties
<1>2. PICK m, l \in DOMAIN s : m <= l /\ s[m] = x /\ s[l] = y
  BY DEF UpTo
<1>3. x \in ToSet(s)
  BY <1>2 DEF ToSet
<1>4. PICK k : k = Place(s, x)
  OBVIOUS
<1>5. k \in 1 .. Len(s) /\ s[k] = x
  BY <1>3, <1>4, PlaceOf
<1>6. k = m /\ k < l
  BY <1>1, <1>2, <1>5 DEF Distinct
<1>7. PICK r : r = After(s, x)
  OBVIOUS
<1>8. /\ r \in Seq(S) /\ Len(r) = Len(s) - k /\ DOMAIN r = 1 .. Len(s) - k
      /\ \A j \in 1 .. Len(s) - k : r[j] = s[k + j]
  BY <1>3, <1>4, <1>7, AfterIs
<1>9. Len(r) > 0 /\ r /= <<>> /\ Head(r) = r[1] /\ r[1] = s[k + 1]
  BY <1>1, <1>2, <1>5, <1>6, <1>8, EmptySeq
<1>10. k + 1 \in DOMAIN s /\ k + 1 <= l
  BY <1>1, <1>2, <1>5, <1>6
<1>11. UpTo(s, Head(r), y)
  BY <1>2, <1>9, <1>10 DEF UpTo
<1>12. y \in ToSet(r)
  <2>1. l - k \in 1 .. Len(s) - k /\ k + (l - k) = l
    BY <1>1, <1>2, <1>5, <1>6
  <2>2. r[l - k] = y /\ l - k \in DOMAIN r
    BY <1>2, <1>8, <2>1
  <2> QED
    BY <2>2 DEF ToSet
<1> QED
  BY <1>7, <1>9, <1>11, <1>12

LEMMA UpToRemoved ==
  ASSUME NEW S, NEW s \in Seq(S), NEW c \in ToSet(s), NEW x, NEW y,
         UpTo(s, x, y), x /= c, y /= c
  PROVE  UpTo(RemoveAt(s, Place(s, c)), x, y)
<1>1. DOMAIN s = 1 .. Len(s) /\ Len(s) \in Nat
  BY LenProperties
<1>2. PICK m, l \in DOMAIN s : m <= l /\ s[m] = x /\ s[l] = y
  BY DEF UpTo
<1>3. PICK k : k = Place(s, c)
  OBVIOUS
<1>4. k \in 1 .. Len(s) /\ s[k] = c
  BY <1>3, PlaceOf
<1>5. PICK r : r = RemoveAt(s, k)
  OBVIOUS
<1>6. /\ r \in Seq(S) /\ Len(r) = Len(s) - 1
      /\ \A j \in 1 .. Len(s) - 1 : r[j] = IF j < k THEN s[j] ELSE s[j + 1]
  BY <1>4, <1>5, Without
<1>7. DOMAIN r = 1 .. Len(s) - 1
  BY <1>6, LenProperties
<1>8. m /= k /\ l /= k
  BY <1>2, <1>4
<1> DEFINE To(j) == IF j < k THEN j ELSE j - 1
<1>9. ASSUME NEW j \in DOMAIN s, j /= k
      PROVE  To(j) \in DOMAIN r /\ r[To(j)] = s[j]
  <2>1. CASE j < k
    BY <1>1, <1>4, <1>6, <1>7, <1>9, <2>1
  <2>2. CASE ~(j < k)
    <3>1. j - 1 \in 1 .. Len(s) - 1 /\ ~(j - 1 < k) /\ (j - 1) + 1 = j
      BY <1>1, <1>4, <1>9, <2>2
    <3> QED
      BY <1>6, <1>7, <2>2, <3>1
  <2> QED
    BY <2>1, <2>2
<1>10. To(m) <= To(l)
  BY <1>1, <1>2, <1>4, <1>8
<1>11. /\ To(m) \in DOMAIN r /\ r[To(m)] = x
       /\ To(l) \in DOMAIN r /\ r[To(l)] = y
  BY <1>2, <1>8, <1>9
<1> HIDE DEF To
<1>12. UpTo(r, x, y)
  BY <1>10, <1>11 DEF UpTo
<1> QED
  BY <1>3, <1>5, <1>12

LEMMA HeadOf ==
  ASSUME NEW S, NEW s \in Seq(S), s /= <<>>
  PROVE  Head(s) \in ToSet(s) /\ Head(s) \in S
<1>1. DOMAIN s = 1 .. Len(s) /\ Len(s) \in Nat \ {0}
  BY LenProperties, EmptySeq
<1>2. Head(s) = s[1] /\ 1 \in DOMAIN s
  BY <1>1
<1> QED
  BY <1>2, HeadTailProperties DEF ToSet

LEMMA NoElements ==
  ToSet(<<>>) = {} /\ Distinct(<<>>)
<1>1. DOMAIN <<>> = {}
  OBVIOUS
<1> QED
  BY <1>1 DEF ToSet, Distinct

-----------------------------------------------------------------------------
(* The processes of a job that are still to be reaped: those in a list     *)
(* that are not gone, and, while the command is being started, the places  *)
(* from a given one on, which have no process yet.                         *)

Alive(list, states, from) ==
  {k \in DOMAIN list :
     k > from \/ (list[k] \in Pids /\ states[list[k]] /= "gone")}

LEMMA AliveCounts ==
  ASSUME NEW S, NEW list \in Seq(S), NEW states, NEW from
  PROVE  /\ IsFiniteSet(Alive(list, states, from))
         /\ Cardinality(Alive(list, states, from)) \in Nat
         /\ Cardinality(Alive(list, states, from)) <= Len(list)
<1>1. DOMAIN list = 1 .. Len(list) /\ Len(list) \in Nat
  BY LenProperties
<1>2. /\ IsFiniteSet(1 .. Len(list))
      /\ Cardinality(1 .. Len(list)) = Len(list)
  BY <1>1, FS_Interval
<1>3. Alive(list, states, from) \in SUBSET (1 .. Len(list))
  BY <1>1 DEF Alive
<1> QED
  BY <1>2, <1>3, FS_Subset, FS_CardinalityType

(* Fewer places, fewer processes to reap.                                  *)
LEMMA FewerAlive ==
  ASSUME NEW S, NEW list \in Seq(S), NEW states, NEW from,
         NEW T \in SUBSET Alive(list, states, from)
  PROVE  Cardinality(T) <= Cardinality(Alive(list, states, from))
BY AliveCounts, FS_Subset

(* A process that is reaped was one of them and is not any longer.         *)
LEMMA ReapedAlive ==
  ASSUME NEW S, NEW list \in Seq(S), NEW states, NEW from \in Nat,
         NEW p \in Pids, p \in ToSet(list), states[p] /= "gone",
         DOMAIN states = Pids,
         \A k \in DOMAIN list : k > from => list[k] \notin Pids
  PROVE  LET left == Alive(list, [states EXCEPT ![p] = "gone"], from) IN
           /\ Cardinality(left) < Cardinality(Alive(list, states, from))
           /\ from < Len(list) => Cardinality(left) >= 1
<1> DEFINE was == Alive(list, states, from)
           left == Alive(list, [states EXCEPT ![p] = "gone"], from)
<1>1. PICK k \in DOMAIN list : list[k] = p
  BY DEF ToSet
<1>2. DOMAIN list = 1 .. Len(list) /\ Len(list) \in Nat
  BY LenProperties
<1>3. k \in was /\ k \notin left
  BY <1>1, <1>2 DEF Alive
<1>4. left \subseteq was
  BY DEF Alive
<1>5. /\ IsFiniteSet(was) /\ Cardinality(was) \in Nat
      /\ IsFiniteSet(left) /\ Cardinality(left) \in Nat
  BY AliveCounts
<1> HIDE DEF was, left
<1>6. Cardinality(left) < Cardinality(was)
  <2>1. left \in SUBSET was /\ left /= was
    BY <1>3, <1>4
  <2>2. Cardinality(left) <= Cardinality(was)
        /\ (Cardinality(was) = Cardinality(left) => was = left)
    BY <1>5, <2>1, FS_Subset
  <2> QED
    BY <1>5, <2>1, <2>2
<1>7. ASSUME from < Len(list) PROVE Cardinality(left) >= 1
  <2>1. from + 1 \in left
    BY <1>2, <1>7 DEF left, Alive
  <2>2. Cardinality(left) /= 0
    BY <1>5, <2>1, FS_EmptySet
  <2> QED
    BY <1>5, <2>2
<1> QED
  BY <1>6, <1>7 DEF was, left

-----------------------------------------------------------------------------
(* What the shell looks up.                                                *)

FirstPlace(hits) == CHOOSE k \in hits : \A l \in hits : k <= l

LEMMA FirstPlaceIn ==
  ASSUME NEW S, NEW list \in Seq(S), NEW hits \in SUBSET (DOMAIN list),
         hits /= {}
  PROVE  /\ FirstPlace(hits) \in hits
         /\ FirstPlace(hits) \in DOMAIN list
         /\ list[FirstPlace(hits)] \in S
         /\ list[FirstPlace(hits)] \in ToSet(list)
         /\ \A l \in hits : FirstPlace(hits) <= l
<1>1. DOMAIN list = 1 .. Len(list) /\ list \in [1 .. Len(list) -> S]
  BY LenProperties
<1>2. hits \in SUBSET Nat
  BY <1>1
<1>3. \E k \in hits : \A l \in hits : k <= l
  BY <1>2, Least
<1>4. FirstPlace(hits) \in hits /\ \A l \in hits : FirstPlace(hits) <= l
  BY <1>3 DEF FirstPlace
<1> QED
  BY <1>1, <1>4 DEF ToSet

LEMMA FoundByJid ==
  ASSUME NEW S, NEW list \in Seq(S), NEW contents, NEW id
  PROVE  LET found == find_job_by_jid(list, contents, id) IN
           \/ /\ found = Null
              /\ \A c \in ToSet(list) : contents[c].job_id /= id
           \/ /\ found \in ToSet(list) /\ found \in S
              /\ contents[found].job_id = id
<1> DEFINE hits == {k \in DOMAIN list : contents[list[k]].job_id = id}
           found == find_job_by_jid(list, contents, id)
<1>1. found = IF hits = {} THEN Null ELSE list[FirstPlace(hits)]
  BY DEF find_job_by_jid, FirstIn, FirstPlace
<1>2. CASE hits = {}
  <2>1. \A c \in ToSet(list) : contents[c].job_id /= id
    BY <1>2 DEF ToSet
  <2> QED
    BY <1>1, <1>2, <2>1
<1>3. CASE hits /= {}
  <2>1. hits \in SUBSET (DOMAIN list)
    OBVIOUS
  <2>2. /\ FirstPlace(hits) \in hits
        /\ list[FirstPlace(hits)] \in S
        /\ list[FirstPlace(hits)] \in ToSet(list)
    BY <1>3, <2>1, FirstPlaceIn
  <2> QED
    BY <1>1, <1>3, <2>2
<1> QED
  BY <1>2, <1>3

(* If the last of a list is the first with an id, no other has it.         *)
LEMMA FoundLast ==
  ASSUME NEW S, NEW list \in Seq(S), NEW contents, NEW id,
         NEW new \in S, new \notin ToSet(list),
         find_job_by_jid(Append(list, new), contents, id) = new,
         NEW c \in ToSet(list)
  PROVE  contents[c].job_id /= id
<1> SUFFICES ASSUME contents[c].job_id = id PROVE FALSE
  OBVIOUS
<1>1. PICK r : r = Append(list, new)
  OBVIOUS
<1>2. /\ r \in Seq(S) /\ Len(r) = Len(list) + 1
      /\ \A j \in 1 .. Len(list) : r[j] = list[j]
  BY <1>1, AppendProperties
<1>3. /\ DOMAIN list = 1 .. Len(list) /\ Len(list) \in Nat
      /\ DOMAIN r = 1 .. Len(list) + 1
  BY <1>2, LenProperties
<1>4. PICK l \in DOMAIN list : list[l] = c
  BY DEF ToSet
<1> DEFINE hits == {k \in DOMAIN r : contents[r[k]].job_id = id}
<1>5. l \in hits /\ l \in 1 .. Len(list)
  BY <1>2, <1>3, <1>4
<1>6. hits \in SUBSET (DOMAIN r) /\ hits /= {}
  BY <1>5
<1>7. r[FirstPlace(hits)] = new
  BY <1>1, <1>6 DEF find_job_by_jid, FirstIn, FirstPlace
<1> HIDE DEF hits
<1>8. FirstPlace(hits) \in DOMAIN r /\ FirstPlace(hits) <= l
  BY <1>2, <1>5, <1>6, FirstPlaceIn
<1>9. FirstPlace(hits) \in 1 .. Len(list)
  BY <1>3, <1>5, <1>8
<1>10. list[FirstPlace(hits)] = new
  BY <1>2, <1>7, <1>9
<1> QED
  BY <1>3, <1>9, <1>10 DEF ToSet

LEMMA OwnerFound ==
  ASSUME NEW S, jobs \in Seq(S), NEW p
  PROVE  \/ /\ Owner(p) = Null
            /\ \A c \in ToSet(jobs) : p \notin ToSet(cell[c].pid_list)
         \/ /\ Owner(p) \in ToSet(jobs) /\ Owner(p) \in S
            /\ p \in ToSet(cell[Owner(p)].pid_list)
<1> DEFINE hits == {k \in DOMAIN jobs : p \in ToSet(cell[jobs[k]].pid_list)}
<1>1. Owner(p) = IF hits = {} THEN Null ELSE jobs[FirstPlace(hits)]
  BY DEF Owner, FirstIn, FirstPlace
<1>2. CASE hits = {}
  <2>1. \A c \in ToSet(jobs) : p \notin ToSet(cell[c].pid_list)
    BY <1>2 DEF ToSet
  <2> QED
    BY <1>1, <1>2, <2>1
<1>3. CASE hits /= {}
  <2>1. hits \in SUBSET (DOMAIN jobs)
    OBVIOUS
  <2>2. /\ FirstPlace(hits) \in hits
        /\ jobs[FirstPlace(hits)] \in S
        /\ jobs[FirstPlace(hits)] \in ToSet(jobs)
    BY <1>3, <2>1, FirstPlaceIn
  <2> QED
    BY <1>1, <1>3, <2>2
<1> QED
  BY <1>2, <1>3

(* fork returns a process that was not born yet, as long as there is one.  *)
LEMMA Born ==
  ASSUME Cardinality(Free) >= 1
  PROVE  LET p == CHOOSE q \in Free : \A r \in Free : q <= r IN
           /\ p \in Free
           /\ Cardinality(Free \ {p}) = Cardinality(Free) - 1
<1>1. Free \in SUBSET Pids /\ Free \in SUBSET Nat
  BY BoundsAssumption DEF Free, Pids
<1>2. IsFiniteSet(Pids)
  BY BoundsAssumption, FS_Interval DEF Pids
<1>3. IsFiniteSet(Free)
  BY <1>1, <1>2, FS_Subset
<1>4. Free /= {}
  BY <1>3, FS_EmptySet
<1>5. \E q \in Free : \A r \in Free : q <= r
  BY <1>1, <1>4, Least
<1>6. PICK p : p = CHOOSE q \in Free : \A r \in Free : q <= r
  OBVIOUS
<1>7. p \in Free
  BY <1>5, <1>6
<1>8. Cardinality(Free \ {p}) = Cardinality(Free) - 1
  BY <1>3, <1>7, FS_RemoveElement
<1> QED
  BY <1>6, <1>7, <1>8

LEMMA FreeBounded ==
  Cardinality(Free) \in Nat /\ Cardinality(Free) <= MaxPid
<1>1. IsFiniteSet(Pids) /\ Cardinality(Pids) = MaxPid
  BY BoundsAssumption, FS_Interval DEF Pids
<1>2. Free \in SUBSET Pids
  BY DEF Free
<1> QED
  BY <1>1, <1>2, FS_Subset, FS_CardinalityType

-----------------------------------------------------------------------------
(* The invariant.                                                          *)

Labels == {"check", "report", "prompt", "start", "fork", "setpgid", "give",
           "record", "wait", "find", "look", "retake", "kill", "free",
           "exited"}
Contents == [job_id : Int, state : JobStates, pgid : Pids \union {0},
             pid_list : Seq(Pids \union {Unset}), curr_num : 0 .. MaxPid]

ListTypes ==
  /\ jobs \in Seq(Cells) /\ done \in Seq(Cells) /\ n_jobs \in Int
  /\ cell \in [Cells -> Contents]
  /\ allocated \subseteq Cells /\ damaged \in BOOLEAN
ShellTypes ==
  /\ pc \in Labels /\ blocked \in BOOLEAN
  /\ cmd \in [procs : Nat \ {0}, bg : BOOLEAN]
  /\ i \in Nat /\ jid \in Int
  /\ pid \in Pids \union {0} /\ pgid \in Pids \union {0}
  /\ job \in Cells \union {Null} /\ curr \in Cells \union {Null}
ProcTypes ==
  /\ proc \in [Pids -> {"unborn", "new", "running", "zombie", "gone"}]
  /\ pgrp \in [Pids -> Pids \union {Shell}]
  /\ wanted \in [Pids -> Pids \union {Shell}]
  /\ term \in Pids \union {Shell}

(* The lists hold structures that are not free, each once.                 *)
ListsApart ==
  /\ Distinct(done)
  /\ ToSet(jobs) \intersect ToSet(done) = {}
  /\ ToSet(jobs) \union ToSet(done) \subseteq allocated
Lists ==
  /\ Distinct(jobs)
  /\ ~Leaving => ListsApart /\ ~damaged
  /\ pc = "report" => curr \in ToSet(done)
  /\ pc \in {"find", "kill", "free"} /\ curr /= Null /\ curr \in allocated
       => curr \in ToSet(jobs) \union ToSet(done)

Counter ==
  /\ ~Leaving => n_jobs = Len(jobs) /\ n_jobs <= MAX_JOBS
  /\ pc = "start" => n_jobs < MAX_JOBS

(* From fork to the last pid stored: the job is on the list, with a place  *)
(* for each process to come, and there are that many processes to start.   *)
Launching ==
  pc \in {"fork", "setpgid", "record"} \/ (pc = "give" /\ cmd.procs = 1)
Prepared ==
  /\ i < cmd.procs
  /\ job \in ToSet(jobs)
  /\ Len(cell[job].pid_list) = cmd.procs
  /\ \A k \in DOMAIN cell[job].pid_list :
       k > i => cell[job].pid_list[k] = Unset
Supply ==
  /\ pc = "start" => cmd.procs <= Cardinality(Free)
  /\ pc = "fork" => cmd.procs - i <= Cardinality(Free)
  /\ pc \in {"setpgid", "give", "record"}
       => cmd.procs - i - 1 <= Cardinality(Free)
Launch == (Launching => Prepared) /\ Supply

(* curr_num never falls below the number of processes of a job that are    *)
(* still to be reaped: the handler cannot make it negative or take a job   *)
(* off the list while it is being started.                                 *)
From(c) == IF Launching /\ job = c THEN i ELSE Len(cell[c].pid_list)
Live(c) == Alive(cell[c].pid_list, proc, From(c))
Counts == \A c \in ToSet(jobs) : Cardinality(Live(c)) <= cell[c].curr_num

JobInv == /\ ListTypes /\ ShellTypes /\ ProcTypes
          /\ Lists /\ Counter /\ Launch /\ Counts

LEMMA OnLists ==
  ASSUME ListTypes
  PROVE  /\ ToSet(jobs) \subseteq Cells /\ ToSet(done) \subseteq Cells
         /\ Len(jobs) \in Nat
<1>1. jobs \in Seq(Cells) /\ done \in Seq(Cells)
  BY DEF ListTypes
<1>2. \A c \in ToSet(jobs) : c \in Cells
  BY <1>1, PlaceOf
<1>3. \A c \in ToSet(done) : c \in Cells
  BY <1>1, PlaceOf
<1> QED
  BY <1>1, <1>2, <1>3, LenProperties

LEMMA CellTypes ==
  ASSUME ListTypes, NEW c \in Cells
  PROVE  /\ cell[c] \in Contents
         /\ cell[c].pid_list \in Seq(Pids \union {Unset})
         /\ cell[c].curr_num \in 0 .. MaxPid
         /\ Len(cell[c].pid_list) \in Nat
         /\ DOMAIN cell[c].pid_list = 1 .. Len(cell[c].pid_list)
<1>1. cell[c] \in Contents
  BY DEF ListTypes
<1>2. cell[c].pid_list \in Seq(Pids \union {Unset})
  BY <1>1 DEF Contents
<1>3. cell[c].curr_num \in 0 .. MaxPid
  BY <1>1 DEF Contents
<1> QED
  BY <1>1, <1>2, <1>3, LenProperties

(* The next field of a structure on a list leads to one on a list.         *)
LEMMA NextOnLists ==
  ASSUME ListTypes, NEW c \in ToSet(jobs) \union ToSet(done)
  PROVE  NextOf(c) = Null \/ NextOf(c) \in ToSet(jobs) \union ToSet(done)
<1>1. jobs \in Seq(Cells) /\ done \in Seq(Cells)
  BY DEF ListTypes
<1>2. PICK list \in {jobs, done} :
        /\ c \in ToSet(list)
        /\ list = IF c \in ToSet(jobs) THEN jobs ELSE done
  OBVIOUS
<1>3. After(list, c) \in Seq(Cells) /\ ToSet(After(list, c)) \subseteq ToSet(list)
  BY <1>1, <1>2, Following
<1>4. NextOf(c) = IF After(list, c) = <<>> THEN Null ELSE Head(After(list, c))
  BY <1>2 DEF NextOf
<1> QED
  BY <1>2, <1>3, <1>4, HeadOf

LEMMA InitJobInv == Init => JobInv
<1> SUFFICES ASSUME Init PROVE JobInv
  OBVIOUS
<1>0. /\ jobs = <<>> /\ done = <<>> /\ n_jobs = 0
      /\ cell = [c \in Cells |-> NoJob]
      /\ allocated = {} /\ damaged = FALSE
  BY DEF Init
<1>1. <<>> \in Seq(Cells) /\ <<>> \in Seq(Pids \union {Unset}) /\ Len(<<>>) = 0
  BY EmptySeq
<1>2. NoJob \in Contents
  BY <1>1, BoundsAssumption DEF NoJob, Contents, JobStates
<1>3. ListTypes
  <2>1. jobs \in Seq(Cells) /\ done \in Seq(Cells) /\ n_jobs \in Int
    BY <1>0, <1>1
  <2>2. cell \in [Cells -> Contents]
    BY <1>0, <1>2
  <2> QED
    BY <1>0, <2>1, <2>2 DEF ListTypes
<1>4. ShellTypes
  <2>1. /\ pc = "check"
        /\ i = 0 /\ pid = 0 /\ pgid = 0 /\ job = Null /\ jid = 0 /\ curr = Null
    BY DEF Init
  <2>2. cmd \in [procs : Nat \ {0}, bg : BOOLEAN]
    BY DEF Init
  <2>3. pc \in Labels
    BY <2>1 DEF Labels
  <2>4. blocked \in BOOLEAN
    BY DEF Init
  <2>5. /\ i \in Nat /\ jid \in Int
        /\ pid \in Pids \union {0} /\ pgid \in Pids \union {0}
        /\ job \in Cells \union {Null} /\ curr \in Cells \union {Null}
    BY <2>1
  <2> QED
    BY <2>2, <2>3, <2>4, <2>5 DEF ShellTypes
<1>5. ProcTypes
  BY DEF Init, ProcTypes
<1>6. ~Leaving /\ ~Launching /\ pc = "check"
  BY DEF Init, Leaving, Launching
<1>7. Lists
  BY <1>0, <1>6, NoElements DEF Lists, ListsApart
<1>8. Counter
  BY <1>0, <1>1, <1>6, BoundsAssumption DEF Counter
<1>9. Launch
  BY <1>6 DEF Launch, Supply
<1>10. Counts
  BY <1>0, NoElements DEF Counts
<1> QED
  BY <1>3, <1>4, <1>5, <1>7, <1>8, <1>9, <1>10 DEF JobInv

-----------------------------------------------------------------------------
(* Steps that add no job and no process to a list.                         *)
LEMMA CountsKept ==
  ASSUME ListTypes, Counts, cell' = cell, ToSet(jobs)' \subseteq ToSet(jobs),
         \A p \in Pids : proc[p] = "gone" => proc'[p] = "gone",
         Launching' => Launching /\ job' = job /\ i' = i
  PROVE  Counts'
<1>1. ASSUME NEW c \in ToSet(jobs)'
      PROVE  Cardinality(Live(c))' <= cell'[c].curr_num
  <2>1. c \in ToSet(jobs) /\ c \in Cells
    BY OnLists
  <2>2. /\ cell[c].pid_list \in Seq(Pids \union {Unset})
        /\ DOMAIN cell[c].pid_list = 1 .. Len(cell[c].pid_list)
        /\ Len(cell[c].pid_list) \in Nat
        /\ cell[c].curr_num \in 0 .. MaxPid
    BY <2>1, CellTypes
  <2>3. PICK from, later : /\ from = From(c) /\ later = From(c)'
                           /\ later = from \/ later = Len(cell[c].pid_list)
    BY DEF From
  <2>4. /\ Live(c) = Alive(cell[c].pid_list, proc, from)
        /\ Live(c)' = Alive(cell[c].pid_list, proc', later)
    BY <2>3 DEF Live
  <2>5. Alive(cell[c].pid_list, proc', later)
          \in SUBSET Alive(cell[c].pid_list, proc, from)
    BY <2>2, <2>3 DEF Alive
  <2>6. Cardinality(Live(c)') <= Cardinality(Live(c))
    BY <2>2, <2>4, <2>5, FewerAlive
  <2>7. Cardinality(Live(c)) \in Nat /\ Cardinality(Live(c)') \in Nat
    BY <2>2, <2>4, AliveCounts
  <2>8. Cardinality(Live(c)) <= cell[c].curr_num
    BY <2>1 DEF Counts
  <2> QED
    BY <2>2, <2>6, <2>7, <2>8, BoundsAssumption
<1> QED
  BY <1>1 DEF Counts

(* The steps of children and the kill of sigint_handler.                   *)
Outside == sigint_handler \/ \E p \in Pids : Child(p)

LEMMA KillTypes ==
  ASSUME ProcTypes, NEW g
  PROVE  /\ Kill(g) \in
              [Pids -> {"unborn", "new", "running", "zombie", "gone"}]
         /\ \A p \in Pids : /\ Kill(g)[p] = "gone" <=> proc[p] = "gone"
                            /\ Kill(g)[p] = "unborn" <=> proc[p] = "unborn"
BY DEF ProcTypes, Kill

LEMMA OutsideProcs ==
  ASSUME ProcTypes, Outside
  PROVE  /\ ProcTypes'
         /\ \A p \in Pids : /\ proc'[p] = "gone" <=> proc[p] = "gone"
                            /\ proc'[p] = "unborn" <=> proc[p] = "unborn"
         /\ UNCHANGED <<listVars, pc, shellVars>>
<1>1. CASE sigint_handler
  <2>1. PICK g : proc' = Kill(g) /\ UNCHANGED <<pgrp, wanted, term>>
    BY <1>1 DEF sigint_handler
  <2>2. UNCHANGED <<listVars, pc, shellVars>>
    BY <1>1 DEF sigint_handler
  <2> QED
    BY <2>1, <2>2, KillTypes DEF ProcTypes
<1>2. ASSUME NEW p \in Pids, ChildExit(p)
      PROVE  /\ ProcTypes'
             /\ \A q \in Pids : /\ proc'[q] = "gone" <=> proc[q] = "gone"
                                /\ proc'[q] = "unborn" <=> proc[q] = "unborn"
             /\ UNCHANGED <<listVars, pc, shellVars>>
  BY <1>2 DEF ChildExit, ProcTypes
<1>3. ASSUME NEW p \in Pids, ChildExecFails(p) \/ ChildSetpgid(p)
      PROVE  /\ ProcTypes'
             /\ \A q \in Pids : /\ proc'[q] = "gone" <=> proc[q] = "gone"
                                /\ proc'[q] = "unborn" <=> proc[q] = "unborn"
             /\ UNCHANGED <<listVars, pc, shellVars>>
  <2>1. proc[p] \in {"new", "running"}
    BY <1>3 DEF ChildExecFails, ChildSetpgid
  <2>2. /\ ExitOfCopy(p) \in
              [Pids -> {"unborn", "new", "running", "zombie", "gone"}]
        /\ \A q \in Pids :
             /\ ExitOfCopy(p)[q] = "gone" <=> proc[q] = "gone"
             /\ ExitOfCopy(p)[q] = "unborn" <=> proc[q] = "unborn"
    BY <2>1 DEF ProcTypes, ExitOfCopy
  <2>3. CASE ChildExecFails(p)
    BY <2>2, <2>3 DEF ChildExecFails, ProcTypes
  <2>4. CASE ChildSetpgid(p)
    <3>1. /\ UNCHANGED <<listVars, pc, shellVars, wanted, term>>
          /\ \/ /\ UNCHANGED pgrp /\ proc' = ExitOfCopy(p)
             \/ /\ pgrp' = [pgrp EXCEPT ![p] = IF wanted[p] = Shell THEN p
                                               ELSE wanted[p]]
                /\ proc' = [proc EXCEPT ![p] = "running"]
      BY <2>4 DEF ChildSetpgid
    <3> QED
      BY <2>1, <2>2, <3>1 DEF ProcTypes
  <2> QED
    BY <1>3, <2>3, <2>4
<1> QED
  BY <1>1, <1>2, <1>3 DEF Outside, Child

LEMMA OutsideJobInv ==
  ASSUME JobInv, Outside
  PROVE  JobInv'
<1>1. /\ ProcTypes'
      /\ \A p \in Pids : /\ proc'[p] = "gone" <=> proc[p] = "gone"
                         /\ proc'[p] = "unborn" <=> proc[p] = "unborn"
      /\ UNCHANGED <<listVars, pc, shellVars>>
  BY OutsideProcs DEF JobInv
<1>2. Free' = Free
  BY <1>1 DEF Free
<1>3. ListTypes'
  BY <1>1 DEF JobInv, ListTypes, listVars
<1>4. ShellTypes'
  BY <1>1 DEF JobInv, ShellTypes, shellVars
<1>5. /\ jobs' = jobs /\ done' = done /\ n_jobs' = n_jobs /\ cell' = cell
      /\ allocated' = allocated /\ damaged' = damaged /\ pc' = pc
      /\ cmd' = cmd /\ i' = i /\ job' = job /\ curr' = curr
  BY <1>1 DEF listVars, shellVars
<1>6. Lists' /\ Counter' /\ Launch'
  <2>1. Lists /\ Counter /\ Launch
    BY DEF JobInv
  <2>2. Lists'
    BY <1>5, <2>1 DEF Lists, ListsApart, Leaving
  <2>3. Counter'
    BY <1>5, <2>1 DEF Counter, Leaving
  <2>4. Launching' = Launching /\ Prepared' = Prepared
    BY <1>5 DEF Launching, Prepared
  <2>5. Supply'
    BY <1>2, <1>5, <2>1 DEF Launch, Supply
  <2> QED
    BY <2>1, <2>2, <2>3, <2>4, <2>5 DEF Launch
<1>7. Counts'
  BY <1>1, CountsKept DEF JobInv, Launching, listVars, shellVars
<1> QED
  BY <1>1, <1>3, <1>4, <1>6, <1>7 DEF JobInv

-----------------------------------------------------------------------------
(* Steps of the shell that change neither the lists nor a process.         *)
LEMMA QuietKeeps ==
  ASSUME JobInv, ShellTypes', ProcTypes', UNCHANGED <<listVars, proc>>,
         Leaving => Leaving',
         pc' = "report" => curr' \in ToSet(done),
         pc' \in {"find", "kill", "free"} /\ curr' /= Null /\ curr' \in allocated
           => curr' \in ToSet(jobs) \union ToSet(done),
         pc' = "start" => n_jobs < MAX_JOBS,
         Launching' => /\ Launching
                       /\ job' = job /\ i' = i /\ cmd' = cmd,
         Supply'
  PROVE  JobInv'
<1>1. /\ jobs' = jobs /\ done' = done /\ n_jobs' = n_jobs /\ cell' = cell
      /\ allocated' = allocated /\ damaged' = damaged /\ proc' = proc
  BY DEF listVars
<1>2. ListTypes'
  BY <1>1 DEF JobInv, ListTypes
<1>3. Lists'
  BY <1>1 DEF JobInv, Lists, ListsApart
<1>4. Counter'
  BY <1>1 DEF JobInv, Counter
<1>5. Launching' => Prepared'
  BY <1>1 DEF JobInv, Launch, Prepared
<1>6. Counts'
  BY <1>1, CountsKept DEF JobInv
<1> QED
  BY <1>2, <1>3, <1>4, <1>5, <1>6 DEF JobInv, Launch

Quiet ==
  \/ CheckBgStatus \/ ReadCommand \/ ForkFails \/ ParentSetpgid
  \/ GiveTerminal \/ WaitStart \/ WaitFind \/ WaitLook \/ RetakeTerminal \/ Exit

LEMMA BeginExitKeeps ==
  ASSUME JobInv, BeginExit, UNCHANGED <<listVars, proc, pgrp, wanted, term>>,
         UNCHANGED <<blocked, cmd, i, pid, pgid, job, jid>>
  PROVE  JobInv'
<1>1. jobs \in Seq(Cells)
  BY DEF JobInv, ListTypes
<1>2. pc' = "kill" /\ (curr' = Null \/ (curr' \in ToSet(jobs) /\ curr' \in Cells))
  BY <1>1, HeadOf DEF BeginExit
<1>3. ShellTypes'
  BY <1>2 DEF JobInv, ShellTypes, Labels
<1>4. ProcTypes'
  BY DEF JobInv, ProcTypes
<1>5. Leaving' /\ ~Launching' /\ Supply'
  BY <1>2 DEF Leaving, Launching, Supply
<1> QED
  BY <1>2, <1>3, <1>4, <1>5, QuietKeeps

LEMMA QuietJobInv ==
  ASSUME JobInv, Quiet
  PROVE  JobInv'
<1>0. ShellTypes /\ ProcTypes /\ jobs \in Seq(Cells) /\ done \in Seq(Cells)
  BY DEF JobInv, ListTypes
<1>1. CASE CheckBgStatus
  <2>1. /\ pc = "check"
        /\ \/ pc' = "prompt" /\ curr' = Null
           \/ pc' = "report" /\ curr' \in ToSet(done) /\ curr' \in Cells
        /\ UNCHANGED <<blocked, cmd, i, pid, pgid, job, jid>>
        /\ UNCHANGED <<listVars, proc, pgrp, wanted, term>>
    BY <1>0, <1>1, HeadOf DEF CheckBgStatus, At, procVars
  <2>2. ShellTypes'
    BY <1>0, <2>1 DEF ShellTypes, Labels
  <2>3. ProcTypes'
    BY <1>0, <2>1 DEF ProcTypes
  <2>4. ~Leaving /\ ~Launching' /\ Supply'
    BY <2>1 DEF Leaving, Launching, Supply
  <2> QED
    BY <2>1, <2>2, <2>3, <2>4, QuietKeeps
<1>2. CASE ReadCommand
  <2>1. /\ pc = "prompt"
        /\ cmd' \in Commands /\ cmd'.procs <= Cardinality(Free)
        /\ pc' = IF AtLimit THEN "check" ELSE "start"
        /\ UNCHANGED <<blocked, i, pid, pgid, job, jid, curr>>
        /\ UNCHANGED <<listVars, proc, pgrp, wanted, term>>
    BY <1>2, FreeBounded, CommandsAssumption DEF ReadCommand, At, procVars
  <2>2. ShellTypes'
    <3>1. cmd' \in [procs : Nat \ {0}, bg : BOOLEAN]
      BY <2>1, CommandsAssumption, BoundsAssumption
    <3>2. pc' \in Labels
      BY <2>1 DEF Labels
    <3> QED
      BY <1>0, <2>1, <3>1, <3>2 DEF ShellTypes
  <2>3. ProcTypes'
    BY <1>0, <2>1 DEF ProcTypes
  <2>4. Free' = Free
    BY <2>1 DEF Free
  <2>5. ~Leaving /\ ~Launching' /\ Supply'
    BY <2>1, <2>4 DEF Leaving, Launching, Supply
  <2>6. pc' = "start" => n_jobs < MAX_JOBS
    BY <2>1, BoundsAssumption DEF AtLimit, JobInv, ListTypes
  <2> QED
    BY <2>1, <2>2, <2>3, <2>5, <2>6, QuietKeeps
<1>3. CASE ForkFails
  BY <1>3, BeginExitKeeps DEF ForkFails, procVars
<1>4. CASE Exit
  BY <1>4, BeginExitKeeps DEF Exit, procVars
<1>5. CASE ParentSetpgid
  <2>1. /\ pc = "setpgid"
        /\ \/ pc' = "give" /\ cmd.procs = 1
           \/ pc' = "record"
        /\ UNCHANGED <<blocked, cmd, i, pid, pgid, job, jid, curr>>
        /\ UNCHANGED <<listVars, proc, wanted, term>>
    BY <1>5 DEF ParentSetpgid, At, shellVars
  <2>2. ShellTypes'
    BY <1>0, <2>1 DEF ShellTypes, Labels
  <2>3. ProcTypes'
    <3>1. pgid \in Pids \union {Shell}
      BY <1>0 DEF ShellTypes, Shell
    <3>2. pgrp' = pgrp \/ pgrp' = [pgrp EXCEPT ![pid] = pgid]
      BY <1>5 DEF ParentSetpgid, Grouped
    <3>3. pgrp' \in [Pids -> Pids \union {Shell}]
      BY <1>0, <3>1, <3>2 DEF ProcTypes
    <3> QED
      BY <1>0, <2>1, <3>3 DEF ProcTypes
  <2>4. Free' = Free
    BY <2>1 DEF Free
  <2>5. ~Leaving /\ Launching /\ pc' \notin {"find", "kill", "free", "report", "start"}
    BY <2>1 DEF Leaving, Launching
  <2>6. Supply'
    BY <2>1, <2>4 DEF JobInv, Launch, Supply
  <2> QED
    BY <2>1, <2>2, <2>3, <2>5, <2>6, QuietKeeps
<1>6. CASE GiveTerminal
  <2>1. CASE ~GroupExists(pgid)
    BY <1>6, <2>1, BeginExitKeeps DEF GiveTerminal, procVars
  <2>2. CASE GroupExists(pgid)
    <3>1. /\ pc = "give" /\ term' = pgid
          /\ \/ pc' = "record" /\ cmd.procs = 1
             \/ pc' = "wait"
          /\ UNCHANGED <<blocked, cmd, i, pid, pgid, job, jid, curr>>
          /\ UNCHANGED <<listVars, proc, pgrp, wanted>>
      BY <1>6, <2>2 DEF GiveTerminal, At, procVars
    <3>2. ShellTypes'
      BY <1>0, <3>1 DEF ShellTypes, Labels
    <3>3. ProcTypes'
      BY <1>0, <3>1 DEF ProcTypes, ShellTypes, Shell
    <3>4. Free' = Free
      BY <3>1 DEF Free
    <3>5. /\ ~Leaving /\ (Launching' => Launching)
          /\ pc' \notin {"find", "kill", "free", "report", "start"}
      BY <3>1 DEF Leaving, Launching
    <3>6. Supply'
      BY <3>1, <3>4 DEF JobInv, Launch, Supply
    <3> QED
      BY <3>1, <3>2, <3>3, <3>5, <3>6, QuietKeeps
  <2> QED
    BY <2>1, <2>2
<1>7. CASE WaitStart
  <2>1. /\ pc = "wait" /\ pc' = "find"
        /\ \/ curr' = Null
           \/ curr' \in ToSet(jobs) /\ curr' \in Cells
        /\ UNCHANGED <<blocked, cmd, i, pid, pgid, job, jid>>
        /\ UNCHANGED <<listVars, proc, pgrp, wanted, term>>
    BY <1>0, <1>7, HeadOf DEF WaitStart, At, procVars
  <2>2. ShellTypes'
    BY <1>0, <2>1 DEF ShellTypes, Labels
  <2>3. ProcTypes'
    BY <1>0, <2>1 DEF ProcTypes
  <2>4. ~Leaving /\ ~Launching' /\ Supply'
    BY <2>1 DEF Leaving, Launching, Supply
  <2> QED
    BY <2>1, <2>2, <2>3, <2>4, QuietKeeps
<1>8. CASE WaitFind
  <2>1. /\ pc = "find" /\ pc' \in {"find", "look", "retake"}
        /\ UNCHANGED <<blocked, cmd, i, pid, pgid, jid>>
        /\ UNCHANGED <<listVars, proc, pgrp, wanted, term>>
    BY <1>8 DEF WaitFind, Found, WalkOn, NotFound, At, procVars
  <2>2. /\ job' \in Cells \union {Null}
        /\ \/ curr' = Null
           \/ curr' \in ToSet(jobs) \union ToSet(done)
    <3>1. CASE Found \/ (curr = Null /\ NotFound)
      BY <1>0, <3>1 DEF Found, NotFound, ShellTypes
    <3>2. CASE curr /= Null /\ WalkOn
      <4>1. job' = job /\ pc = "find" /\ curr /= Null
        BY <1>8, <3>2 DEF WaitFind, WalkOn, At
      <4>2. /\ curr \in allocated => curr' = NextOf(curr)
            /\ curr \notin allocated
                 => curr' \in ToSet(jobs) \union ToSet(done) \union {Null}
        BY <3>2 DEF WalkOn
      <4>3. curr \in allocated => curr \in ToSet(jobs) \union ToSet(done)
        BY <4>1 DEF JobInv, Lists
      <4>4. curr' = Null \/ curr' \in ToSet(jobs) \union ToSet(done)
        BY <4>2, <4>3, NextOnLists DEF JobInv
      <4> QED
        BY <1>0, <4>1, <4>4 DEF ShellTypes
    <3> QED
      BY <1>8, <3>1, <3>2 DEF WaitFind
  <2>3. curr' \in Cells \union {Null}
    BY <2>2, OnLists DEF JobInv
  <2>4. ShellTypes'
    BY <1>0, <2>1, <2>2, <2>3 DEF ShellTypes, Labels
  <2>5. ProcTypes'
    BY <1>0, <2>1 DEF ProcTypes
  <2>6. ~Leaving /\ ~Launching' /\ Supply'
    BY <2>1 DEF Leaving, Launching, Supply
  <2> QED
    BY <2>1, <2>2, <2>4, <2>5, <2>6, QuietKeeps
<1>9. CASE WaitLook \/ RetakeTerminal
  <2>1. /\ pc \in {"look", "retake"}
        /\ pc' \in {"wait", "retake", "check"}
        /\ UNCHANGED <<blocked, cmd, i, pid, pgid, job, jid, curr>>
        /\ UNCHANGED <<listVars, proc, pgrp, wanted>>
        /\ term' = term \/ term' = Shell
    BY <1>9 DEF WaitLook, RetakeTerminal, At, procVars, shellVars
  <2>2. ShellTypes'
    BY <1>0, <2>1 DEF ShellTypes, Labels
  <2>3. ProcTypes'
    BY <1>0, <2>1 DEF ProcTypes
  <2>4. ~Leaving /\ ~Launching' /\ Supply'
    BY <2>1 DEF Leaving, Launching, Supply
  <2>5. pc' \notin {"find", "kill", "free", "report", "start"}
    BY <2>1
  <2> QED
    BY <2>1, <2>2, <2>3, <2>4, <2>5, QuietKeeps
<1> QED
  BY <1>1, <1>2, <1>3, <1>4, <1>5, <1>6, <1>7, <1>8, <1>9 DEF Quiet

-----------------------------------------------------------------------------
(* Reporting a job, and the end of the shell.                              *)
LEMMA ReportJobInv ==
  ASSUME JobInv, ReportDone
  PROVE  JobInv'
<1>1. /\ pc = "report" /\ pc' = "check" /\ ~Leaving /\ ~Launching'
      /\ done' = After(done, curr) /\ allocated' = allocated \ {curr}
      /\ UNCHANGED <<jobs, n_jobs, cell, damaged>>
      /\ UNCHANGED shellVars /\ UNCHANGED <<proc, pgrp, wanted, term>>
  BY DEF ReportDone, At, Leaving, Launching, procVars
<1>2. /\ jobs \in Seq(Cells) /\ done \in Seq(Cells)
      /\ curr \in ToSet(done) /\ ListsApart
  BY <1>1 DEF JobInv, ListTypes, Lists
<1>3. /\ After(done, curr) \in Seq(Cells)
      /\ ToSet(After(done, curr)) \subseteq ToSet(done)
      /\ Distinct(After(done, curr)) /\ curr \notin ToSet(After(done, curr))
  BY <1>2, Following DEF ListsApart
<1>4. ListTypes'
  BY <1>1, <1>3 DEF JobInv, ListTypes
<1>5. ShellTypes'
  BY <1>1 DEF JobInv, ShellTypes, Labels, shellVars
<1>6. ProcTypes'
  BY <1>1 DEF JobInv, ProcTypes
<1>7. ListsApart'
  BY <1>1, <1>2, <1>3 DEF ListsApart
<1>8. Lists'
  BY <1>1, <1>7 DEF JobInv, Lists
<1>9. Counter'
  BY <1>1 DEF JobInv, Counter, Leaving
<1>10. Launch'
  BY <1>1 DEF Launch, Supply
<1>11. Counts'
  BY <1>1, CountsKept DEF JobInv
<1> QED
  BY <1>4, <1>5, <1>6, <1>8, <1>9, <1>10, <1>11 DEF JobInv

(* In terminate_jobs and after it.                                         *)
LEMMA LeavingKeeps ==
  ASSUME JobInv, Leaving', ListTypes', ShellTypes', ProcTypes', cell' = cell,
         Distinct(jobs)', ToSet(jobs)' \subseteq ToSet(jobs),
         \A p \in Pids : proc[p] = "gone" => proc'[p] = "gone",
         pc' \in {"kill", "free"} /\ curr' /= Null /\ curr' \in allocated'
           => curr' \in ToSet(jobs)' \union ToSet(done)'
  PROVE  JobInv'
<1>1. /\ ~Launching'
      /\ pc' \notin {"report", "start", "fork", "setpgid", "give", "record",
                     "find"}
  BY DEF Leaving, Launching
<1>2. Lists'
  BY <1>1 DEF Lists
<1>3. Counter' /\ Launch'
  BY <1>1 DEF Counter, Launch, Supply
<1>4. Counts'
  BY <1>1, CountsKept DEF JobInv
<1> QED
  BY <1>2, <1>3, <1>4 DEF JobInv

LEMMA ExitJobInv ==
  ASSUME JobInv, KillJob \/ FreeJob \/ FinishExit
  PROVE  JobInv'
<1>0. /\ ListTypes /\ ShellTypes /\ ProcTypes /\ Lists /\ Distinct(jobs)
      /\ jobs \in Seq(Cells) /\ done \in Seq(Cells) /\ <<>> \in Seq(Cells)
      /\ allocated \subseteq Cells /\ curr \in Cells \union {Null}
  BY EmptySeq DEF JobInv, ListTypes, ShellTypes, Lists
<1>1. CASE KillJob
  <2>1. /\ pc = "kill" /\ pc' = "free" /\ Leaving'
        /\ n_jobs' = n_jobs - 1 /\ damaged' = (damaged \/ curr \notin allocated)
        /\ proc' = proc \/ proc' = Kill(cell[curr].pgid)
        /\ UNCHANGED <<jobs, done, cell, allocated>>
        /\ UNCHANGED shellVars /\ UNCHANGED <<pgrp, wanted, term>>
    BY <1>1 DEF KillJob, At, Leaving
  <2>2. damaged' \in BOOLEAN
    BY <2>1
  <2>3. ListTypes'
    BY <1>0, <2>1, <2>2 DEF ListTypes
  <2>4. ShellTypes'
    BY <1>0, <2>1 DEF ShellTypes, Labels, shellVars
  <2>5. ProcTypes' /\ \A p \in Pids : proc[p] = "gone" => proc'[p] = "gone"
    BY <1>0, <2>1, KillTypes DEF ProcTypes
  <2>6. curr' /= Null /\ curr' \in allocated'
          => curr' \in ToSet(jobs)' \union ToSet(done)'
    BY <1>0, <2>1 DEF Lists, shellVars
  <2> QED
    BY <1>0, <2>1, <2>3, <2>4, <2>5, <2>6, LeavingKeeps
<1>2. CASE FreeJob
  <2>1. /\ pc = "free" /\ pc' = "kill" /\ Leaving'
        /\ curr' = IF curr \in allocated THEN NextOf(curr) ELSE Null
        /\ allocated' = allocated \ {curr}
        /\ damaged' = (damaged \/ curr \notin allocated)
        /\ UNCHANGED <<jobs, done, n_jobs, cell>>
        /\ UNCHANGED <<blocked, cmd, i, pid, pgid, job, jid>>
        /\ UNCHANGED <<proc, pgrp, wanted, term>>
    BY <1>2 DEF FreeJob, At, Leaving, procVars
  <2>2. curr' = Null \/ curr' \in ToSet(jobs) \union ToSet(done)
    <3>1. ASSUME curr \in allocated
          PROVE  curr \in ToSet(jobs) \union ToSet(done)
      BY <1>0, <2>1, <3>1, NullAssumption DEF Lists
    <3> QED
      BY <1>0, <2>1, <3>1, NextOnLists
  <2>3. curr' \in Cells \union {Null}
    BY <1>0, <2>2, OnLists
  <2>4. damaged' \in BOOLEAN
    BY <2>1
  <2>5. ListTypes'
    BY <1>0, <2>1, <2>4 DEF ListTypes
  <2>6. ShellTypes'
    BY <1>0, <2>1, <2>3 DEF ShellTypes, Labels
  <2>7. ProcTypes'
    BY <1>0, <2>1 DEF ProcTypes
  <2> QED
    BY <1>0, <2>1, <2>2, <2>5, <2>6, <2>7, LeavingKeeps
<1>3. CASE FinishExit
  <2>1. /\ pc' = "exited" /\ Leaving'
        /\ jobs' = <<>> /\ done' = <<>>
        /\ allocated' = allocated \ ToSet(done)
        /\ damaged' = (damaged \/ ~(ToSet(done) \subseteq allocated))
        /\ proc' = [p \in Pids |-> IF proc[p] = "zombie" THEN "gone"
                                   ELSE proc[p]]
        /\ UNCHANGED <<n_jobs, cell>>
        /\ UNCHANGED shellVars /\ UNCHANGED <<pgrp, wanted, term>>
    BY <1>3 DEF FinishExit, Leaving
  <2>2. damaged' \in BOOLEAN
    BY <2>1
  <2>3. ListTypes'
    BY <1>0, <2>1, <2>2 DEF ListTypes
  <2>4. ShellTypes'
    BY <1>0, <2>1 DEF ShellTypes, Labels, shellVars
  <2>5. ProcTypes' /\ \A p \in Pids : proc[p] = "gone" => proc'[p] = "gone"
    BY <1>0, <2>1 DEF ProcTypes
  <2> QED
    BY <2>1, <2>3, <2>4, <2>5, NoElements, LeavingKeeps
<1> QED
  BY <1>1, <1>2, <1>3

-----------------------------------------------------------------------------
(* Starting a command.                                                     *)
LEMMA ForkJobInv ==
  ASSUME JobInv, Fork
  PROVE  JobInv'
<1> DEFINE p == CHOOSE q \in Free : \A r \in Free : q <= r
<1>1. /\ proc' = [proc EXCEPT ![p] = "new"]
      /\ wanted' = [wanted EXCEPT ![p] = pgid]
      /\ pid' = p /\ pgid' = IF i = 0 THEN p ELSE pgid
  BY DEF Fork
<1>2. /\ pc = "fork" /\ pc' = "setpgid" /\ Launching /\ Launching' /\ ~Leaving
      /\ UNCHANGED listVars
      /\ UNCHANGED <<blocked, cmd, i, job, jid, curr, pgrp, term>>
  BY DEF Fork, At, Launching, Leaving
<1>3. /\ ListTypes /\ ShellTypes /\ ProcTypes /\ Lists /\ Counter
      /\ Prepared /\ cmd.procs - i <= Cardinality(Free)
      /\ i \in Nat /\ cmd.procs \in Nat
  BY <1>2 DEF JobInv, ShellTypes, Launch, Supply
<1>4. p \in Free /\ Cardinality(Free \ {p}) = Cardinality(Free) - 1
  <2>1. Cardinality(Free) >= 1
    BY <1>3, FreeBounded DEF Prepared
  <2> QED
    BY <2>1, Born
<1> HIDE DEF p
<1>5. p \in Pids /\ proc[p] = "unborn"
  BY <1>4 DEF Free
<1>6. Free' = Free \ {p}
  BY <1>1, <1>3, <1>5 DEF Free, ProcTypes
<1>7. ListTypes'
  BY <1>2, <1>3 DEF ListTypes, listVars
<1>8. ShellTypes'
  BY <1>1, <1>2, <1>3, <1>5 DEF ShellTypes, Labels
<1>9. ProcTypes'
  BY <1>1, <1>2, <1>3, <1>5 DEF ProcTypes, ShellTypes, Shell
<1>10. Lists' /\ Counter'
  <2>1. /\ jobs' = jobs /\ done' = done /\ n_jobs' = n_jobs
        /\ allocated' = allocated /\ damaged' = damaged
        /\ ~Leaving' /\ pc' \notin {"report", "start", "kill", "free"}
    BY <1>2 DEF Leaving, listVars
  <2>2. Lists'
    BY <1>2, <1>3, <2>1 DEF Lists, ListsApart
  <2>3. Counter'
    BY <1>2, <1>3, <2>1 DEF Counter
  <2> QED
    BY <2>2, <2>3
<1>11. Prepared'
  BY <1>2, <1>3 DEF Prepared, listVars
<1>12. Supply'
  <2>1. Cardinality(Free') = Cardinality(Free) - 1
    BY <1>4, <1>6
  <2>2. Cardinality(Free) \in Nat
    BY FreeBounded
  <2>3. cmd' = cmd /\ i' = i
    BY <1>2
  <2> QED
    BY <1>2, <1>3, <2>1, <2>2, <2>3 DEF Supply
<1>13. Counts'
  <2>1. \A q \in Pids : proc[q] = "gone" => proc'[q] = "gone"
    BY <1>1, <1>3, <1>5 DEF ProcTypes
  <2> QED
    BY <1>2, <2>1, CountsKept DEF JobInv, listVars
<1> QED
  BY <1>7, <1>8, <1>9, <1>10, <1>11, <1>12, <1>13 DEF JobInv, Launch

LEMMA NewJobTypes ==
  ASSUME n_jobs \in Int, NEW state \in JobStates
  PROVE  /\ new_job(state) \in Contents
         /\ new_job(state).job_id = n_jobs + 1 /\ new_job(state).state = state
         /\ new_job(state).pid_list = <<>> /\ new_job(state).curr_num = 0
<1>1. PICK none : none = <<>>
  OBVIOUS
<1>2. none \in Seq(Pids \union {Unset})
  BY <1>1, EmptySeq
<1>a. PICK r : r = [job_id |-> 0, state |-> "unknown", pgid |-> 0,
                    pid_list |-> none, curr_num |-> 0]
  OBVIOUS
<1>b. new_job(state) = [r EXCEPT !.job_id = n_jobs + 1, !.state = state]
  BY <1>1, <1>a, Zenon DEF new_job, NoJob
<1>3. new_job(state) = [job_id |-> n_jobs + 1, state |-> state, pgid |-> 0,
                        pid_list |-> none, curr_num |-> 0]
  BY <1>a, <1>b
<1>4. 0 \in 0 .. MaxPid
  BY BoundsAssumption
<1> QED
  BY <1>1, <1>2, <1>3, <1>4 DEF Contents

LEMMA StartJobInv ==
  ASSUME JobInv, StartJob
  PROVE  JobInv'
<1>a. PICK new \in Cells \ allocated :
        LET state == IF cmd.bg THEN "background" ELSE "foreground"
            added == [cell EXCEPT ![new] = new_job(state)]
            found == find_job_by_jid(Append(jobs, new), added, n_jobs + 1)
        IN  /\ allocated' = allocated \union {new}
            /\ jobs' = Append(jobs, new)
            /\ job' = found
            /\ cell' = [added EXCEPT
                 ![found].curr_num = cmd.procs,
                 ![found].pid_list = [k \in 1 .. cmd.procs |-> Unset]]
  BY DEF StartJob
<1> DEFINE state == IF cmd.bg THEN "background" ELSE "foreground"
           added == [cell EXCEPT ![new] = new_job(state)]
           found == find_job_by_jid(Append(jobs, new), added, n_jobs + 1)
<1>1. allocated' = allocated \union {new} /\ jobs' = Append(jobs, new)
  BY <1>a
<1>b. job' = found
  BY <1>a
<1>c. cell' = [added EXCEPT
                 ![found].curr_num = cmd.procs,
                 ![found].pid_list = [k \in 1 .. cmd.procs |-> Unset]]
  BY <1>a
<1>d. state \in JobStates
  BY DEF JobStates
<1>e. added = [cell EXCEPT ![new] = new_job(state)]
  OBVIOUS
<1> HIDE DEF state, added
<1>f. \/ found = Null /\ \A c \in ToSet(jobs') : added[c].job_id /= n_jobs + 1
      \/ found \in ToSet(jobs') /\ found \in Cells
  <2>1. jobs' = Append(jobs, new) /\ Append(jobs, new) \in Seq(Cells)
    BY <1>1, AppendProperties DEF JobInv, ListTypes
  <2>2. PICK list, contents : list = jobs' /\ contents = added
    OBVIOUS
  <2>3. found = find_job_by_jid(list, contents, n_jobs + 1)
    BY <2>1, <2>2
  <2>4. list \in Seq(Cells)
    BY <2>1, <2>2
  <2>5. \/ /\ found = Null
           /\ \A c \in ToSet(list) : contents[c].job_id /= n_jobs + 1
        \/ found \in ToSet(list) /\ found \in Cells
    BY <2>3, <2>4, FoundByJid
  <2> QED
    BY <2>2, <2>5
<1> HIDE DEF found
<1>2. /\ pc = "start" /\ pc' = "fork" /\ Launching' /\ ~Launching /\ ~Leaving
      /\ blocked' = TRUE /\ i' = 0 /\ pgid' = 0
      /\ n_jobs' = n_jobs + 1 /\ jid' = n_jobs + 1
      /\ UNCHANGED <<done, damaged, cmd, pid, curr>>
      /\ UNCHANGED <<proc, pgrp, wanted, term>>
  BY DEF StartJob, At, Launching, Leaving, procVars
<1>3. /\ ListTypes /\ ShellTypes /\ ProcTypes
      /\ jobs \in Seq(Cells) /\ cell \in [Cells -> Contents] /\ n_jobs \in Int
      /\ allocated \subseteq Cells
      /\ Distinct(jobs) /\ ListsApart /\ ~damaged
      /\ n_jobs = Len(jobs) /\ n_jobs < MAX_JOBS
      /\ cmd.procs \in Nat \ {0} /\ cmd.procs <= Cardinality(Free)
  BY <1>2 DEF JobInv, ListTypes, ShellTypes, Lists, Counter, Launch, Supply
<1>4. cmd.procs \in 0 .. MaxPid
  BY <1>3, FreeBounded, BoundsAssumption
<1>5. new \in Cells /\ new \notin ToSet(jobs) /\ new \notin ToSet(done)
  BY <1>1, <1>3 DEF ListsApart
<1>6. /\ jobs' \in Seq(Cells) /\ Len(jobs') = Len(jobs) + 1
      /\ ToSet(jobs') = ToSet(jobs) \union {new}
      /\ Distinct(jobs')
  BY <1>1, <1>3, <1>5, Appended
<1>7. PICK list : list = [k \in 1 .. cmd.procs |-> Unset]
  OBVIOUS
<1>8. /\ list \in Seq(Pids \union {Unset}) /\ Len(list) = cmd.procs
      /\ DOMAIN list = 1 .. cmd.procs
      /\ \A k \in DOMAIN list : list[k] = Unset
  <2>1. list \in [1 .. cmd.procs -> Pids \union {Unset}] /\ cmd.procs \in Nat
    BY <1>3, <1>7
  <2>2. list \in Seq(Pids \union {Unset})
    BY <2>1, SeqDef
  <2>3. DOMAIN list = 1 .. Len(list) /\ Len(list) \in Nat
    BY <2>2, LenProperties
  <2> QED
    BY <1>3, <1>7, <2>1, <2>2, <2>3
<1>9. /\ <<>> \in Seq(Pids \union {Unset}) /\ Len(<<>>) = 0
  BY EmptySeq
<1>10. /\ new_job(state) \in Contents
       /\ new_job(state).job_id = n_jobs + 1
       /\ new_job(state).pid_list = <<>> /\ new_job(state).curr_num = 0
  BY <1>3, <1>d, NewJobTypes
<1>11. /\ added \in [Cells -> Contents] /\ added[new] = new_job(state)
       /\ \A c \in Cells : c /= new => added[c] = cell[c]
  BY <1>e, <1>3, <1>5, <1>10
<1>12. found \in ToSet(jobs') /\ found \in Cells
  <2>1. new \in ToSet(jobs') /\ added[new].job_id = n_jobs + 1
    BY <1>6, <1>10, <1>11
  <2> QED
    BY <1>f, <2>1
<1>13. /\ cell' \in [Cells -> Contents]
       /\ cell'[found].curr_num = cmd.procs /\ cell'[found].pid_list = list
       /\ \A c \in Cells : c /= found => cell'[c] = added[c]
  <2>1. cell' = [added EXCEPT ![found] =
                   [@ EXCEPT !.curr_num = cmd.procs, !.pid_list = list]]
    BY <1>c, <1>7
  <2>2. added[found] \in Contents
    BY <1>11, <1>12
  <2>3. [added[found] EXCEPT !.curr_num = cmd.procs, !.pid_list = list]
          \in Contents
    BY <1>4, <1>8, <2>2 DEF Contents
  <2>4. cell'[found] = [added[found] EXCEPT !.curr_num = cmd.procs,
                                            !.pid_list = list]
    BY <1>11, <1>12, <2>1
  <2>5. cell' \in [Cells -> Contents]
    BY <1>11, <1>12, <2>1, <2>3
  <2>6. \A c \in Cells : c /= found => cell'[c] = added[c]
    BY <1>11, <2>1
  <2>7. cell'[found].curr_num = cmd.procs /\ cell'[found].pid_list = list
    BY <2>2, <2>4 DEF Contents
  <2> QED
    BY <2>5, <2>6, <2>7
<1>14. ListTypes'
  <2>1. damaged' \in BOOLEAN
    BY <1>2 DEF JobInv, ListTypes
  <2>2. allocated' \subseteq Cells /\ n_jobs' \in Int /\ done' \in Seq(Cells)
    BY <1>1, <1>2, <1>3 DEF ListTypes
  <2> QED
    BY <1>6, <1>13, <2>1, <2>2 DEF ListTypes
<1>15. ShellTypes'
  <2>1. blocked' \in BOOLEAN
    BY <1>2
  <2> QED
    BY <1>b, <1>2, <1>3, <1>12, <2>1 DEF ShellTypes, Labels
<1>16. ProcTypes'
  BY <1>2, <1>3 DEF ProcTypes
<1>17. ListsApart'
  BY <1>1, <1>2, <1>3, <1>5, <1>6 DEF ListsApart
<1>18. Lists' /\ Counter'
  BY <1>2, <1>3, <1>6, <1>17, BoundsAssumption, LenProperties DEF Lists, Counter
<1>19. Launch'
  <2>1. Prepared'
    <3>1. /\ job' = found /\ i' = 0 /\ cmd' = cmd /\ found \in ToSet(jobs')
          /\ cell'[found].pid_list = list /\ 0 < cmd.procs
      BY <1>b, <1>2, <1>3, <1>12, <1>13
    <3> QED
      BY <1>8, <3>1 DEF Prepared
  <2>2. Free' = Free
    BY <1>2 DEF Free
  <2>3. Supply'
    BY <1>2, <1>3, <2>2 DEF Supply
  <2> QED
    BY <2>1, <2>3 DEF Launch
<1>20. Counts'
  <2>1. ASSUME NEW c \in ToSet(jobs')
        PROVE  Cardinality(Live(c)') <= cell'[c].curr_num
    <3>1. c \in Cells
      BY <1>5, <1>6, <1>3, <2>1, OnLists
    <3>a. PICK later : later = From(c)'
      OBVIOUS
    <3>2. /\ Live(c)' = Alive(cell'[c].pid_list, proc, later)
          /\ c /= found => later = Len(cell'[c].pid_list)
      BY <1>b, <1>2, <3>a DEF From, Live
    <3>3. CASE c = found
      BY <1>8, <1>13, <3>2, <3>3, AliveCounts
    <3>4. CASE c /= found /\ c = new
      <4>1. cell'[c].pid_list = <<>> /\ cell'[c].curr_num = 0
        BY <1>10, <1>11, <1>13, <3>1, <3>4
      <4>2. Cardinality(Alive(<<>>, proc, later)) <= 0
        BY <1>9, AliveCounts
      <4> QED
        BY <3>2, <4>1, <4>2
    <3>5. CASE c /= found /\ c /= new
      <4>1. cell'[c] = cell[c] /\ c \in ToSet(jobs)
        BY <1>6, <1>11, <1>13, <3>1, <3>5
      <4>2. From(c) = Len(cell[c].pid_list)
        BY <1>2 DEF From
      <4>3. Live(c)' = Live(c)
        BY <3>2, <3>5, <4>1, <4>2 DEF Live
      <4> QED
        BY <4>1, <4>3 DEF JobInv, Counts
    <3> QED
      BY <3>3, <3>4, <3>5
  <2> QED
    BY <2>1 DEF Counts
<1> QED
  BY <1>14, <1>15, <1>16, <1>18, <1>19, <1>20 DEF JobInv

LEMMA RecordJobInv ==
  ASSUME JobInv, RecordPid
  PROVE  JobInv'
<1>1. /\ pc = "record" /\ Launching /\ ~Leaving /\ ~Leaving'
      /\ cell' = [cell EXCEPT ![job].pgid = RecordedGroup,
                              ![job].pid_list[i + 1] = pid]
      /\ damaged' = (damaged \/ job \notin allocated)
      /\ blocked' = FALSE /\ i' = i + 1
      /\ pc' = IF i + 1 < cmd.procs THEN "fork"
               ELSE IF cmd.bg THEN "check"
               ELSE IF cmd.procs > 1 /\ IsATty THEN "give" ELSE "wait"
      /\ UNCHANGED <<jobs, done, n_jobs, allocated, cmd, pid, pgid, job, jid,
                     curr>>
      /\ UNCHANGED <<proc, pgrp, wanted, term>>
  BY DEF RecordPid, At, Launching, Leaving, procVars
<1>2. /\ ListTypes /\ ShellTypes /\ ProcTypes /\ Lists /\ Counter
      /\ cell \in [Cells -> Contents] /\ i \in Nat /\ cmd.procs \in Nat \ {0}
      /\ pid \in Pids \union {0}
      /\ ListsApart /\ ~damaged
      /\ Prepared /\ cmd.procs - i - 1 <= Cardinality(Free)
  BY <1>1 DEF JobInv, ListTypes, ShellTypes, Lists, Launch, Supply
<1>3. /\ job \in ToSet(jobs) /\ job \in Cells /\ job \in allocated
      /\ i < cmd.procs /\ Len(cell[job].pid_list) = cmd.procs
  BY <1>2, OnLists DEF Prepared, ListsApart
<1>4. PICK list : list = cell[job].pid_list
  OBVIOUS
<1>5. /\ list \in Seq(Pids \union {Unset})
      /\ DOMAIN list = 1 .. Len(list) /\ Len(list) = cmd.procs
      /\ i + 1 \in 1 .. Len(list) /\ pid \in Pids \union {Unset}
  BY <1>2, <1>3, <1>4, CellTypes DEF Unset
<1>6. PICK next : next = [list EXCEPT ![i + 1] = pid]
  OBVIOUS
<1>7. /\ next \in Seq(Pids \union {Unset}) /\ Len(next) = Len(list)
      /\ \A k \in 1 .. Len(list) :
           next[k] = IF k = i + 1 THEN pid ELSE list[k]
      /\ DOMAIN next = 1 .. Len(list)
  <2>1. /\ next \in Seq(Pids \union {Unset}) /\ Len(next) = Len(list)
        /\ \A k \in 1 .. Len(list) :
             next[k] = IF k = i + 1 THEN pid ELSE list[k]
    BY <1>5, <1>6, ExceptSeq
  <2> QED
    BY <1>5, <1>6, <2>1
<1>8. /\ cell' \in [Cells -> Contents]
      /\ cell'[job].pid_list = next
      /\ cell'[job].curr_num = cell[job].curr_num
      /\ \A c \in Cells : c /= job => cell'[c] = cell[c]
  <2>1. RecordedGroup \in Pids \union {0}
    <3>1. cell[job].pgid \in Pids \union {0}
      BY <1>2, <1>3, CellTypes DEF Contents
    <3> QED
      BY <1>2, <3>1 DEF RecordedGroup
  <2>2. PICK was : was = cell[job]
    OBVIOUS
  <2>3. was \in Contents /\ was.pid_list = list
    BY <1>2, <1>3, <1>4, <2>2
  <2>4. PICK now : now = [was EXCEPT !.pgid = RecordedGroup, !.pid_list = next]
    OBVIOUS
  <2>5. now \in Contents /\ now.pid_list = next /\ now.curr_num = was.curr_num
    BY <1>7, <2>1, <2>3, <2>4 DEF Contents
  <2>6. cell' = [cell EXCEPT ![job] = now]
    BY <1>1, <1>4, <1>6, <2>2, <2>4
  <2> QED
    BY <1>2, <1>3, <2>2, <2>5, <2>6
<1>9. ListTypes'
  <2>1. damaged' \in BOOLEAN
    BY <1>1
  <2> QED
    BY <1>1, <1>2, <1>8, <2>1 DEF ListTypes
<1>12. pc' \in {"fork", "check", "give", "wait"} /\ ~damaged'
  BY <1>1, <1>2, <1>3
<1>10. ShellTypes'
  <2>1. blocked' \in BOOLEAN
    BY <1>1
  <2>3. i' \in Nat
    BY <1>1, <1>2
  <2>2. pc' \in Labels
    BY <1>12 DEF Labels
  <2> QED
    BY <1>1, <1>2, <2>1, <2>2, <2>3 DEF ShellTypes
<1>11. ProcTypes'
  BY <1>1, <1>2 DEF ProcTypes
<1>13. Lists' /\ Counter'
  <2>1. ListsApart'
    BY <1>1, <1>2 DEF ListsApart
  <2>2. Lists'
    BY <1>1, <1>2, <1>12, <2>1 DEF Lists
  <2>3. Counter'
    BY <1>1, <1>2, <1>12 DEF Counter
  <2> QED
    BY <2>2, <2>3
<1>14. Launching' => i + 1 < cmd.procs
  BY <1>1, <1>2 DEF Launching
<1>15. Launch'
  <2>1. ASSUME Launching' PROVE Prepared'
    <3>1. \A k \in DOMAIN next : k > i + 1 => next[k] = Unset
      BY <1>2, <1>4, <1>5, <1>7 DEF Prepared
    <3>2. DOMAIN cell'[job].pid_list = DOMAIN next /\ Len(next) = cmd.procs
      BY <1>5, <1>7, <1>8
    <3> QED
      BY <1>1, <1>3, <1>8, <1>14, <2>1, <3>1, <3>2 DEF Prepared
  <2>2. Free' = Free
    BY <1>1 DEF Free
  <2>3. Supply'
    BY <1>1, <1>2, <1>12, <2>2, FreeBounded DEF Supply
  <2> QED
    BY <2>1, <2>3 DEF Launch
<1>g. /\ job' = job /\ i' = i + 1 /\ proc' = proc /\ Launching
  BY <1>1
<1>16. Counts'
  <2>1. ASSUME NEW c \in ToSet(jobs')
        PROVE  Cardinality(Live(c)') <= cell'[c].curr_num
    <3>1. c \in Cells /\ c \in ToSet(jobs)
      BY <1>1, <1>2, OnLists
    <3>a. PICK from, later : from = From(c) /\ later = From(c)'
      OBVIOUS
    <3>2. /\ Live(c) = Alive(cell[c].pid_list, proc, from)
          /\ Live(c)' = Alive(cell'[c].pid_list, proc, later)
          /\ from = IF job = c THEN i ELSE Len(cell[c].pid_list)
          /\ \/ job = c /\ later = i + 1
             \/ later = Len(cell'[c].pid_list)
          /\ job /= c => later = Len(cell'[c].pid_list)
      BY <1>g, <3>a DEF From, Live
    <3>3. /\ Cardinality(Live(c)) <= cell[c].curr_num
          /\ cell[c].pid_list \in Seq(Pids \union {Unset})
          /\ cell[c].curr_num \in 0 .. MaxPid
      BY <1>2, <3>1, CellTypes DEF JobInv, Counts
    <3>4. CASE c /= job
      BY <1>8, <3>1, <3>2, <3>3, <3>4
    <3>5. CASE c = job
      <4>1. \A k \in 1 .. Len(list) :
              (k > later \/ (next[k] \in Pids /\ proc[next[k]] /= "gone"))
                => (k > i \/ (list[k] \in Pids /\ proc[list[k]] /= "gone"))
        <5>1. later = i + 1 \/ later = Len(list)
          BY <1>7, <1>8, <3>2, <3>5
        <5>2. ASSUME NEW k \in 1 .. Len(list), ~(k > i)
              PROVE  ~(k > later) /\ next[k] = list[k]
          BY <1>2, <1>5, <1>7, <5>1, <5>2
        <5> QED
          BY <5>2
      <4>2. Alive(next, proc, later) \in SUBSET Alive(list, proc, i)
        BY <1>5, <1>7, <4>1 DEF Alive
      <4>3. /\ Live(c)' = Alive(next, proc, later)
            /\ Live(c) = Alive(list, proc, i)
        BY <1>4, <1>8, <3>2, <3>5
      <4>4. Cardinality(Live(c)') <= Cardinality(Live(c))
        BY <1>5, <4>2, <4>3, FewerAlive
      <4>5. Cardinality(Live(c)') \in Nat /\ Cardinality(Live(c)) \in Nat
        BY <1>5, <1>7, <4>3, AliveCounts
      <4> QED
        BY <1>8, <3>3, <3>5, <4>4, <4>5, BoundsAssumption
    <3> QED
      BY <3>4, <3>5
  <2> QED
    BY <2>1 DEF Counts
<1> QED
  BY <1>9, <1>10, <1>11, <1>13, <1>15, <1>16 DEF JobInv

-----------------------------------------------------------------------------
(* sigchld_handler.                                                        *)

(* What the handler has to do with the job that a process belongs to: its  *)
(* counter is not zero, and it is not one while the job is being started.  *)
LEMMA OwnerCounts ==
  ASSUME JobInv, NEW p \in Pids, proc[p] = "zombie", NEW c \in ToSet(jobs),
         p \in ToSet(cell[c].pid_list), NEW later,
         later = [proc EXCEPT ![p] = "gone"]
  PROVE  /\ cell[c].curr_num \in 1 .. MaxPid
         /\ cell[c].curr_num = 1 => ~(Launching /\ job = c)
         /\ Cardinality(Alive(cell[c].pid_list, later, From(c)))
              <= cell[c].curr_num - 1
<1>1. /\ c \in Cells /\ Cardinality(Live(c)) <= cell[c].curr_num
      /\ ListTypes /\ DOMAIN proc = Pids /\ i \in Nat
      /\ Launching => Prepared
  BY OnLists DEF JobInv, Counts, ProcTypes, ShellTypes, Launch
<1>2. PICK list : list = cell[c].pid_list
  OBVIOUS
<1>3. /\ list \in Seq(Pids \union {Unset}) /\ cell[c].curr_num \in 0 .. MaxPid
      /\ DOMAIN list = 1 .. Len(list) /\ Len(list) \in Nat
  BY <1>1, <1>2, CellTypes
<1>4. PICK from : from = From(c)
  OBVIOUS
<1>5. /\ from \in Nat
      /\ \A k \in DOMAIN list : k > from => list[k] \notin Pids
      /\ Launching /\ job = c => from < Len(list)
  <2>1. CASE Launching /\ job = c
    <3>1. from = i /\ Len(list) = cmd.procs /\ i < cmd.procs
      BY <1>1, <1>2, <1>4, <2>1 DEF From, Prepared
    <3>2. \A k \in DOMAIN list : k > i => list[k] = Unset
      BY <1>1, <1>2, <2>1 DEF Prepared
    <3> QED
      BY <1>1, <3>1, <3>2 DEF Unset, Pids
  <2>2. CASE ~(Launching /\ job = c)
    <3>1. from = Len(list)
      BY <1>2, <1>4, <2>2 DEF From
    <3> QED
      BY <1>3, <2>2, <3>1
  <2> QED
    BY <2>1, <2>2
<1>6. /\ Cardinality(Alive(list, later, from))
           < Cardinality(Alive(list, proc, from))
      /\ from < Len(list) => Cardinality(Alive(list, later, from)) >= 1
  <2>1. proc[p] /= "gone" /\ p \in ToSet(list)
    BY <1>2
  <2> QED
    BY <1>1, <1>3, <1>5, <2>1, ReapedAlive
<1>7. /\ Cardinality(Alive(list, later, from)) \in Nat
      /\ Cardinality(Alive(list, proc, from)) \in Nat
  BY <1>3, AliveCounts
<1>8. Cardinality(Alive(list, proc, from)) <= cell[c].curr_num
  BY <1>1, <1>2, <1>4 DEF Live
<1> QED
  BY <1>2, <1>3, <1>4, <1>5, <1>6, <1>7, <1>8, BoundsAssumption

LEMMA HandlerJobInv ==
  ASSUME JobInv, NEW p \in Pids, sigchld_handler(p)
  PROVE  JobInv'
<1>1. /\ proc[p] = "zombie" /\ proc' = [proc EXCEPT ![p] = "gone"]
      /\ damaged' = (damaged \/ ~(ToSet(jobs) \subseteq allocated))
      /\ pc' = pc /\ pc /= "exited"
      /\ UNCHANGED <<blocked, cmd, i, pid, pgid, job, jid, curr>>
      /\ UNCHANGED <<pgrp, wanted, term>>
  BY DEF sigchld_handler, Listening, shellVars
<1>2. \/ /\ Owner(p) = Null
         /\ UNCHANGED <<jobs, done, n_jobs, cell, allocated>>
      \/ /\ Owner(p) /= Null
         /\ cell' = [cell EXCEPT ![Owner(p)].curr_num = @ - 1]
         /\ \/ cell[Owner(p)].curr_num = 1 /\ RemoveJob(Owner(p))
            \/ /\ cell[Owner(p)].curr_num /= 1
               /\ UNCHANGED <<jobs, done, n_jobs, allocated>>
  BY DEF sigchld_handler
<1>3. /\ ListTypes /\ ShellTypes /\ ProcTypes /\ Lists /\ Counter /\ Launch
      /\ jobs \in Seq(Cells) /\ done \in Seq(Cells) /\ n_jobs \in Int
      /\ cell \in [Cells -> Contents] /\ allocated \subseteq Cells
      /\ Distinct(jobs)
      /\ proc \in [Pids -> {"unborn", "new", "running", "zombie", "gone"}]
  BY DEF JobInv, ListTypes, Lists, ProcTypes
<1>4. ShellTypes'
  BY <1>1, <1>3 DEF ShellTypes
<1>5. ProcTypes'
  BY <1>1, <1>3 DEF ProcTypes
<1>6. /\ Free' = Free
      /\ \A q \in Pids : proc[q] = "gone" => proc'[q] = "gone"
  BY <1>1, <1>3 DEF Free
<1>7. damaged' \in BOOLEAN /\ (~Leaving => ~damaged')
  <2>1. damaged' \in BOOLEAN
    BY <1>1
  <2>2. ~Leaving => ~damaged'
    BY <1>1, <1>3 DEF Lists, ListsApart
  <2> QED
    BY <2>1, <2>2
<1>8. Leaving' = Leaving /\ Launching' = Launching
  BY <1>1 DEF Leaving, Launching
<1>9. Supply'
  BY <1>1, <1>3, <1>6 DEF Launch, Supply
<1>10. CASE Owner(p) = Null
  <2>1. UNCHANGED <<jobs, done, n_jobs, cell, allocated>>
    BY <1>2, <1>10
  <2>2. ListTypes'
    BY <1>3, <1>7, <2>1 DEF ListTypes
  <2>3. Lists'
    BY <1>1, <1>3, <1>7, <1>8, <2>1 DEF Lists, ListsApart
  <2>4. Counter'
    BY <1>1, <1>3, <1>8, <2>1 DEF Counter
  <2>5. Launching' => Prepared'
    BY <1>1, <1>3, <1>8, <2>1 DEF Launch, Prepared
  <2>6. Counts'
    BY <1>1, <1>6, <1>8, <2>1, CountsKept DEF JobInv
  <2> QED
    BY <1>4, <1>5, <1>9, <2>2, <2>3, <2>4, <2>5, <2>6 DEF JobInv, Launch
<1>11. CASE Owner(p) /= Null
  <2>1. PICK c : c = Owner(p)
    OBVIOUS
  <2>2. c \in ToSet(jobs) /\ c \in Cells /\ p \in ToSet(cell[c].pid_list)
    BY <1>3, <1>11, <2>1, OwnerFound
  <2>3. /\ cell[c].curr_num \in 1 .. MaxPid
        /\ cell[c].curr_num = 1 => ~(Launching /\ job = c)
        /\ Cardinality(Alive(cell[c].pid_list, proc', From(c)))
             <= cell[c].curr_num - 1
    BY <1>1, <2>2, OwnerCounts
  <2>4. /\ cell' \in [Cells -> Contents]
        /\ cell'[c].curr_num = cell[c].curr_num - 1
        /\ \A d \in Cells : cell'[d].pid_list = cell[d].pid_list
        /\ \A d \in Cells : d /= c => cell'[d] = cell[d]
    <3>1. cell' = [cell EXCEPT ![c].curr_num = @ - 1]
      BY <1>2, <1>11, <2>1
    <3>2. PICK was : was = cell[c]
      OBVIOUS
    <3>3. was \in Contents /\ was.curr_num - 1 \in 0 .. MaxPid
      <4>1. was \in Contents /\ was.curr_num \in 1 .. MaxPid
        BY <1>3, <2>2, <2>3, <3>2
      <4> QED
        BY <4>1, BoundsAssumption
    <3>4. PICK now : now = [was EXCEPT !.curr_num = was.curr_num - 1]
      OBVIOUS
    <3>5. /\ now \in Contents /\ now.curr_num = was.curr_num - 1
          /\ now.pid_list = was.pid_list
      BY <3>3, <3>4 DEF Contents
    <3>6. cell' = [cell EXCEPT ![c] = now]
      BY <3>1, <3>2, <3>4
    <3> QED
      BY <1>3, <2>2, <3>2, <3>5, <3>6
  <2>5. \/ UNCHANGED <<jobs, done, n_jobs, allocated>>
        \/ cell[c].curr_num = 1 /\ RemoveJob(c)
    BY <1>2, <1>11, <2>1
  <2>6. ASSUME NEW d \in ToSet(jobs), ToSet(jobs)' \subseteq ToSet(jobs)
        PROVE  Cardinality(Live(d)') <= cell'[d].curr_num
    <3>1. d \in Cells
      BY <1>3, OnLists
    <3>2. /\ cell[d].pid_list \in Seq(Pids \union {Unset})
          /\ Cardinality(Live(d)) <= cell[d].curr_num
          /\ cell[d].curr_num \in 0 .. MaxPid
      BY <1>3, <3>1, CellTypes DEF JobInv, Counts
    <3>3. PICK from : from = From(d)
      OBVIOUS
    <3>4. From(d)' = from
      BY <1>1, <1>8, <2>4, <3>1, <3>3 DEF From
    <3>5. /\ Live(d)' = Alive(cell[d].pid_list, proc', from)
          /\ Live(d) = Alive(cell[d].pid_list, proc, from)
      BY <2>4, <3>1, <3>3, <3>4 DEF Live
    <3>6. CASE d = c
      BY <2>3, <2>4, <3>3, <3>5, <3>6
    <3>7. CASE d /= c
      <4>1. Alive(cell[d].pid_list, proc', from)
              \in SUBSET Alive(cell[d].pid_list, proc, from)
        BY <1>6 DEF Alive
      <4>2. Cardinality(Live(d)') <= Cardinality(Live(d))
        BY <3>2, <3>5, <4>1, FewerAlive
      <4>3. Cardinality(Live(d)) \in Nat /\ Cardinality(Live(d)') \in Nat
        BY <3>2, <3>5, AliveCounts
      <4>4. cell'[d].curr_num = cell[d].curr_num
        BY <2>4, <3>1, <3>7
      <4> QED
        BY <3>2, <4>2, <4>3, <4>4, BoundsAssumption
    <3> QED
      BY <3>6, <3>7
  <2>7. CASE UNCHANGED <<jobs, done, n_jobs, allocated>>
    <3>1. ListTypes'
      BY <1>3, <1>7, <2>4, <2>7 DEF ListTypes
    <3>2. Lists'
      BY <1>1, <1>3, <1>7, <1>8, <2>7 DEF Lists, ListsApart
    <3>3. Counter'
      BY <1>1, <1>3, <1>8, <2>7 DEF Counter
    <3>4. Launching' => Prepared'
      <4>1. ASSUME Launching PROVE job \in Cells /\ Prepared
        BY <1>3, <4>1, OnLists DEF Launch, Prepared
      <4> QED
        BY <1>1, <1>8, <2>4, <2>7, <4>1 DEF Prepared
    <3>5. Counts'
      BY <2>6, <2>7 DEF Counts
    <3> QED
      BY <1>4, <1>5, <1>9, <3>1, <3>2, <3>3, <3>4, <3>5 DEF JobInv, Launch
  <2>8. CASE cell[c].curr_num = 1 /\ RemoveJob(c)
    <3>1. /\ jobs' = RemoveAt(jobs, Place(jobs, c)) /\ n_jobs' = n_jobs - 1
          /\ \/ done' = <<c>> \o done /\ allocated' = allocated
             \/ done' = done /\ allocated' = allocated \ {c}
      BY <2>8 DEF RemoveJob, Unlinked, Place, OneJobLess
    <3>2. /\ jobs' \in Seq(Cells) /\ Len(jobs') = Len(jobs) - 1
          /\ Distinct(jobs') /\ ToSet(jobs') = ToSet(jobs) \ {c}
      BY <1>3, <2>2, <3>1, Removed
    <3>3. /\ <<c>> \o done \in Seq(Cells)
          /\ ToSet(<<c>> \o done) = ToSet(done) \union {c}
          /\ Distinct(done) /\ c \notin ToSet(done) => Distinct(<<c>> \o done)
      BY <1>3, <2>2, Pushed
    <3>4. ListTypes'
      <4>1. allocated' \subseteq Cells /\ done' \in Seq(Cells) /\ n_jobs' \in Int
        <5>1. allocated \subseteq Cells /\ done \in Seq(Cells) /\ n_jobs \in Int
          BY <1>3
        <5>2. CASE done' = <<c>> \o done /\ allocated' = allocated
          BY <3>1, <3>3, <5>1, <5>2
        <5>3. CASE done' = done /\ allocated' = allocated \ {c}
          BY <3>1, <5>1, <5>3
        <5> QED
          BY <3>1, <5>2, <5>3
      <4> QED
        BY <1>7, <2>4, <3>2, <4>1 DEF ListTypes
    <3>5. ListsApart => ListsApart'
      BY <2>2, <3>1, <3>2, <3>3 DEF ListsApart
    <3>6. Lists'
      <4>1. pc' = "report" => curr' \in ToSet(done)'
        BY <1>1, <1>3, <3>1, <3>3 DEF Lists
      <4>2. pc' \in {"find", "kill", "free"} /\ curr' /= Null /\ curr' \in allocated'
              => curr' \in ToSet(jobs)' \union ToSet(done)'
        BY <1>1, <1>3, <3>1, <3>2, <3>3 DEF Lists
      <4> QED
        BY <1>3, <1>7, <1>8, <3>2, <3>5, <4>1, <4>2 DEF Lists
    <3>7. Counter'
      BY <1>1, <1>3, <1>8, <3>1, <3>2, BoundsAssumption, OnLists DEF Counter
    <3>8. Launching' => Prepared'
      <4>1. ASSUME Launching PROVE job \in Cells /\ job /= c /\ Prepared
        BY <1>3, <2>3, <2>8, <4>1, OnLists DEF Launch, Prepared
      <4> QED
        BY <1>1, <1>8, <2>4, <3>2, <4>1 DEF Prepared
    <3>9. Counts'
      BY <2>6, <3>2 DEF Counts
    <3> QED
      BY <1>4, <1>5, <1>9, <3>4, <3>6, <3>7, <3>8, <3>9 DEF JobInv, Launch
  <2> QED
    BY <2>5, <2>7, <2>8
<1> QED
  BY <1>10, <1>11

-----------------------------------------------------------------------------
LEMMA StutterJobInv ==
  ASSUME JobInv, UNCHANGED vars
  PROVE  JobInv'
<1>1. UNCHANGED listVars /\ UNCHANGED shellVars /\ UNCHANGED procVars
      /\ pc' = pc /\ term' = term
  BY DEF vars
<1>2. /\ jobs' = jobs /\ done' = done /\ n_jobs' = n_jobs /\ cell' = cell
      /\ allocated' = allocated /\ damaged' = damaged
      /\ blocked' = blocked /\ cmd' = cmd /\ i' = i /\ pid' = pid
      /\ pgid' = pgid /\ job' = job /\ jid' = jid /\ curr' = curr
      /\ proc' = proc /\ pgrp' = pgrp /\ wanted' = wanted
  BY <1>1 DEF listVars, shellVars, procVars
<1>3. ListTypes'
  BY <1>2 DEF JobInv, ListTypes
<1>4. ShellTypes'
  BY <1>1, <1>2 DEF JobInv, ShellTypes
<1>5. ProcTypes'
  BY <1>1, <1>2 DEF JobInv, ProcTypes
<1>6. Lists'
  BY <1>1, <1>2 DEF JobInv, Lists, ListsApart, Leaving
<1>7. Counter'
  BY <1>1, <1>2 DEF JobInv, Counter, Leaving
<1>8. Launch'
  BY <1>1, <1>2 DEF JobInv, Launch, Launching, Prepared, Supply, Free
<1>9. Counts'
  BY <1>1, <1>2, CountsKept DEF JobInv, Launching
<1> QED
  BY <1>3, <1>4, <1>5, <1>6, <1>7, <1>8, <1>9 DEF JobInv

LEMMA NextJobInv == JobInv /\ [Next]_vars => JobInv'
<1> SUFFICES ASSUME JobInv, [Next]_vars PROVE JobInv'
  OBVIOUS
<1>1. CASE Quiet
  BY <1>1, QuietJobInv
<1>2. CASE Outside
  BY <1>2, OutsideJobInv
<1>3. CASE ReportDone
  BY <1>3, ReportJobInv
<1>4. CASE KillJob \/ FreeJob \/ FinishExit
  BY <1>4, ExitJobInv
<1>5. CASE StartJob
  BY <1>5, StartJobInv
<1>6. CASE Fork
  BY <1>6, ForkJobInv
<1>7. CASE RecordPid
  BY <1>7, RecordJobInv
<1>8. ASSUME NEW p \in Pids, sigchld_handler(p) PROVE JobInv'
  BY <1>8, HandlerJobInv
<1>9. CASE UNCHANGED vars
  BY <1>9, StutterJobInv
<1> QED
  BY <1>1, <1>2, <1>3, <1>4, <1>5, <1>6, <1>7, <1>8, <1>9
     DEF Next, Main, Quiet, Outside

LEMMA JobInvariant == Spec => []JobInv
<1>1. Init => JobInv
  BY InitJobInv
<1>2. JobInv /\ [Next]_vars => JobInv'
  BY NextJobInv
<1> QED
  BY <1>1, <1>2, PTL DEF Spec

(* The types, with curr_num between zero and the number of processes, and  *)
(* n_jobs is the length of the job list and keeps to MAX_JOBS: the handler *)
(* that changes both may run between any two steps of the shell, also      *)
(* while the processes of a pipeline are started.                          *)
THEOREM JobsCounted == Spec => []NJobsExact
<1>1. JobInv => NJobsExact
  <2> SUFFICES ASSUME JobInv PROVE NJobsExact
    OBVIOUS
  <2>1. ASSUME NEW c \in Cells
        PROVE  /\ cell[c].state \in JobStates
               /\ cell[c].pid_list \in Seq(Pids \union {Unset})
               /\ cell[c].curr_num \in 0 .. MaxPid
    BY CellTypes DEF JobInv, Contents
  <2>2. TypeOK
    BY <2>1 DEF JobInv, ListTypes, ShellTypes, ProcTypes, TypeOK
  <2> QED
    BY <2>2 DEF JobInv, Counter, NJobsExact
<1> QED
  BY <1>1, JobInvariant, PTL

(* Until the shell leaves, neither it nor the handler writes or frees a    *)
(* job structure that was freed, although wait_fg may read one and follow  *)
(* what it reads: a job stays on its list until its last process is        *)
(* reaped, and not all of them are while it is started.                    *)
THEOREM JobsMemorySafe == Spec => []NoMemoryError
<1>1. JobInv => NoMemoryError
  BY DEF JobInv, Lists, ListsApart, NoMemoryError
<1> QED
  BY <1>1, JobInvariant, PTL

-----------------------------------------------------------------------------
(* With at most one background job at a time no job is lost: there is      *)
(* nothing on done_bg_jobs in front of the job that is reported.           *)
-----------------------------------------------------------------------------
(* No job is lost: what is not free is on a list.                          *)

LEMMA CountOf ==
  ASSUME NEW S, NEW s \in Seq(S), Distinct(s)
  PROVE  IsFiniteSet(ToSet(s)) /\ Cardinality(ToSet(s)) = Len(s)
<1>1. DOMAIN s = 1 .. Len(s) /\ Len(s) \in Nat /\ s \in [1 .. Len(s) -> S]
  BY LenProperties
<1>2. IsFiniteSet(1 .. Len(s)) /\ Cardinality(1 .. Len(s)) = Len(s)
  BY <1>1, FS_Interval
<1>3. s \in Bijection(1 .. Len(s), ToSet(s))
  <2>1. s \in [1 .. Len(s) -> ToSet(s)]
    BY <1>1 DEF ToSet
  <2>2. \A k, l \in 1 .. Len(s) : s[k] = s[l] => k = l
    BY <1>1 DEF Distinct
  <2>3. \A x \in ToSet(s) : \E k \in 1 .. Len(s) : s[k] = x
    BY <1>1 DEF ToSet
  <2> QED
    BY <2>1, <2>2, <2>3 DEF Bijection, Injection, Surjection, IsInjective
<1>4. ExistsBijection(1 .. Len(s), ToSet(s))
  BY <1>3 DEF ExistsBijection
<1> QED
  BY <1>2, <1>4, FS_Bijection

(* What has happened has happened.                                         *)
LEMMA RacesGrow ==
  ASSUME [Next]_vars
  PROVE  races \subseteq races'
<1>1. ASSUME NEW p \in Pids, sigchld_handler(p) PROVE races \subseteq races'
  BY <1>1 DEF sigchld_handler, Races
<1>2. CASE Outside
  BY <1>2 DEF Outside, sigint_handler, Child, ChildSetpgid, ChildExecFails,
              ChildExit
<1>3. CASE Quiet
  BY <1>3 DEF Quiet, CheckBgStatus, ReadCommand, ForkFails, ParentSetpgid,
              GiveTerminal, WaitStart, WaitFind, WaitLook, RetakeTerminal, Exit
<1>4. CASE StartJob
  BY <1>4 DEF StartJob, Races
<1>5. CASE ReportDone \/ Fork \/ RecordPid \/ KillJob \/ FreeJob \/ FinishExit
           \/ UNCHANGED vars
  BY <1>5 DEF ReportDone, Fork, RecordPid, KillJob, FreeJob, FinishExit, vars
<1> QED
  BY <1>1, <1>2, <1>3, <1>4, <1>5 DEF Next, Main, Quiet, Outside

LEMMA BarredBefore ==
  ASSUME [Next]_vars, NEW which, Barring(which)'
  PROVE  Barring(which)
BY RacesGrow DEF Barring

(* The new structure, with the number of jobs as its id, is appended.      *)
LEMMA Started ==
  ASSUME JobInv, StartJob
  PROVE  \E new \in Cells \ allocated :
           /\ allocated' = allocated \union {new}
           /\ ToSet(jobs)' = ToSet(jobs) \union {new}
           /\ jobs' = Append(jobs, new)
           /\ cell'[new].state = IF cmd.bg THEN "background" ELSE "foreground"
           /\ cell'[new].job_id = n_jobs + 1
           /\ job' \in ToSet(jobs)' /\ cell'[job'].job_id = n_jobs + 1
           /\ cell'[job'].curr_num = cmd.procs
           /\ ToSet(cell'[job'].pid_list) \intersect Pids = {}
           /\ \A c \in Cells \ {new} : /\ cell'[c].state = cell[c].state
                                       /\ cell'[c].job_id = cell[c].job_id
           /\ \A c \in Cells \ {new, job'} : cell'[c] = cell[c]
           /\ \/ "id" \in races'
              \/ /\ job' = new
                 /\ \A c \in ToSet(jobs) : cell[c].job_id /= n_jobs + 1
<1>1. PICK new \in Cells \ allocated :
        LET state == IF cmd.bg THEN "background" ELSE "foreground"
            added == [cell EXCEPT ![new] = new_job(state)]
            found == find_job_by_jid(Append(jobs, new), added, n_jobs + 1)
        IN  /\ allocated' = allocated \union {new}
            /\ jobs' = Append(jobs, new)
            /\ job' /= new => "id" \in races'
            /\ job' = found
            /\ cell' = [added EXCEPT
                 ![found].curr_num = cmd.procs,
                 ![found].pid_list = [k \in 1 .. cmd.procs |-> Unset]]
  BY DEF StartJob, Races
<1> DEFINE state == IF cmd.bg THEN "background" ELSE "foreground"
           added == [cell EXCEPT ![new] = new_job(state)]
           found == find_job_by_jid(Append(jobs, new), added, n_jobs + 1)
<1>2. allocated' = allocated \union {new} /\ jobs' = Append(jobs, new)
  BY <1>1
<1>3. job' = found
  BY <1>1
<1>3a. job' /= new => "id" \in races'
  BY <1>1
<1>4. cell' = [added EXCEPT
                 ![found].curr_num = cmd.procs,
                 ![found].pid_list = [k \in 1 .. cmd.procs |-> Unset]]
  BY <1>1
<1>5. state \in JobStates
  BY DEF JobStates
<1>6. /\ jobs \in Seq(Cells) /\ cell \in [Cells -> Contents] /\ n_jobs \in Int
      /\ new \in Cells
  BY DEF JobInv, ListTypes
<1> HIDE DEF state
<1>7. /\ added \in [Cells -> Contents]
      /\ added[new].state = state /\ added[new].job_id = n_jobs + 1
      /\ \A c \in Cells : c /= new => added[c] = cell[c]
  <2>1. /\ new_job(state) \in Contents /\ new_job(state).state = state
        /\ new_job(state).job_id = n_jobs + 1
    BY <1>5, <1>6, NewJobTypes
  <2> QED
    BY <1>6, <2>1
<1> HIDE DEF added
<1>8. /\ jobs' \in Seq(Cells) /\ ToSet(jobs') = ToSet(jobs) \union {new}
  BY <1>2, <1>6, Appended
<1>9. /\ found \in ToSet(jobs') /\ found \in Cells
      /\ added[found].job_id = n_jobs + 1
  <2>1. PICK list, contents : list = jobs' /\ contents = added
    OBVIOUS
  <2>2. found = find_job_by_jid(list, contents, n_jobs + 1)
    BY <1>2, <2>1
  <2>3. list \in Seq(Cells)
    BY <1>8, <2>1
  <2> HIDE DEF found
  <2>4. \/ /\ found = Null
           /\ \A c \in ToSet(list) : contents[c].job_id /= n_jobs + 1
        \/ /\ found \in ToSet(list) /\ found \in Cells
           /\ contents[found].job_id = n_jobs + 1
    BY <2>2, <2>3, FoundByJid
  <2> QED
    BY <1>7, <1>8, <2>1, <2>4
<1> HIDE DEF found
<1>10. /\ cell'[found].state = added[found].state
       /\ cell'[found].job_id = added[found].job_id
       /\ cell'[found].curr_num = cmd.procs
       /\ ToSet(cell'[found].pid_list) \intersect Pids = {}
       /\ \A c \in Cells : c /= found => cell'[c] = added[c]
  <2>1. PICK list : list = [k \in 1 .. cmd.procs |-> Unset]
    OBVIOUS
  <2>2. PICK was : was = added[found]
    OBVIOUS
  <2>3. PICK now : now = [was EXCEPT !.curr_num = cmd.procs, !.pid_list = list]
    OBVIOUS
  <2>4. cell' = [added EXCEPT ![found] = now]
    BY <1>4, <2>1, <2>2, <2>3
  <2>5. was \in Contents
    BY <1>7, <1>9, <2>2
  <2>6. /\ now.state = was.state /\ now.job_id = was.job_id
        /\ now.curr_num = cmd.procs /\ now.pid_list = list
    BY <2>3, <2>5 DEF Contents
  <2>7. ToSet(list) \intersect Pids = {}
    BY <2>1 DEF ToSet, Unset, Pids
  <2> QED
    BY <1>7, <1>9, <2>2, <2>4, <2>6, <2>7
<1>11. state = IF cmd.bg THEN "background" ELSE "foreground"
  BY DEF state
<1>12. /\ cell'[new].state = state /\ cell'[new].job_id = n_jobs + 1
       /\ \A c \in Cells \ {new} : /\ cell'[c].state = cell[c].state
                                   /\ cell'[c].job_id = cell[c].job_id
  BY <1>6, <1>7, <1>9, <1>10
<1>13. \A c \in Cells \ {new, job'} : cell'[c] = cell[c]
  BY <1>3, <1>7, <1>10
<1>14. /\ job' \in ToSet(jobs') /\ cell'[job'].job_id = n_jobs + 1
       /\ cell'[job'].curr_num = cmd.procs
       /\ ToSet(cell'[job'].pid_list) \intersect Pids = {}
  BY <1>3, <1>9, <1>10
<1>15. \/ "id" \in races'
       \/ /\ job' = new
          /\ \A c \in ToSet(jobs) : cell[c].job_id /= n_jobs + 1
  <2>1. CASE found /= new
    BY <1>3, <1>3a, <2>1
  <2>2. CASE found = new
    <3>1. ToSet(jobs) \subseteq allocated /\ ToSet(jobs) \subseteq Cells
      BY <1>6, PlaceOf DEF StartJob, At, Leaving, JobInv, Lists, ListsApart
    <3>2. PICK list, contents : list = jobs /\ contents = added
      OBVIOUS
    <3>3. find_job_by_jid(Append(list, new), contents, n_jobs + 1) = new
      BY <2>2, <3>2 DEF found
    <3>4. list \in Seq(Cells) /\ new \notin ToSet(list)
      BY <1>6, <3>1, <3>2
    <3>5. \A c \in ToSet(list) : contents[c].job_id /= n_jobs + 1
      BY <1>6, <3>3, <3>4, FoundLast
    <3>6. \A c \in ToSet(jobs) : added[c] = cell[c]
      BY <1>7, <3>1, <3>2, <3>4
    <3> QED
      BY <1>3, <2>2, <3>2, <3>5, <3>6
  <2> QED
    BY <2>1, <2>2
<1> QED
  BY <1>2, <1>8, <1>11, <1>12, <1>13, <1>14, <1>15

(* The other steps change no state and no id of a job.                     *)
LEMMA CellsKept ==
  ASSUME JobInv, [Next]_vars, ~StartJob, NEW c \in Cells
  PROVE  cell'[c].state = cell[c].state /\ cell'[c].job_id = cell[c].job_id
<1>1. cell \in [Cells -> Contents] /\ cell[c] \in Contents
  BY DEF JobInv, ListTypes
<1>2. CASE RecordPid
  <2>1. cell' = [cell EXCEPT ![job].pgid = RecordedGroup,
                             ![job].pid_list[i + 1] = pid]
    BY <1>2 DEF RecordPid
  <2>2. PICK was : was = cell[job]
    OBVIOUS
  <2>3. PICK now : now = [was EXCEPT !.pgid = RecordedGroup,
                                     !.pid_list[i + 1] = pid]
    OBVIOUS
  <2>4. cell' = [cell EXCEPT ![job] = now]
    BY <2>1, <2>2, <2>3
  <2>5. CASE c = job
    <3>1. was \in Contents /\ cell'[c] = now
      BY <1>1, <2>2, <2>4, <2>5
    <3>2. now.state = was.state /\ now.job_id = was.job_id
      BY <2>3, <3>1 DEF Contents
    <3> QED
      BY <2>2, <2>5, <3>1, <3>2
  <2>6. CASE c /= job
    BY <1>1, <2>4, <2>6
  <2> QED
    BY <2>5, <2>6
<1>3. ASSUME NEW p \in Pids, sigchld_handler(p)
      PROVE  cell'[c].state = cell[c].state /\ cell'[c].job_id = cell[c].job_id
  <2>1. \/ cell' = cell
        \/ cell' = [cell EXCEPT ![Owner(p)].curr_num = @ - 1]
    BY <1>3 DEF sigchld_handler
  <2>2. PICK now : now = [cell[c] EXCEPT !.curr_num = @ - 1]
    OBVIOUS
  <2>3. now.state = cell[c].state /\ now.job_id = cell[c].job_id
    BY <1>1, <2>2 DEF Contents
  <2>4. cell'[c] = cell[c] \/ cell'[c] = now
    BY <1>1, <2>1, <2>2
  <2> QED
    BY <2>3, <2>4
<1>4. CASE Outside
  BY <1>4, OutsideProcs DEF JobInv, listVars
<1>5. CASE Quiet
  BY <1>5 DEF Quiet, CheckBgStatus, ReadCommand, ForkFails, ParentSetpgid,
              GiveTerminal, WaitStart, WaitFind, WaitLook, RetakeTerminal, Exit, listVars
<1>6. CASE ReportDone \/ Fork \/ KillJob \/ FreeJob \/ FinishExit
           \/ UNCHANGED vars
  BY <1>6 DEF ReportDone, Fork, KillJob, FreeJob, FinishExit, vars, listVars
<1> QED
  BY <1>2, <1>3, <1>4, <1>5, <1>6 DEF Next, Main, Quiet, Outside

(* What a step does to the lists while the shell works.                    *)
Removing(p, c) ==
  /\ sigchld_handler(p) /\ c = Owner(p) /\ cell[c].curr_num = 1
  /\ c \in ToSet(jobs) /\ p \in ToSet(cell[c].pid_list)
  /\ ToSet(jobs)' = ToSet(jobs) \ {c}
  /\ IF cell[c].state = "background"
     THEN ToSet(done)' = ToSet(done) \union {c} /\ allocated' = allocated
     ELSE ToSet(done)' = ToSet(done) /\ allocated' = allocated \ {c}

LEMMA ListSteps ==
  ASSUME JobInv, [Next]_vars, ~StartJob, ~Leaving'
  PROVE  /\ ~Leaving
         /\ \/ UNCHANGED <<jobs, done, allocated>>
            \/ ReportDone
            \/ \E p \in Pids, c \in Cells : Removing(p, c)
<1>0. jobs \in Seq(Cells) /\ done \in Seq(Cells) /\ Distinct(jobs)
  BY DEF JobInv, ListTypes, Lists
<1>1. ASSUME NEW p \in Pids, sigchld_handler(p)
      PROVE  /\ ~Leaving
             /\ \/ UNCHANGED <<jobs, done, allocated>>
                \/ \E c \in Cells : Removing(p, c)
  <2>1. ~Leaving
    BY <1>1 DEF sigchld_handler, Leaving
  <2>2. \/ UNCHANGED <<jobs, done, allocated>>
        \/ /\ Owner(p) /= Null /\ cell[Owner(p)].curr_num = 1
           /\ RemoveJob(Owner(p))
    BY <1>1 DEF sigchld_handler
  <2>3. ASSUME Owner(p) /= Null, cell[Owner(p)].curr_num = 1,
               RemoveJob(Owner(p))
        PROVE  \E c \in Cells : Removing(p, c)
    <3>1. PICK c : c = Owner(p)
      OBVIOUS
    <3>2. c \in ToSet(jobs) /\ c \in Cells /\ p \in ToSet(cell[c].pid_list)
      BY <1>0, <2>3, <3>1, OwnerFound
    <3>3. /\ jobs' = RemoveAt(jobs, Place(jobs, c))
          /\ IF cell[c].state = "background"
             THEN done' = <<c>> \o done /\ allocated' = allocated
             ELSE done' = done /\ allocated' = allocated \ {c}
      BY <2>3, <3>1 DEF RemoveJob, Unlinked, Place
    <3>4. ToSet(jobs') = ToSet(jobs) \ {c}
      BY <1>0, <3>2, <3>3, Removed
    <3>5. ToSet(<<c>> \o done) = ToSet(done) \union {c}
      BY <1>0, <3>2, Pushed
    <3> QED
      BY <1>1, <2>3, <3>1, <3>2, <3>3, <3>4, <3>5 DEF Removing
  <2> QED
    BY <2>1, <2>2, <2>3
<1>2. CASE Outside
  BY <1>2, OutsideProcs DEF JobInv, Leaving, listVars
<1>3. CASE Quiet
  <2>1. UNCHANGED listVars
    BY <1>3 DEF Quiet, CheckBgStatus, ReadCommand, ForkFails, ParentSetpgid,
                GiveTerminal, WaitStart, WaitFind, WaitLook, RetakeTerminal, Exit
  <2>2. ~Leaving
    BY <1>3 DEF Quiet, CheckBgStatus, ReadCommand, ForkFails, ParentSetpgid,
                GiveTerminal, WaitStart, WaitFind, WaitLook, RetakeTerminal, Exit, At,
                Leaving
  <2> QED
    BY <2>1, <2>2 DEF listVars
<1>4. CASE Fork \/ RecordPid
  BY <1>4 DEF Fork, RecordPid, At, Leaving, listVars
<1>5. CASE ReportDone
  BY <1>5 DEF ReportDone, At, Leaving
<1>6. ~(KillJob \/ FreeJob \/ FinishExit)
  BY DEF KillJob, FreeJob, FinishExit, Leaving
<1>7. CASE UNCHANGED vars
  BY <1>7 DEF vars, listVars, Leaving
<1> QED
  BY <1>1, <1>2, <1>3, <1>4, <1>5, <1>6, <1>7 DEF Next, Main, Quiet, Outside

(* Every structure that is not free is on a list, and check_bg_status      *)
(* removes the head of done_bg_jobs.                                       *)
Kept ==
  ~Leaving /\ Barring({"report"}) =>
    /\ allocated \subseteq ToSet(jobs) \union ToSet(done)
    /\ pc = "report" => done /= <<>> /\ curr = Head(done)

LEMMA InitKept == Init => Kept
<1> SUFFICES ASSUME Init PROVE Kept
  OBVIOUS
<1>1. allocated = {} /\ done = <<>> /\ jobs = <<>> /\ pc = "check"
  BY DEF Init
<1> QED
  BY <1>1, NoElements DEF Kept

LEMMA NextKept ==
  ASSUME JobInv, Kept, [Next]_vars
  PROVE  Kept'
<1> SUFFICES ASSUME ~Leaving', Barring({"report"})' PROVE Kept'
  BY DEF Kept
<1>0. /\ Barring({"report"}) /\ jobs \in Seq(Cells) /\ done \in Seq(Cells)
      /\ Distinct(jobs)
  BY BarredBefore DEF JobInv, ListTypes, Lists
<1>1. CASE StartJob
  <2>1. PICK new \in Cells \ allocated :
          /\ allocated' = allocated \union {new}
          /\ ToSet(jobs)' = ToSet(jobs) \union {new}
    BY <1>1, Started
  <2>2. pc = "start" /\ pc' = "fork" /\ ~Leaving /\ done' = done
    BY <1>1 DEF StartJob, At, Leaving
  <2>3. allocated \subseteq ToSet(jobs) \union ToSet(done)
    BY <1>0, <2>2 DEF Kept
  <2> QED
    BY <2>1, <2>2, <2>3 DEF Kept
<1>2. CASE ~StartJob
  <2>1. /\ ~Leaving
        /\ \/ UNCHANGED <<jobs, done, allocated>>
           \/ ReportDone
           \/ \E p \in Pids, c \in Cells : Removing(p, c)
    BY <1>2, ListSteps
  <2>2. /\ allocated \subseteq ToSet(jobs) \union ToSet(done)
        /\ pc = "report" => done /= <<>> /\ curr = Head(done)
        /\ ListsApart
    BY <1>0, <2>1 DEF Kept, JobInv, Lists
  <2>3. allocated' \subseteq ToSet(jobs)' \union ToSet(done)'
    <3>1. CASE ReportDone
      <4>1. /\ done' = After(done, curr) /\ allocated' = allocated \ {curr}
            /\ jobs' = jobs /\ pc = "report"
        BY <3>1 DEF ReportDone, At
      <4>2. ASSUME NEW c \in ToSet(done), c /= curr PROVE c \in ToSet(done')
        <5>1. UpTo(done, Head(done), c)
          BY <1>0, UpToHead
        <5>2. c \in ToSet(After(done, Head(done)))
          BY <1>0, <2>2, <4>1, <4>2, <5>1, UpToNext DEF ListsApart
        <5> QED
          BY <2>2, <4>1, <5>2
      <4> QED
        BY <2>2, <4>1, <4>2
    <3>2. ASSUME NEW p \in Pids, NEW c \in Cells, Removing(p, c)
          PROVE  allocated' \subseteq ToSet(jobs)' \union ToSet(done)'
      BY <2>2, <3>2 DEF Removing
    <3> QED
      BY <2>1, <2>2, <3>1, <3>2
  <2>4. pc' = "report" => done' /= <<>> /\ curr' = Head(done')
    <3>1. CASE CheckBgStatus
      BY <3>1 DEF CheckBgStatus, listVars
    <3>2. CASE Outside
      BY <2>2, <3>2, OutsideProcs DEF JobInv, listVars, shellVars
    <3>3. ASSUME NEW p \in Pids, sigchld_handler(p), pc' = "report"
          PROVE  done' = done /\ curr' = curr /\ pc = "report"
      <4>1. curr' = curr /\ pc = "report"
        BY <3>3 DEF sigchld_handler, shellVars
      <4>2. \/ done' = done
            \/ /\ cell[Owner(p)].state = "background"
               /\ races' = races \union Disturbed(Owner(p))
        BY <3>3 DEF sigchld_handler, RemoveJob
      <4>3. "report" \notin races'
        BY DEF Barring
      <4>4. cell[Owner(p)].state = "background"
              => "report" \in Disturbed(Owner(p))
        BY <4>1 DEF Disturbed
      <4> QED
        BY <4>1, <4>2, <4>3, <4>4
    <3>4. CASE UNCHANGED vars
      BY <2>2, <3>4 DEF vars, listVars, shellVars
    <3>5. ASSUME \/ Quiet /\ ~CheckBgStatus
                 \/ ReportDone \/ Fork \/ RecordPid \/ KillJob \/ FreeJob
                 \/ FinishExit
          PROVE  pc' /= "report"
      <4>1. ~(KillJob \/ FreeJob \/ FinishExit)
        BY <2>1 DEF KillJob, FreeJob, FinishExit, At, Leaving
      <4> QED
        BY <3>5, <4>1
           DEF Quiet, ReadCommand, ForkFails, ParentSetpgid, GiveTerminal,
               WaitStart, WaitFind, Found, WalkOn, NotFound, WaitLook,
               RetakeTerminal, Exit, BeginExit, ReportDone, Fork, RecordPid, At
    <3> QED
      BY <1>2, <2>2, <3>1, <3>2, <3>3, <3>4, <3>5 DEF Next, Main, Quiet, Outside
  <2> QED
    BY <2>3, <2>4 DEF Kept
<1> QED
  BY <1>1, <1>2

(* Whatever jobs there are, every structure that is not free is on one of  *)
(* the lists, and on it once, wherever the handler runs; unless it pushed  *)
(* a job in front of the one that check_bg_status was about to remove.     *)
THEOREM JobsKept == Spec => []NoJobLost
<1>1. JobInv /\ Kept => NoJobLost
  <2> SUFFICES ASSUME JobInv, Kept, ~Leaving, Barring({"report"})
               PROVE  /\ allocated = ToSet(jobs) \union ToSet(done)
                      /\ Cardinality(allocated) = Len(jobs) + Len(done)
    BY DEF NoJobLost
  <2>1. allocated = ToSet(jobs) \union ToSet(done)
    BY DEF Kept, JobInv, Lists, ListsApart
  <2>2. /\ jobs \in Seq(Cells) /\ done \in Seq(Cells)
        /\ Distinct(jobs) /\ Distinct(done)
        /\ ToSet(jobs) \intersect ToSet(done) = {}
    BY DEF JobInv, ListTypes, Lists, ListsApart
  <2>3. /\ IsFiniteSet(ToSet(jobs)) /\ Cardinality(ToSet(jobs)) = Len(jobs)
        /\ IsFiniteSet(ToSet(done)) /\ Cardinality(ToSet(done)) = Len(done)
        /\ Len(jobs) \in Nat /\ Len(done) \in Nat
    BY <2>2, CountOf, LenProperties
  <2>4. Cardinality(ToSet(jobs) \union ToSet(done))
          = Cardinality(ToSet(jobs)) + Cardinality(ToSet(done))
            - Cardinality(ToSet(jobs) \intersect ToSet(done))
    BY <2>3, FS_Union
  <2>5. Cardinality(ToSet(jobs) \intersect ToSet(done)) = 0
    BY <2>2, FS_EmptySet
  <2> QED
    BY <2>1, <2>3, <2>4, <2>5
<1>2. Kept /\ JobInv /\ [Next]_vars => Kept'
  BY NextKept
<1> QED
  BY <1>1, <1>2, InitKept, JobInvariant, PTL DEF Spec

-----------------------------------------------------------------------------
(* What the steps leave alone.                                             *)

(* To count a process of a job that has ended changes nothing else.        *)
LEMMA CountedDown ==
  ASSUME NEW f \in [Cells -> Contents], NEW o, NEW c \in Cells, NEW g,
         g = [f EXCEPT ![o].curr_num = @ - 1]
  PROVE  g[c].pid_list = f[c].pid_list /\ g[c].pgid = f[c].pgid
<1>1. CASE c = o
  <2>1. g[c] = [f[c] EXCEPT !.curr_num = @ - 1]
    BY <1>1
  <2>2. f[c] \in Contents
    OBVIOUS
  <2> QED
    BY <2>1, <2>2 DEF Contents
<1>2. CASE c /= o
  <2>1. g[c] = f[c]
    BY <1>2
  <2> QED
    BY <2>1
<1> QED
  BY <1>1, <1>2

(* What the other steps leave alone.                                       *)
LEMMA ListsOfPidsKept ==
  ASSUME JobInv, [Next]_vars, ~StartJob, ~RecordPid, NEW c \in Cells
  PROVE  cell'[c].pid_list = cell[c].pid_list /\ cell'[c].pgid = cell[c].pgid
<1>1. cell \in [Cells -> Contents] /\ cell[c] \in Contents
  BY DEF JobInv, ListTypes
<1>2. ASSUME NEW p \in Pids, sigchld_handler(p)
      PROVE  cell'[c].pid_list = cell[c].pid_list /\ cell'[c].pgid = cell[c].pgid
  <2>1. \/ cell' = cell
        \/ cell' = [cell EXCEPT ![Owner(p)].curr_num = @ - 1]
    BY <1>2 DEF sigchld_handler
  <2> QED
    BY <1>1, <2>1, CountedDown
<1>3. CASE Outside
  BY <1>3, OutsideProcs DEF JobInv, listVars
<1>4. CASE Quiet
  BY <1>4 DEF Quiet, CheckBgStatus, ReadCommand, ForkFails, ParentSetpgid,
              GiveTerminal, WaitStart, WaitFind, WaitLook, RetakeTerminal, Exit, listVars
<1>5. CASE ReportDone \/ Fork \/ KillJob \/ FreeJob \/ FinishExit
           \/ UNCHANGED vars
  BY <1>5 DEF ReportDone, Fork, KillJob, FreeJob, FinishExit, vars, listVars
<1> QED
  BY <1>2, <1>3, <1>4, <1>5 DEF Next, Main, Quiet, Outside

LEMMA ProcsKept ==
  ASSUME JobInv, [Next]_vars, ~Fork
  PROVE  /\ isBg' = isBg
         /\ \A p \in Pids : /\ proc[p] = "gone" => proc'[p] = "gone"
                            /\ proc[p] = "unborn" => proc'[p] = "unborn"
<1> DEFINE Lasting ==
      \A p \in Pids : /\ proc[p] = "gone" => proc'[p] = "gone"
                      /\ proc[p] = "unborn" => proc'[p] = "unborn"
<1>0. ProcTypes
  BY DEF JobInv
<1>1. CASE Outside
  <2>1. isBg' = isBg
    BY <1>1 DEF Outside, sigint_handler, Child, ChildSetpgid, ChildExecFails,
                ChildExit
  <2> QED
    BY <1>0, <1>1, <2>1, OutsideProcs
<1>2. ASSUME NEW q \in Pids, sigchld_handler(q)
      PROVE  isBg' = isBg /\ Lasting
  BY <1>0, <1>2 DEF sigchld_handler, ProcTypes
<1>3. CASE KillJob
  <2>1. isBg' = isBg /\ (proc' = proc \/ proc' = Kill(cell[curr].pgid))
    BY <1>3 DEF KillJob
  <2> QED
    BY <1>0, <2>1, KillTypes
<1>4. CASE FinishExit
  BY <1>0, <1>4 DEF FinishExit, ProcTypes
<1>5. CASE Quiet
  BY <1>5 DEF Quiet, CheckBgStatus, ReadCommand, ForkFails, ParentSetpgid,
              GiveTerminal, WaitStart, WaitFind, WaitLook, RetakeTerminal, Exit, procVars
<1>6. CASE StartJob \/ RecordPid \/ ReportDone \/ FreeJob \/ UNCHANGED vars
  BY <1>6 DEF StartJob, RecordPid, ReportDone, FreeJob, vars, procVars
<1> QED
  BY <1>1, <1>2, <1>3, <1>4, <1>5, <1>6 DEF Next, Main, Quiet, Outside

(* The handlers, the children, and nothing at all.                         *)
LEMMA AsyncKept ==
  ASSUME JobInv,
         Outside \/ (\E p \in Pids : sigchld_handler(p)) \/ UNCHANGED vars
  PROVE  pc' = pc /\ cmd' = cmd /\ job' = job /\ jid' = jid /\ pid' = pid
<1>1. CASE Outside
  BY <1>1, OutsideProcs DEF JobInv, shellVars
<1>2. CASE \E p \in Pids : sigchld_handler(p)
  BY <1>2 DEF sigchld_handler, shellVars
<1>3. CASE UNCHANGED vars
  BY <1>3 DEF vars, shellVars
<1> QED
  BY <1>1, <1>2, <1>3

(* When the handler takes a job off the list, its processes are reaped.    *)
LEMMA NoneLeft ==
  ASSUME JobInv, NEW p \in Pids, NEW c \in Cells, Removing(p, c),
         NEW q \in Pids, q \in ToSet(cell[c].pid_list)
  PROVE  proc'[q] = "gone"
<1>1. /\ proc[p] = "zombie" /\ proc' = [proc EXCEPT ![p] = "gone"]
      /\ c \in ToSet(jobs) /\ p \in ToSet(cell[c].pid_list)
      /\ cell[c].curr_num = 1
  BY DEF Removing, sigchld_handler
<1>2. PICK later : later = [proc EXCEPT ![p] = "gone"]
  OBVIOUS
<1>3. Cardinality(Alive(cell[c].pid_list, later, From(c))) <= 0
  <2>1. Cardinality(Alive(cell[c].pid_list, later, From(c)))
          <= cell[c].curr_num - 1
    BY <1>1, <1>2, OwnerCounts
  <2>2. cell[c].curr_num - 1 = 0
    BY <1>1
  <2> QED
    BY <2>1, <2>2
<1>4. PICK list, from : list = cell[c].pid_list /\ from = From(c)
  OBVIOUS
<1>5. list \in Seq(Pids \union {Unset})
  BY <1>4, CellTypes DEF JobInv
<1>6. Alive(list, later, from) = {}
  <2>1. /\ IsFiniteSet(Alive(list, later, from))
        /\ Cardinality(Alive(list, later, from)) \in Nat
    BY <1>5, AliveCounts
  <2>2. Cardinality(Alive(list, later, from)) = 0
    BY <1>3, <1>4, <2>1
  <2> QED
    BY <2>1, <2>2, FS_EmptySet
<1>7. PICK k \in DOMAIN list : list[k] = q
  BY <1>4 DEF ToSet
<1> QED
  BY <1>1, <1>2, <1>6, <1>7 DEF Alive

(* The pid is stored in a place that was not set.                          *)
LEMMA PidStored ==
  ASSUME JobInv, RecordPid
  PROVE  /\ job \in ToSet(jobs) /\ job \in Cells
         /\ ToSet(cell'[job].pid_list) \intersect Pids
              = (ToSet(cell[job].pid_list) \intersect Pids)
                \union ({pid} \intersect Pids)
         /\ cell'[job].curr_num = cell[job].curr_num
         /\ cell'[job].pgid = RecordedGroup
         /\ \A c \in Cells : c /= job => cell'[c] = cell[c]
<1>1. /\ cell' = [cell EXCEPT ![job].pgid = RecordedGroup,
                              ![job].pid_list[i + 1] = pid]
      /\ Prepared /\ ListTypes /\ i \in Nat /\ cmd.procs \in Nat
  BY DEF RecordPid, At, JobInv, Launch, Launching, ShellTypes
<1>2. job \in ToSet(jobs) /\ job \in Cells
  BY <1>1, OnLists DEF Prepared
<1>3. PICK was : was = cell[job]
  OBVIOUS
<1>4. PICK list : list = [was.pid_list EXCEPT ![i + 1] = pid]
  OBVIOUS
<1>5. PICK now : now = [was EXCEPT !.pgid = RecordedGroup, !.pid_list = list]
  OBVIOUS
<1>6. cell' = [cell EXCEPT ![job] = now]
  BY <1>1, <1>3, <1>4, <1>5
<1>7. was \in Contents /\ cell \in [Cells -> Contents]
  BY <1>1, <1>2, <1>3 DEF ListTypes
<1>8. /\ cell'[job].pid_list = list /\ cell'[job].curr_num = was.curr_num
      /\ cell'[job].pgid = RecordedGroup
  <2>1. /\ now.pid_list = list /\ now.curr_num = was.curr_num
        /\ now.pgid = RecordedGroup
    BY <1>5, <1>7 DEF Contents
  <2> QED
    BY <1>2, <1>6, <1>7, <2>1
<1>9. PICK old : old = was.pid_list
  OBVIOUS
<1>10. /\ DOMAIN old = 1 .. cmd.procs /\ i + 1 \in DOMAIN old
       /\ old[i + 1] = Unset
  <2>1. DOMAIN old = 1 .. Len(old)
    BY <1>1, <1>2, <1>3, <1>9, CellTypes
  <2>2. /\ i < cmd.procs /\ Len(old) = cmd.procs
        /\ \A k \in DOMAIN old : k > i => old[k] = Unset
    BY <1>1, <1>3, <1>9 DEF Prepared
  <2> QED
    BY <1>1, <2>1, <2>2
<1>11. /\ DOMAIN list = DOMAIN old /\ list[i + 1] = pid
       /\ \A k \in DOMAIN old : k /= i + 1 => list[k] = old[k]
  BY <1>4, <1>9, <1>10
<1>12. ToSet(list) \intersect Pids
         = (ToSet(old) \intersect Pids) \union ({pid} \intersect Pids)
  <2>1. Unset \notin Pids
    BY DEF Unset, Pids
  <2>2. ASSUME NEW q \in Pids, q \in ToSet(list) PROVE q \in ToSet(old) \/ q = pid
    BY <1>11, <2>2 DEF ToSet
  <2>3. ASSUME NEW q \in Pids, q \in ToSet(old) PROVE q \in ToSet(list)
    BY <1>10, <1>11, <2>1, <2>3 DEF ToSet
  <2>4. pid \in ToSet(list)
    BY <1>10, <1>11 DEF ToSet
  <2> QED
    BY <2>2, <2>3, <2>4
<1> QED
  BY <1>2, <1>3, <1>6, <1>7, <1>8, <1>9, <1>12

-----------------------------------------------------------------------------
(* As long as the ids of the jobs differ and the lookup is not led astray, *)
(* wait_fg finds the job it has to wait for, and the prompt comes back     *)
(* only when that job is off the list.                                     *)

Undisturbed == Barring({"lookup", "id"})

(* The shell starts a command or waits for it.                             *)
Running == pc \in {"fork", "setpgid", "give", "record", "wait", "find", "look"}

ForegroundRuns == Running /\ ~cmd.bg
JobIds ==
  /\ \A c \in ToSet(jobs) :
       \/ /\ cell[c].state = "background"
          /\ ForegroundRuns => cell[c].job_id /= jid
       \/ /\ cell[c].state = "foreground"
          /\ ForegroundRuns /\ cell[c].job_id = jid
  /\ \A c, d \in ToSet(jobs) : cell[c].job_id = cell[d].job_id => c = d

(* The process that was forked and is not yet in its job's list.           *)
Unrecorded(p) ==
  /\ pid = p
  /\ pc \in {"setpgid", "record"} \/ (pc = "give" /\ cmd.procs = 1)

StartedJob ==
  /\ Launching => /\ cell[job].job_id = jid
                  /\ cell[job].state = "background" <=> cmd.bg
  /\ \A p \in Pids : Unrecorded(p) => (isBg[p] <=> cmd.bg)

(* The lookup has not passed the foreground job, and what it has found is  *)
(* that job.                                                               *)
Searching ==
  \A c \in ToSet(jobs) : cell[c].state = "foreground" =>
    /\ pc = "find" => UpTo(jobs, curr, c)
    /\ pc = "look" => job = c

(* Every process of a foreground command that is not reaped is recorded in *)
(* a foreground job, or about to be.                                       *)
FgAlive(p) == ~isBg[p] /\ proc[p] \notin {"unborn", "gone"}
Recorded(p) ==
  \E c \in ToSet(jobs) : /\ cell[c].state /= "background"
                         /\ p \in ToSet(cell[c].pid_list)
Awaited == \A p \in Pids : FgAlive(p) => Unrecorded(p) \/ Recorded(p)

Waiting ==
  /\ DOMAIN isBg = Pids
  /\ ~Leaving /\ Undisturbed => JobIds /\ StartedJob /\ Searching /\ Awaited

LEMMA InitWaiting == Init => Waiting
<1> SUFFICES ASSUME Init PROVE Waiting
  OBVIOUS
<1>1. /\ jobs = <<>> /\ pc = "check" /\ proc = [p \in Pids |-> "unborn"]
      /\ DOMAIN isBg = Pids
  BY DEF Init
<1>2. JobIds /\ Searching
  BY <1>1, NoElements DEF JobIds, Searching
<1>3. StartedJob
  BY <1>1 DEF StartedJob, Launching, Unrecorded
<1>4. Awaited
  BY <1>1 DEF Awaited, FgAlive
<1> QED
  BY <1>1, <1>2, <1>3, <1>4 DEF Waiting

LEMMA StartWaiting ==
  ASSUME JobInv, Waiting, Undisturbed, StartJob, Undisturbed'
  PROVE  Waiting'
<1>1. PICK new \in Cells \ allocated :
        /\ ToSet(jobs)' = ToSet(jobs) \union {new}
        /\ cell'[new].state = IF cmd.bg THEN "background" ELSE "foreground"
        /\ cell'[new].job_id = n_jobs + 1
        /\ \A c \in Cells \ {new} : /\ cell'[c].state = cell[c].state
                                    /\ cell'[c].job_id = cell[c].job_id
        /\ \/ "id" \in races'
           \/ /\ job' = new
              /\ \A c \in ToSet(jobs) : cell[c].job_id /= n_jobs + 1
  BY Started
<1>2. /\ pc = "start" /\ pc' = "fork" /\ ~Leaving /\ ~Running /\ Running'
      /\ jid' = n_jobs + 1 /\ UNCHANGED <<cmd, proc, isBg>>
  BY DEF StartJob, At, Leaving, Running, procVars
<1>3. /\ JobIds /\ StartedJob /\ Awaited
      /\ ToSet(jobs) \subseteq allocated /\ ToSet(jobs) \subseteq Cells
  BY <1>2, OnLists DEF Waiting, JobInv, Lists, ListsApart
<1>4. job' = new /\ \A c \in ToSet(jobs) : cell[c].job_id /= n_jobs + 1
  BY <1>1 DEF Undisturbed, Barring
<1>5. \A c \in ToSet(jobs) : /\ cell[c].state = "background" /\ c /= new
                             /\ cell'[c].state = cell[c].state
                             /\ cell'[c].job_id = cell[c].job_id
  BY <1>1, <1>2, <1>3 DEF JobIds, ForegroundRuns
<1>6. ForegroundRuns' = ~cmd.bg
  BY <1>2 DEF ForegroundRuns
<1>7. JobIds'
  <2>1. ASSUME NEW c \in ToSet(jobs)
        PROVE  cell'[c].state = "background" /\ cell'[c].job_id /= jid'
    BY <1>2, <1>4, <1>5
  <2>2. cell'[new].job_id = jid'
    BY <1>1, <1>2
  <2>3. \/ cell'[new].state = "background" /\ ~ForegroundRuns'
        \/ cell'[new].state = "foreground" /\ ForegroundRuns'
    BY <1>1, <1>6
  <2>4. \A c, d \in ToSet(jobs)' : cell'[c].job_id = cell'[d].job_id => c = d
    BY <1>1, <1>3, <1>5, <2>1, <2>2 DEF JobIds
  <2> QED
    BY <1>1, <2>1, <2>2, <2>3, <2>4 DEF JobIds
<1>8. StartedJob'
  <2>1. cell'[job'].job_id = jid' /\ (cell'[job'].state = "background" <=> cmd'.bg)
    BY <1>1, <1>2, <1>4
  <2>2. \A p \in Pids : ~Unrecorded(p)'
    BY <1>2 DEF Unrecorded
  <2> QED
    BY <2>1, <2>2 DEF StartedJob
<1>9. Searching'
  BY <1>2 DEF Searching
<1>10. Awaited'
  <2>1. \A p \in Pids : ~FgAlive(p)
    BY <1>2, <1>3, <1>5 DEF Awaited, Unrecorded, Recorded
  <2> QED
    BY <1>2, <2>1 DEF Awaited, FgAlive
<1>11. DOMAIN isBg' = Pids
  BY <1>2 DEF Waiting
<1> QED
  BY <1>7, <1>8, <1>9, <1>10, <1>11 DEF Waiting

(* wait_fg goes on waiting as long as its job is on the list.              *)
LEMMA WaitEnds ==
  ASSUME JobInv, JobIds, Searching, ~Leaving, WaitFind \/ WaitLook,
         pc' = "retake", NEW c \in ToSet(jobs)
  PROVE  cell[c].state = "background"
<1> SUFFICES ASSUME cell[c].state = "foreground" PROVE FALSE
  BY DEF JobIds
<1>0. jobs \in Seq(Cells) /\ ToSet(jobs) \subseteq allocated
  BY DEF JobInv, ListTypes, Lists, ListsApart
<1>1. CASE WaitFind
  <2>1. pc = "find" /\ curr = Null
    BY <1>1 DEF WaitFind, Found, WalkOn, NotFound, At
  <2>2. UpTo(jobs, curr, c)
    BY <2>1 DEF Searching
  <2>3. curr \in ToSet(jobs)
    BY <2>2 DEF UpTo, ToSet
  <2> QED
    BY <2>1, <2>3, OnLists, NullAssumption DEF JobInv
<1>2. CASE WaitLook
  <2>1. /\ pc = "look"
        /\ job \in allocated => cell[job].state /= "foreground"
    BY <1>2 DEF WaitLook, At, StillForeground
  <2> QED
    BY <1>0, <2>1 DEF Searching
<1> QED
  BY <1>1, <1>2

LEMMA NextJobIds ==
  ASSUME JobInv, JobIds, Searching, [Next]_vars, ~StartJob,
         ~Leaving, ~Leaving', ToSet(jobs)' \subseteq ToSet(jobs)
  PROVE  JobIds'
<1>0. ToSet(jobs) \subseteq Cells
  BY OnLists DEF JobInv
<1>1. \A c \in ToSet(jobs)' : /\ c \in ToSet(jobs)
                              /\ cell'[c].state = cell[c].state
                              /\ cell'[c].job_id = cell[c].job_id
  BY <1>0, CellsKept
<1>2. \/ ForegroundRuns' => ForegroundRuns /\ jid' = jid
      \/ \A c \in ToSet(jobs) : ~ForegroundRuns'
  <2>1. CASE Outside \/ (\E p \in Pids : sigchld_handler(p)) \/ UNCHANGED vars
    BY <2>1, AsyncKept DEF Running, ForegroundRuns
  <2>2. CASE Fork \/ ParentSetpgid \/ RecordPid
    BY <2>2 DEF Fork, ParentSetpgid, RecordPid, Running, ForegroundRuns,
                shellVars, At
  <2>3. CASE GiveTerminal
    BY <2>3 DEF GiveTerminal, BeginExit, Running, ForegroundRuns, Leaving, At
  <2>4. CASE WaitStart \/ WaitFind \/ WaitLook
    BY <2>4 DEF WaitStart, WaitFind, WaitLook, Running, ForegroundRuns,
                shellVars, At
  <2>5. CASE CheckBgStatus \/ ReportDone \/ ReadCommand \/ RetakeTerminal
    BY <2>5 DEF CheckBgStatus, ReportDone, ReadCommand, RetakeTerminal,
                Running, ForegroundRuns
  <2>6. ~(Exit \/ ForkFails \/ KillJob \/ FreeJob \/ FinishExit)
    BY DEF Exit, ForkFails, KillJob, FreeJob, FinishExit, BeginExit, Leaving
  <2> QED
    BY <2>1, <2>2, <2>3, <2>4, <2>5, <2>6 DEF Next, Main, Outside
<1>3. ASSUME NEW c \in ToSet(jobs), cell[c].state = "foreground"
      PROVE  ForegroundRuns' /\ jid' = jid
  <2>1. Running /\ ~cmd.bg
    BY <1>3 DEF JobIds, ForegroundRuns
  <2>2. CASE Outside \/ (\E p \in Pids : sigchld_handler(p)) \/ UNCHANGED vars
    BY <2>1, <2>2, AsyncKept DEF Running, ForegroundRuns
  <2>3. CASE Fork \/ ParentSetpgid \/ RecordPid
    BY <2>1, <2>3 DEF Fork, ParentSetpgid, RecordPid, Running, ForegroundRuns,
                      shellVars
  <2>4. CASE GiveTerminal
    BY <2>1, <2>4 DEF GiveTerminal, BeginExit, Running, ForegroundRuns, Leaving
  <2>5. CASE WaitStart \/ WaitFind \/ WaitLook
    <3>1. ~WaitStart => pc' /= "retake"
      BY <1>3, <2>5, WaitEnds
    <3>2. /\ cmd' = cmd /\ jid' = jid
          /\ pc' \in {"wait", "find", "look", "retake"}
          /\ WaitStart => pc' /= "retake"
      BY <2>5 DEF WaitStart, WaitFind, Found, WalkOn, NotFound, WaitLook,
                  shellVars, At
    <3> QED
      BY <2>1, <3>1, <3>2 DEF Running, ForegroundRuns
  <2>6. ~(CheckBgStatus \/ ReportDone \/ ReadCommand \/ RetakeTerminal \/ Exit)
    BY <2>1 DEF CheckBgStatus, ReportDone, ReadCommand, RetakeTerminal, Exit,
                At, Running
  <2>7. ~(ForkFails \/ KillJob \/ FreeJob \/ FinishExit)
    BY DEF ForkFails, KillJob, FreeJob, FinishExit, BeginExit, Leaving
  <2> QED
    BY <2>2, <2>3, <2>4, <2>5, <2>6, <2>7 DEF Next, Main, Outside
<1>4. \A c \in ToSet(jobs)' :
        \/ /\ cell'[c].state = "background"
           /\ ForegroundRuns' => cell'[c].job_id /= jid'
        \/ /\ cell'[c].state = "foreground"
           /\ ForegroundRuns' /\ cell'[c].job_id = jid'
  BY <1>1, <1>2, <1>3 DEF JobIds
<1>5. \A c, d \in ToSet(jobs)' : cell'[c].job_id = cell'[d].job_id => c = d
  BY <1>1 DEF JobIds
<1> QED
  BY <1>4, <1>5 DEF JobIds

LEMMA NextStartedJob ==
  ASSUME JobInv, DOMAIN isBg = Pids, StartedJob, [Next]_vars, ~StartJob,
         ~Leaving, ~Leaving'
  PROVE  StartedJob'
<1>0. Launching => job \in Cells
  BY OnLists DEF JobInv, Launch, Prepared
<1>1. \A c \in Cells : /\ cell'[c].state = cell[c].state
                       /\ cell'[c].job_id = cell[c].job_id
  BY CellsKept
<1>2. CASE Outside \/ (\E p \in Pids : sigchld_handler(p)) \/ UNCHANGED vars
  <2>1. pc' = pc /\ cmd' = cmd /\ job' = job /\ jid' = jid /\ pid' = pid
    BY <1>2, AsyncKept
  <2>2. Launching' = Launching /\ \A p \in Pids : Unrecorded(p)' = Unrecorded(p)
    BY <2>1 DEF Launching, Unrecorded
  <2>3. ~Fork
    BY <2>1 DEF Fork, At
  <2>4. isBg' = isBg
    BY <2>3, ProcsKept
  <2>5. Launching' => /\ cell'[job'].job_id = jid'
                      /\ cell'[job'].state = "background" <=> cmd'.bg
    BY <1>0, <1>1, <2>1, <2>2 DEF StartedJob
  <2>6. \A p \in Pids : Unrecorded(p)' => (isBg'[p] <=> cmd'.bg)
    BY <1>0, <2>1, <2>2, <2>4 DEF StartedJob
  <2> QED
    BY <2>5, <2>6 DEF StartedJob
<1>3. CASE Fork
  <2>1. /\ pc = "fork" /\ pc' = "setpgid" /\ cmd' = cmd /\ job' = job
        /\ jid' = jid /\ isBg' = [isBg EXCEPT ![pid'] = cmd.bg]
        /\ Launching
    BY <1>3 DEF Fork, At, Launching
  <2>2. \A p \in Pids : p = pid' => (isBg'[p] <=> cmd'.bg)
    BY <2>1
  <2> QED
    BY <1>0, <1>1, <2>1, <2>2 DEF StartedJob, Unrecorded
<1>4. CASE ParentSetpgid \/ RecordPid \/ GiveTerminal
  <2>1. /\ pc \in {"setpgid", "record", "give"}
        /\ UNCHANGED <<cmd, job, jid, pid, isBg>>
    BY <1>4 DEF ParentSetpgid, RecordPid, GiveTerminal, At, shellVars,
                procVars, BeginExit
  <2>2. Launching' => Launching
    BY <1>4 DEF ParentSetpgid, RecordPid, GiveTerminal, At, shellVars,
                BeginExit, Launching
  <2>3. \A p \in Pids : Unrecorded(p)' => Unrecorded(p)
    BY <1>4 DEF ParentSetpgid, RecordPid, GiveTerminal, At, shellVars,
                BeginExit, Unrecorded
  <2> QED
    BY <1>0, <1>1, <2>1, <2>2, <2>3 DEF StartedJob
<1>5. CASE CheckBgStatus \/ ReportDone \/ ReadCommand \/ WaitStart \/ WaitFind
           \/ WaitLook \/ RetakeTerminal
  <2>1. ~Launching' /\ (\A p \in Pids : ~Unrecorded(p)')
    BY <1>5 DEF CheckBgStatus, ReportDone, ReadCommand, WaitStart, WaitFind,
                Found, WalkOn, NotFound, WaitLook, RetakeTerminal, At,
                Launching, Unrecorded
  <2> QED
    BY <2>1 DEF StartedJob
<1>6. ~(ForkFails \/ Exit \/ KillJob \/ FreeJob \/ FinishExit)
  BY DEF ForkFails, Exit, KillJob, FreeJob, FinishExit, BeginExit, Leaving
<1> QED
  BY <1>2, <1>3, <1>4, <1>5, <1>6 DEF Next, Main, Outside

LEMMA NextSearching ==
  ASSUME JobInv, JobIds, Searching, [Next]_vars, ~StartJob, Undisturbed',
         ~Leaving, ~Leaving', ToSet(jobs)' \subseteq ToSet(jobs)
  PROVE  Searching'
<1>0. /\ jobs \in Seq(Cells) /\ Distinct(jobs)
      /\ ToSet(jobs) \subseteq allocated /\ ToSet(jobs) \subseteq Cells
  BY OnLists DEF JobInv, ListTypes, Lists, ListsApart
<1> SUFFICES ASSUME NEW c \in ToSet(jobs)', cell'[c].state = "foreground"
             PROVE  /\ pc' = "find" => UpTo(jobs', curr', c)
                    /\ pc' = "look" => job' = c
  BY DEF Searching
<1>1. c \in ToSet(jobs) /\ cell[c].state = "foreground"
  BY <1>0, CellsKept
<1>2. /\ pc = "find" => UpTo(jobs, curr, c)
      /\ pc = "look" => job = c
      /\ cell[c].job_id = jid
      /\ \A d \in ToSet(jobs) : cell[d].job_id = jid => d = c
  BY <1>1 DEF Searching, JobIds
<1>3. CASE WaitStart
  <2>1. pc' = "find" /\ jobs' = jobs
        /\ curr' = IF jobs = <<>> THEN Null ELSE Head(jobs)
    BY <1>3 DEF WaitStart, listVars
  <2> QED
    BY <1>0, <1>1, <2>1, UpToHead
<1>4. CASE WaitFind
  <2>1. pc = "find" /\ jobs' = jobs
    BY <1>4 DEF WaitFind, At, listVars
  <2>2. UpTo(jobs, curr, c)
    BY <1>2, <2>1
  <2>3. curr \in ToSet(jobs)
    BY <2>2 DEF UpTo, ToSet
  <2>4. curr \in allocated /\ curr /= Null
    BY <1>0, <2>3, NullAssumption
  <2>5. CASE Found
    BY <1>2, <2>3, <2>4, <2>5 DEF Found
  <2>6. CASE WalkOn
    <3>1. curr /= c /\ curr' = NextOf(curr) /\ pc' = "find"
      BY <1>2, <2>1, <2>4, <2>6 DEF WalkOn
    <3>2. After(jobs, curr) /= <<>> /\ UpTo(jobs, Head(After(jobs, curr)), c)
      BY <1>0, <2>2, <3>1, UpToNext
    <3>3. NextOf(curr) = Head(After(jobs, curr))
      BY <2>3, <3>2 DEF NextOf
    <3> QED
      BY <2>1, <3>1, <3>2, <3>3
  <2> QED
    BY <1>4, <2>4, <2>5, <2>6 DEF WaitFind
<1>5. CASE Outside
  BY <1>2, <1>5, OutsideProcs DEF JobInv, listVars, shellVars
<1>6. ASSUME NEW p \in Pids, sigchld_handler(p)
      PROVE  /\ pc' = "find" => UpTo(jobs', curr', c)
             /\ pc' = "look" => job' = c
  <2>1. pc' = pc /\ curr' = curr /\ job' = job
    BY <1>6 DEF sigchld_handler, shellVars
  <2>2. CASE jobs' = jobs
    BY <1>2, <2>1, <2>2
  <2>3. CASE jobs' /= jobs /\ pc = "find"
    <3>1. PICK d : d = Owner(p)
      OBVIOUS
    <3>2. d /= Null /\ RemoveJob(d) /\ races' = races \union Disturbed(d)
      BY <1>6, <2>3, <3>1 DEF sigchld_handler
    <3>3. d \in ToSet(jobs)
      BY <1>0, <3>1, <3>2, OwnerFound
    <3>4. jobs' = RemoveAt(jobs, Place(jobs, d))
      BY <3>2 DEF RemoveJob, Unlinked, Place
    <3>5. ToSet(jobs') = ToSet(jobs) \ {d}
      BY <1>0, <3>3, <3>4, Removed
    <3>6. d /= c
      BY <3>5
    <3>7. cell[d].state = "background"
      BY <1>2, <3>3, <3>6 DEF JobIds
    <3>8. d /= curr
      <4>1. "lookup" \notin races'
        BY DEF Undisturbed, Barring
      <4>2. d = curr => Disturbed(d) = {"lookup"}
        BY <2>3, <3>7 DEF Disturbed
      <4> QED
        BY <3>2, <4>1, <4>2
    <3>9. UpTo(jobs, curr, c)
      BY <1>2, <2>3
    <3>10. UpTo(jobs', curr, c)
      BY <1>0, <3>3, <3>4, <3>6, <3>8, <3>9, UpToRemoved
    <3> QED
      BY <2>1, <2>3, <3>10
  <2> QED
    BY <1>2, <2>1, <2>2, <2>3
<1>7. CASE UNCHANGED vars
  BY <1>2, <1>7 DEF vars, listVars, shellVars
<1>8. CASE CheckBgStatus \/ ReportDone \/ ReadCommand \/ Fork \/ ParentSetpgid
           \/ RecordPid \/ GiveTerminal \/ WaitLook \/ RetakeTerminal
  BY <1>8 DEF CheckBgStatus, ReportDone, ReadCommand, Fork, ParentSetpgid,
              RecordPid, GiveTerminal, BeginExit, WaitLook, RetakeTerminal, At
<1>9. ~(ForkFails \/ Exit \/ KillJob \/ FreeJob \/ FinishExit)
  BY DEF ForkFails, Exit, KillJob, FreeJob, FinishExit, BeginExit, Leaving
<1> QED
  BY <1>3, <1>4, <1>5, <1>6, <1>7, <1>8, <1>9 DEF Next, Main, Outside

LEMMA NextAwaited ==
  ASSUME JobInv, DOMAIN isBg = Pids, StartedJob, Awaited, [Next]_vars,
         ~StartJob, ~Leaving, ~Leaving',
         \/ UNCHANGED <<jobs, done, allocated>>
         \/ ReportDone
         \/ \E p \in Pids, c \in Cells : Removing(p, c),
         NEW q \in Pids, FgAlive(q)'
  PROVE  Unrecorded(q)' \/ Recorded(q)'
<1>0. /\ StartedJob /\ Awaited /\ ToSet(jobs) \subseteq Cells
      /\ Launching => job \in ToSet(jobs)
      /\ DOMAIN isBg = Pids /\ ProcTypes
  BY OnLists DEF JobInv, Launch, Prepared
<1>1. \A c \in Cells : cell'[c].state = cell[c].state
  BY CellsKept
<1>2. CASE Fork
  <2>1. /\ pc = "fork" /\ pc' = "setpgid" /\ jobs' = jobs /\ cell' = cell
        /\ proc' = [proc EXCEPT ![pid'] = "new"]
        /\ isBg' = [isBg EXCEPT ![pid'] = cmd.bg]
    BY <1>2 DEF Fork, At, listVars
  <2>2. CASE q = pid'
    BY <2>1, <2>2 DEF Unrecorded
  <2>3. CASE q /= pid'
    <3>1. FgAlive(q)
      BY <1>0, <2>1, <2>3 DEF FgAlive, ProcTypes
    <3>2. Recorded(q)
      BY <1>0, <2>1, <3>1 DEF Awaited, Unrecorded
    <3> QED
      BY <2>1, <3>2 DEF Recorded
  <2> QED
    BY <2>2, <2>3
<1>3. CASE ~Fork
  <2>1. FgAlive(q)
    <3>1. /\ isBg' = isBg
          /\ proc[q] = "gone" => proc'[q] = "gone"
          /\ proc[q] = "unborn" => proc'[q] = "unborn"
      BY <1>3, ProcsKept
    <3> QED
      BY <3>1 DEF FgAlive
  <2>2. CASE RecordPid
    <3>1. /\ job \in ToSet(jobs) /\ job \in Cells /\ jobs' = jobs
          /\ \A c \in Cells : c /= job => cell'[c] = cell[c]
          /\ q \in ToSet(cell[job].pid_list) \/ q = pid
               => q \in ToSet(cell'[job].pid_list)
      BY <2>2, PidStored DEF RecordPid
    <3>2. CASE Unrecorded(q)
      <4>1. Launching /\ ~isBg[q] /\ q = pid
        BY <2>1, <2>2, <3>2 DEF RecordPid, At, Launching, FgAlive, Unrecorded
      <4>2. cell[job].state /= "background"
        BY <1>0, <3>2, <4>1 DEF StartedJob
      <4> QED
        BY <1>1, <3>1, <4>1, <4>2 DEF Recorded
    <3>3. CASE Recorded(q)
      <4>1. PICK c \in ToSet(jobs) : /\ cell[c].state /= "background"
                                     /\ q \in ToSet(cell[c].pid_list)
        BY <3>3 DEF Recorded
      <4> QED
        BY <1>0, <1>1, <3>1, <4>1 DEF Recorded
    <3> QED
      BY <1>0, <2>1, <3>2, <3>3 DEF Awaited
  <2>3. CASE ~RecordPid
    <3>1. \A c \in Cells : cell'[c].pid_list = cell[c].pid_list
      BY <2>3, ListsOfPidsKept
    <3>2. ASSUME Unrecorded(q) PROVE Unrecorded(q)'
      <4>1. CASE \/ Outside \/ (\E p \in Pids : sigchld_handler(p))
                 \/ UNCHANGED vars
        BY <3>2, <4>1, AsyncKept DEF Unrecorded
      <4>2. CASE ParentSetpgid \/ GiveTerminal
        BY <3>2, <4>2 DEF ParentSetpgid, GiveTerminal, Unrecorded, At,
                          BeginExit, Leaving, shellVars
      <4>3. ~(CheckBgStatus \/ ReportDone \/ ReadCommand \/ WaitStart
              \/ WaitFind \/ WaitLook \/ RetakeTerminal \/ ForkFails \/ Exit
              \/ KillJob \/ FreeJob \/ FinishExit)
        BY <3>2 DEF CheckBgStatus, ReportDone, ReadCommand, WaitStart, WaitFind, WaitLook,
                    RetakeTerminal, ForkFails, Exit, KillJob, FreeJob,
                    FinishExit, At, Unrecorded
      <4> QED
        BY <1>3, <2>3, <4>1, <4>2, <4>3 DEF Next, Main, Outside
    <3>3. ASSUME Recorded(q) PROVE Recorded(q)'
      <4>1. PICK c \in ToSet(jobs) : /\ cell[c].state /= "background"
                                     /\ q \in ToSet(cell[c].pid_list)
        BY <3>3 DEF Recorded
      <4>2. c \in ToSet(jobs)'
        <5>1. CASE UNCHANGED <<jobs, done, allocated>> \/ ReportDone
          BY <4>1, <5>1 DEF ReportDone
        <5>2. ASSUME NEW p \in Pids, NEW d \in Cells, Removing(p, d)
              PROVE  c \in ToSet(jobs)'
          <6>1. c /= d
            BY <4>1, <5>2, NoneLeft DEF FgAlive
          <6> QED
            BY <4>1, <5>2, <6>1 DEF Removing
        <5> QED
          BY <5>1, <5>2
      <4> QED
        BY <1>0, <1>1, <3>1, <4>1, <4>2 DEF Recorded
    <3> QED
      BY <1>0, <2>1, <3>2, <3>3 DEF Awaited
  <2> QED
    BY <2>2, <2>3
<1> QED
  BY <1>2, <1>3

LEMMA NextWaiting ==
  ASSUME JobInv, Waiting, [Next]_vars
  PROVE  Waiting'
<1>1. Undisturbed' => Undisturbed
  BY BarredBefore DEF Undisturbed
<1>2. DOMAIN isBg' = Pids
  <2>1. CASE Fork
    BY <2>1 DEF Fork, Waiting
  <2>2. CASE ~Fork
    BY <2>2, ProcsKept DEF Waiting
  <2> QED
    BY <2>1, <2>2
<1>3. ASSUME ~Leaving', Undisturbed', ~StartJob
      PROVE  JobIds' /\ StartedJob' /\ Searching' /\ Awaited'
  <2>1. /\ ~Leaving
        /\ \/ UNCHANGED <<jobs, done, allocated>>
           \/ ReportDone
           \/ \E p \in Pids, c \in Cells : Removing(p, c)
    BY <1>3, ListSteps
  <2>2. JobIds /\ StartedJob /\ Searching /\ Awaited /\ DOMAIN isBg = Pids
    BY <1>1, <1>3, <2>1 DEF Waiting
  <2>3. ToSet(jobs)' \subseteq ToSet(jobs)
    BY <2>1 DEF ReportDone, Removing
  <2>4. JobIds' /\ StartedJob' /\ Searching'
    BY <1>3, <2>1, <2>2, <2>3, NextJobIds, NextStartedJob, NextSearching
  <2>5. Awaited'
    BY <1>3, <2>1, <2>2, NextAwaited DEF Awaited
  <2> QED
    BY <2>4, <2>5
<1>4. CASE StartJob /\ Undisturbed'
  BY <1>1, <1>4, StartWaiting
<1> QED
  BY <1>2, <1>3, <1>4 DEF Waiting

(* Whatever jobs there are, the shell prompts only when every process of   *)
(* every foreground command and pipeline it started has been reaped,       *)
(* although wait_fg may read a structure that the handler has freed;       *)
(* unless the handler moved the node on which the lookup stood, or a job   *)
(* was given the id of an older one.                                       *)
THEOREM PromptWaits == Spec => []ForegroundWaited
<1>1. Waiting => ForegroundWaited
  <2> SUFFICES ASSUME Waiting, Undisturbed, pc = "prompt",
                      NEW p \in Pids, FgAlive(p)
               PROVE  FALSE
    BY DEF ForegroundWaited, ChildrenComplete, FgAlive, Undisturbed
  <2>1. JobIds /\ Awaited
    BY DEF Waiting, Leaving
  <2>2. ~Running /\ ~Unrecorded(p)
    BY DEF Running, Unrecorded
  <2> QED
    BY <2>1, <2>2 DEF Awaited, Recorded, JobIds, ForegroundRuns
<1>2. Waiting /\ JobInv /\ [Next]_vars => Waiting'
  BY NextWaiting
<1> QED
  BY <1>1, <1>2, InitWaiting, JobInvariant, PTL DEF Spec

=============================================================================
