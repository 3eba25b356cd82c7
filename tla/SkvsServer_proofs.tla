------------------------- MODULE SkvsServer_proofs -------------------------
(***************************************************************************)
(* Theorems about SkvsServer, for any number of clients, workers and       *)
(* requests and for every size of the buffers and of a reply.              *)
(***************************************************************************)
EXTENDS SkvsServer, FiniteSetTheorems, SequenceTheorems, TLAPS

-----------------------------------------------------------------------------
(* Who owns a connection.                                                  *)

InSession == {"recv", "serve", "send", "close"}

(* A worker has a connection exactly while it is in a session.             *)
SessionsHaveClients ==
  \A w \in Workers : fd[w] /= Nobody <=> pc[w] \in InSession

(* No connection has two workers.                                          *)
NotShared == \A v, w \in Workers : fd[v] = fd[w] /\ v /= w => fd[w] = Nobody

Accepted(c) == \E w \in Workers : fd[w] = c
Waiting(c) == c \in ToSet(backlog)

(* A connection waits in the backlog at most once.                         *)
NoRepeat(s) == \A i, j \in DOMAIN s : s[i] = s[j] => i = j
WaitsOnce == NoRepeat(backlog)

(* Before it connects, while it waits, and after the server closed it, a   *)
(* connection has no worker.                                               *)
Unowned == \A c \in Clients :
  /\ Waiting(c) \/ client[c] = "start" \/ "server" \in half[c] => ~Accepted(c)
  /\ client[c] = "start" \/ "server" \in half[c] => ~Waiting(c)
  /\ client[c] = "start" => "server" \notin half[c]

OwnerInv == TypeOK /\ SessionsHaveClients /\ NotShared /\ WaitsOnce /\ Unowned

-----------------------------------------------------------------------------
(* The order of a client's requests, whatever it takes for a reply.        *)

(* s comes before t in a stream, and no request goes on after its line     *)
(* feed.                                                                   *)
Follows(p, q) == p.request <= q.request /\ (p.lf => p.request < q.request)
Earlier(s, t) == \A i \in DOMAIN s, j \in DOMAIN t : Follows(s[i], t[j])
InOrder(s) == \A i, j \in DOMAIN s : i < j => Follows(s[i], s[j])

Increasing(e) == \A i, j \in DOMAIN e : i < j => e[i] < e[j]

(* Pieces of requests that are not executed, of n at most.                 *)
Fresh(e, s, n) ==
  \A j \in DOMAIN s :
    s[j].request <= n /\ \A i \in DOMAIN e : e[i] < s[j].request

HasBytes(w, c) == fd[w] = c /\ pc[w] \in {"recv", "serve"}

Ordered(c) ==
  /\ Increasing(executed[c])
  /\ \A i \in DOMAIN executed[c] : executed[c][i] <= sent[c]
  /\ InOrder(toServer[c]) /\ Fresh(executed[c], toServer[c], sent[c])
  /\ \A w \in Workers : HasBytes(w, c) =>
       /\ InOrder(rbuf[w]) /\ Fresh(executed[c], rbuf[w], sent[c])
       /\ Earlier(rbuf[w], toServer[c])

-----------------------------------------------------------------------------
(* How far the last request of a client has come that never took part of a *)
(* reply for all of it.                                                    *)

NoLineFeed(s) == \A i \in DOMAIN s : ~s[i].lf
Only(s, n) == \A i \in DOMAIN s : s[i].request = n

(* Pieces of request n, with a line feed at most at the end.               *)
PiecesOf(s, n) ==
  \A i \in DOMAIN s : s[i].request = n /\ (s[i].lf => i = Len(s))

(* Requests 1 to n are executed.                                           *)
UpTo(c, n) == \A k \in 1 .. n : k \in ToSet(executed[c])

Sending(w, c) == fd[w] = c /\ pc[w] = "send"

(* Nothing is outstanding.                                                 *)
Idle(c) ==
  /\ sent[c] = answered[c] /\ UpTo(c, answered[c])
  /\ toServer[c] = <<>> /\ toClient[c] = <<>>
  /\ client[c] /= "receiving"
  /\ \A w \in Workers :
       ~Sending(w, c) /\ (HasBytes(w, c) => rbuf[w] = <<>>)

(* The request is under way, or a worker has a part of it.                 *)
Asked(c) ==
  /\ sent[c] = answered[c] + 1 /\ UpTo(c, answered[c])
  /\ toClient[c] = <<>>
  /\ client[c] \in {"receiving", "done"}
  /\ Only(toServer[c], sent[c])
  /\ \A w \in Workers :
       ~Sending(w, c) /\ (HasBytes(w, c) => Only(rbuf[w], sent[c]))

(* The request was executed; a worker has the rest of the reply, or has    *)
(* sent it, or has dropped it.                                             *)
Executed(c) ==
  /\ sent[c] = answered[c] + 1 /\ UpTo(c, sent[c])
  /\ toServer[c] = <<>>
  /\ client[c] \in {"receiving", "done"}
  /\ PiecesOf(toClient[c], sent[c])
  /\ \A w \in Workers :
       /\ HasBytes(w, c) => rbuf[w] = <<>>
       /\ Sending(w, c) => /\ PiecesOf(wbuf[w], sent[c]) /\ wbuf[w] /= <<>>
                           /\ NoLineFeed(toClient[c])

Stage(c) == Idle(c) \/ Asked(c) \/ Executed(c)
ClientInv(c) == Ordered(c) /\ (~split[c] => Stage(c))
Progress == \A c \in Clients : ClientInv(c)

Inv == OwnerInv /\ Progress

-----------------------------------------------------------------------------
(* Sequences of segments.                                                  *)

LEMMA FunctionIsSeq ==
  ASSUME NEW S, NEW n \in Nat, NEW f \in [1 .. n -> S]
  PROVE  f \in Seq(S) /\ Len(f) = n
<1>1. f \in Seq(S)
  BY SeqDef
<1> QED
  BY <1>1, LenProperties

LEMMA SegmentIs ==
  ASSUME NEW s \in Seq(Segments), NEW i \in DOMAIN s
  PROVE  s[i].request \in Nat /\ s[i].lf \in BOOLEAN
<1>1. s[i] \in Segments
  BY LenProperties, ElementOfSeq
<1> QED
  BY <1>1 DEF Segments

LEMMA MessageIs ==
  ASSUME NEW n \in Nat, NEW m \in Messages(n)
  PROVE  m \in Seq(Segments) /\ Only(m, n) /\ InOrder(m)
<1>1. ASSUME NEW pieces \in 1 .. BUFFER_SIZE + 1
      PROVE  /\ Line(n, pieces) \in Seq(Segments)
             /\ Only(Line(n, pieces), n) /\ InOrder(Line(n, pieces))
  <2>1. pieces \in Nat /\ Line(n, pieces) \in [1 .. pieces -> Segments]
    BY SizesAssumption DEF Line, Segment, Segments
  <2>2. Line(n, pieces) \in Seq(Segments)
    BY <2>1, FunctionIsSeq
  <2>3. \A i \in 1 .. pieces :
          /\ Line(n, pieces)[i].request = n
          /\ Line(n, pieces)[i].lf <=> i = pieces
    BY DEF Line, Segment
  <2> QED
    BY <2>1, <2>2, <2>3 DEF Only, InOrder, Follows
<1>2. ASSUME NEW pieces \in 1 .. BUFFER_SIZE
      PROVE  /\ Unended(n, pieces) \in Seq(Segments)
             /\ Only(Unended(n, pieces), n) /\ InOrder(Unended(n, pieces))
  <2>1. pieces \in Nat /\ Unended(n, pieces) \in [1 .. pieces -> Segments]
    BY SizesAssumption DEF Unended, Segment, Segments
  <2>2. Unended(n, pieces) \in Seq(Segments)
    BY <2>1, FunctionIsSeq
  <2>3. \A i \in 1 .. pieces :
          Unended(n, pieces)[i].request = n /\ ~Unended(n, pieces)[i].lf
    BY DEF Unended, Segment
  <2> QED
    BY <2>1, <2>2, <2>3 DEF Only, InOrder, Follows
<1>3. /\ EmptyLine(n) \in Seq(Segments)
      /\ Only(EmptyLine(n), n) /\ InOrder(EmptyLine(n))
  <2>1. EmptyLine(n) \in Seq(Segments)
    BY DEF EmptyLine, Segments
  <2>2. DOMAIN EmptyLine(n) = {1} /\ EmptyLine(n)[1].request = n
    BY DEF EmptyLine
  <2> QED
    BY <2>1, <2>2 DEF Only, InOrder
<1> QED
  BY <1>1, <1>2, <1>3 DEF Messages

LEMMA ReplyIs ==
  ASSUME NEW n \in Nat
  PROVE  /\ Reply(n) \in Seq(Segments) /\ Reply(n) /= <<>>
         /\ PiecesOf(Reply(n), n)
<1>1. Reply(n) \in [1 .. ReplySegments -> Segments]
  BY SizesAssumption DEF Reply, Segment, Segments
<1>2. Reply(n) \in Seq(Segments) /\ Len(Reply(n)) = ReplySegments
  BY <1>1, SizesAssumption, FunctionIsSeq
<1>3. \A i \in 1 .. ReplySegments :
        Reply(n)[i].request = n /\ (Reply(n)[i].lf => i = ReplySegments)
  BY DEF Reply, Segment
<1>4. Reply(n) /= <<>>
  BY <1>2, SizesAssumption, EmptySeq
<1> QED
  BY <1>1, <1>2, <1>3, <1>4 DEF PiecesOf

(* What recv takes from a stream and what it leaves there.                 *)
LEMMA Taken ==
  ASSUME NEW S, NEW s \in Seq(S), NEW k \in 1 .. Len(s)
  PROVE  /\ SubSeq(s, 1, k) \in Seq(S) /\ Len(SubSeq(s, 1, k)) = k
         /\ \A i \in 1 .. k : SubSeq(s, 1, k)[i] = s[i]
         /\ SubSeq(s, k + 1, Len(s)) \in Seq(S)
         /\ Len(SubSeq(s, k + 1, Len(s))) = Len(s) - k
         /\ \A i \in 1 .. Len(s) - k : SubSeq(s, k + 1, Len(s))[i] = s[k + i]
<1>1. Len(s) \in Nat
  BY LenProperties
<1>2. /\ \A i \in 1 .. k : s[i] \in S
      /\ \A i \in k + 1 .. Len(s) : s[i] \in S
  BY <1>1, ElementOfSeq
<1>3. /\ SubSeq(s, 1, k) \in Seq(S) /\ Len(SubSeq(s, 1, k)) = k
      /\ \A i \in 1 .. k : SubSeq(s, 1, k)[i] = s[i]
  <2>1. /\ SubSeq(s, 1, k) \in Seq(S)
        /\ Len(SubSeq(s, 1, k)) = IF 1 <= k THEN k - 1 + 1 ELSE 0
        /\ \A i \in 1 .. k - 1 + 1 : SubSeq(s, 1, k)[i] = s[1 + i - 1]
    BY <1>2, SubSeqProperties
  <2> QED
    BY <1>1, <2>1
<1>4. /\ SubSeq(s, k + 1, Len(s)) \in Seq(S)
      /\ Len(SubSeq(s, k + 1, Len(s))) =
           IF k + 1 <= Len(s) THEN Len(s) - (k + 1) + 1 ELSE 0
      /\ \A i \in 1 .. Len(s) - (k + 1) + 1 :
           SubSeq(s, k + 1, Len(s))[i] = s[(k + 1) + i - 1]
  BY <1>1, <1>2, SubSeqProperties, k + 1 \in Int, Len(s) \in Int
<1>5. \A i \in 1 .. Len(s) - k : (k + 1) + i - 1 = k + i
  BY <1>1
<1> QED
  BY <1>1, <1>3, <1>4, <1>5

(* The pieces that a receive or a send moves: what has become of a buffer  *)
(* and of the stream, piece by piece.                                      *)
LEMMA Moved ==
  ASSUME NEW have \in Seq(Segments), NEW stream \in Seq(Segments),
         NEW k \in 1 .. Len(stream)
  PROVE  LET buf == have \o SubSeq(stream, 1, k)
             left == SubSeq(stream, k + 1, Len(stream))
         IN  /\ buf \in Seq(Segments) /\ Len(buf) = Len(have) + k
             /\ \A i \in 1 .. Len(have) : buf[i] = have[i]
             /\ \A i \in 1 .. k : buf[Len(have) + i] = stream[i]
             /\ left \in Seq(Segments) /\ Len(left) = Len(stream) - k
             /\ \A i \in 1 .. Len(stream) - k : left[i] = stream[k + i]
<1>1. PICK taken : taken = SubSeq(stream, 1, k)
  OBVIOUS
<1>2. PICK left : left = SubSeq(stream, k + 1, Len(stream))
  OBVIOUS
<1>3. /\ taken \in Seq(Segments) /\ Len(taken) = k
      /\ \A i \in 1 .. k : taken[i] = stream[i]
      /\ left \in Seq(Segments) /\ Len(left) = Len(stream) - k
      /\ \A i \in 1 .. Len(stream) - k : left[i] = stream[k + i]
  BY <1>1, <1>2, Taken
<1>4. Len(have) \in Nat /\ Len(stream) \in Nat
  BY LenProperties
<1>5. have \o taken \in Seq(Segments)
  BY <1>3, ConcatProperties
<1>6. Len(have \o taken) = Len(have) + Len(taken) /\ Len(taken) = k
  BY <1>3, ConcatProperties
<1>7. ASSUME NEW i \in 1 .. Len(have)
      PROVE  (have \o taken)[i] = have[i]
  BY <1>3, <1>4, ConcatProperties
<1>8. ASSUME NEW i \in 1 .. k
      PROVE  (have \o taken)[Len(have) + i] = stream[i]
  <2>1. /\ Len(have) + i \in Len(have) + 1 .. Len(have) + Len(taken)
        /\ (Len(have) + i) - Len(have) = i
    BY <1>3, <1>4
  <2>2. (have \o taken)[Len(have) + i] = taken[(Len(have) + i) - Len(have)]
    BY <1>3, <2>1, ConcatProperties
  <2> QED
    BY <1>3, <2>1, <2>2
<1> QED
  BY <1>1, <1>2, <1>3, <1>5, <1>6, <1>7, <1>8

(* One receive keeps the order.                                            *)
LEMMA ReceivedInOrder ==
  ASSUME NEW have \in Seq(Segments), NEW stream \in Seq(Segments),
         NEW k \in 1 .. Len(stream),
         InOrder(have), InOrder(stream), Earlier(have, stream)
  PROVE  LET buf == have \o SubSeq(stream, 1, k)
             left == SubSeq(stream, k + 1, Len(stream))
         IN  InOrder(buf) /\ InOrder(left) /\ Earlier(buf, left)
<1>1. PICK buf, left :
        /\ buf = have \o SubSeq(stream, 1, k)
        /\ left = SubSeq(stream, k + 1, Len(stream))
  OBVIOUS
<1>2. /\ buf \in Seq(Segments) /\ Len(buf) = Len(have) + k
      /\ \A i \in 1 .. Len(have) : buf[i] = have[i]
      /\ \A i \in 1 .. k : buf[Len(have) + i] = stream[i]
      /\ left \in Seq(Segments) /\ Len(left) = Len(stream) - k
      /\ \A i \in 1 .. Len(stream) - k : left[i] = stream[k + i]
  BY <1>1, Moved
<1>3. Len(stream) \in Nat /\ Len(have) \in Nat
  BY LenProperties
<1>4. /\ DOMAIN stream = 1 .. Len(stream) /\ DOMAIN have = 1 .. Len(have)
      /\ DOMAIN left = 1 .. Len(left) /\ DOMAIN buf = 1 .. Len(buf)
  BY <1>2, LenProperties
<1>5. \A i \in DOMAIN buf :
        \/ i \in 1 .. Len(have)
        \/ \E j \in 1 .. k : i = Len(have) + j
  <2>1. ASSUME NEW i \in DOMAIN buf, i \notin 1 .. Len(have)
        PROVE  \E j \in 1 .. k : i = Len(have) + j
    <3>1. i - Len(have) \in 1 .. k /\ i = Len(have) + (i - Len(have))
      BY <1>2, <1>3, <1>4, <2>1
    <3> QED
      BY <3>1
  <2> QED
    BY <2>1
<1>6. \A i \in 1 .. k : i \in DOMAIN stream
  BY <1>3, <1>4
<1>7. ASSUME NEW i \in DOMAIN left
      PROVE  k + i \in DOMAIN stream /\ left[i] = stream[k + i]
  <2>1. i \in 1 .. Len(stream) - k
    BY <1>2, <1>4
  <2>2. k + i \in 1 .. Len(stream)
    BY <1>3, <2>1
  <2> QED
    BY <1>2, <1>4, <2>1, <2>2
<1>8. Earlier(buf, left)
  <2> SUFFICES ASSUME NEW i \in DOMAIN buf, NEW j \in DOMAIN left
               PROVE  Follows(buf[i], left[j])
    BY DEF Earlier
  <2>1. CASE i \in 1 .. Len(have)
    BY <1>2, <1>4, <1>7, <2>1 DEF Earlier
  <2>2. ASSUME NEW l \in 1 .. k, i = Len(have) + l
        PROVE  Follows(buf[i], left[j])
    <3>1. l < k + j /\ l \in DOMAIN stream /\ k + j \in DOMAIN stream
      BY <1>3, <1>4, <1>6, <1>7
    <3> QED
      BY <1>2, <1>7, <2>2, <3>1 DEF InOrder
  <2> QED
    BY <1>5, <2>1, <2>2
<1>9. InOrder(left)
  <2> SUFFICES ASSUME NEW i \in DOMAIN left, NEW j \in DOMAIN left, i < j
               PROVE  Follows(left[i], left[j])
    BY DEF InOrder
  <2>1. k + i < k + j
    BY <1>4
  <2> QED
    BY <1>7, <2>1 DEF InOrder
<1>10. InOrder(buf)
  <2> SUFFICES ASSUME NEW i \in DOMAIN buf, NEW j \in DOMAIN buf, i < j
               PROVE  Follows(buf[i], buf[j])
    BY DEF InOrder
  <2>1. CASE i \in 1 .. Len(have) /\ j \in 1 .. Len(have)
    BY <1>2, <1>4, <2>1 DEF InOrder
  <2>2. ASSUME NEW l \in 1 .. k, j = Len(have) + l, i \in 1 .. Len(have)
        PROVE  Follows(buf[i], buf[j])
    BY <1>2, <1>4, <1>6, <2>2 DEF Earlier
  <2>3. ASSUME NEW l \in 1 .. k, j = Len(have) + l,
               NEW h \in 1 .. k, i = Len(have) + h
        PROVE  Follows(buf[i], buf[j])
    <3>1. h < l
      BY <1>3, <2>3
    <3> QED
      BY <1>2, <1>6, <2>3, <3>1 DEF InOrder
  <2>4. i \notin 1 .. Len(have) => j \notin 1 .. Len(have)
    BY <1>2, <1>3, <1>4
  <2> QED
    BY <1>5, <2>1, <2>2, <2>3, <2>4
<1> QED
  BY <1>1, <1>8, <1>9, <1>10

(* It takes pieces from nowhere else.                                      *)
LEMMA ReceivedFrom ==
  ASSUME NEW have \in Seq(Segments), NEW stream \in Seq(Segments),
         NEW k \in 1 .. Len(stream)
  PROVE  LET buf == have \o SubSeq(stream, 1, k)
             left == SubSeq(stream, k + 1, Len(stream))
         IN  /\ \A i \in DOMAIN buf :
                  \/ \E j \in DOMAIN have : buf[i] = have[j]
                  \/ \E j \in DOMAIN stream : buf[i] = stream[j]
             /\ \A i \in DOMAIN left : \E j \in DOMAIN stream : left[i] = stream[j]
<1>1. PICK buf, left :
        /\ buf = have \o SubSeq(stream, 1, k)
        /\ left = SubSeq(stream, k + 1, Len(stream))
  OBVIOUS
<1>2. /\ buf \in Seq(Segments) /\ Len(buf) = Len(have) + k
      /\ \A i \in 1 .. Len(have) : buf[i] = have[i]
      /\ \A i \in 1 .. k : buf[Len(have) + i] = stream[i]
      /\ left \in Seq(Segments) /\ Len(left) = Len(stream) - k
      /\ \A i \in 1 .. Len(stream) - k : left[i] = stream[k + i]
  BY <1>1, Moved
<1>3. Len(stream) \in Nat /\ Len(have) \in Nat
  BY LenProperties
<1>4. /\ DOMAIN stream = 1 .. Len(stream) /\ DOMAIN have = 1 .. Len(have)
      /\ DOMAIN left = 1 .. Len(left) /\ DOMAIN buf = 1 .. Len(buf)
  BY <1>2, LenProperties
<1>5. ASSUME NEW i \in DOMAIN buf
      PROVE  \/ \E j \in DOMAIN have : buf[i] = have[j]
             \/ \E j \in DOMAIN stream : buf[i] = stream[j]
  <2>1. CASE i \in 1 .. Len(have)
    BY <1>2, <1>4, <2>1
  <2>2. CASE i \notin 1 .. Len(have)
    <3>1. i - Len(have) \in 1 .. k /\ i = Len(have) + (i - Len(have))
      BY <1>2, <1>3, <1>4, <2>2
    <3>2. i - Len(have) \in DOMAIN stream
      BY <1>3, <1>4, <3>1
    <3>3. buf[i] = stream[i - Len(have)]
      BY <1>2, <3>1
    <3> QED
      BY <3>2, <3>3
  <2> QED
    BY <2>1, <2>2
<1>6. ASSUME NEW i \in DOMAIN left
      PROVE  \E j \in DOMAIN stream : left[i] = stream[j]
  <2>1. i \in 1 .. Len(stream) - k
    BY <1>2, <1>4
  <2>2. k + i \in 1 .. Len(stream)
    BY <1>3, <2>1
  <2>3. k + i \in DOMAIN stream /\ left[i] = stream[k + i]
    BY <1>2, <1>4, <2>1, <2>2
  <2> QED
    BY <2>3
<1> QED
  BY <1>1, <1>5, <1>6

(* So what holds of all pieces before holds of them after it.              *)
LEMMA ReceivedFresh ==
  ASSUME NEW have \in Seq(Segments), NEW stream \in Seq(Segments),
         NEW k \in 1 .. Len(stream), NEW e, NEW n,
         Fresh(e, have, n), Fresh(e, stream, n)
  PROVE  /\ Fresh(e, have \o SubSeq(stream, 1, k), n)
         /\ Fresh(e, SubSeq(stream, k + 1, Len(stream)), n)
<1> DEFINE buf == have \o SubSeq(stream, 1, k)
           left == SubSeq(stream, k + 1, Len(stream))
<1>1. /\ \A i \in DOMAIN buf :
           \/ \E j \in DOMAIN have : buf[i] = have[j]
           \/ \E j \in DOMAIN stream : buf[i] = stream[j]
      /\ \A i \in DOMAIN left : \E j \in DOMAIN stream : left[i] = stream[j]
  BY ReceivedFrom, Zenon
<1> HIDE DEF buf, left
<1>2. Fresh(e, buf, n) /\ Fresh(e, left, n)
  BY <1>1 DEF Fresh
<1> QED
  BY <1>2 DEF buf, left

LEMMA ReceivedOnly ==
  ASSUME NEW have \in Seq(Segments), NEW stream \in Seq(Segments),
         NEW k \in 1 .. Len(stream), NEW n, Only(have, n), Only(stream, n)
  PROVE  /\ Only(have \o SubSeq(stream, 1, k), n)
         /\ Only(SubSeq(stream, k + 1, Len(stream)), n)
<1> DEFINE buf == have \o SubSeq(stream, 1, k)
           left == SubSeq(stream, k + 1, Len(stream))
<1>1. /\ \A i \in DOMAIN buf :
           \/ \E j \in DOMAIN have : buf[i] = have[j]
           \/ \E j \in DOMAIN stream : buf[i] = stream[j]
      /\ \A i \in DOMAIN left : \E j \in DOMAIN stream : left[i] = stream[j]
  BY ReceivedFrom, Zenon
<1> HIDE DEF buf, left
<1>2. Only(buf, n) /\ Only(left, n)
  BY <1>1 DEF Only
<1> QED
  BY <1>2 DEF buf, left

(* One send of pieces of the reply to request n.                           *)
LEMMA Sent ==
  ASSUME NEW got \in Seq(Segments), NEW reply \in Seq(Segments),
         NEW k \in 1 .. Len(reply), NEW n,
         PiecesOf(got, n), NoLineFeed(got), PiecesOf(reply, n)
  PROVE  LET buf == got \o SubSeq(reply, 1, k)
             left == SubSeq(reply, k + 1, Len(reply))
         IN  /\ PiecesOf(buf, n)
             /\ k /= Len(reply) =>
                  NoLineFeed(buf) /\ PiecesOf(left, n) /\ left /= <<>>
<1>1. PICK buf, left :
        /\ buf = got \o SubSeq(reply, 1, k)
        /\ left = SubSeq(reply, k + 1, Len(reply))
  OBVIOUS
<1>2. /\ buf \in Seq(Segments) /\ Len(buf) = Len(got) + k
      /\ \A i \in 1 .. Len(got) : buf[i] = got[i]
      /\ \A i \in 1 .. k : buf[Len(got) + i] = reply[i]
      /\ left \in Seq(Segments) /\ Len(left) = Len(reply) - k
      /\ \A i \in 1 .. Len(reply) - k : left[i] = reply[k + i]
  BY <1>1, Moved
<1>3. Len(reply) \in Nat /\ Len(got) \in Nat
  BY LenProperties
<1>4. /\ DOMAIN reply = 1 .. Len(reply) /\ DOMAIN got = 1 .. Len(got)
      /\ DOMAIN left = 1 .. Len(left) /\ DOMAIN buf = 1 .. Len(buf)
  BY <1>2, LenProperties
<1>5. ASSUME NEW i \in DOMAIN buf
      PROVE  /\ buf[i].request = n
             /\ buf[i].lf => i = Len(buf) /\ k = Len(reply)
  <2>1. CASE i \in 1 .. Len(got)
    BY <1>2, <1>4, <2>1 DEF PiecesOf, NoLineFeed
  <2>2. CASE i \notin 1 .. Len(got)
    <3>1. PICK j \in 1 .. k : i = Len(got) + j
      <4>1. i - Len(got) \in 1 .. k /\ i = Len(got) + (i - Len(got))
        BY <1>2, <1>3, <1>4, <2>2
      <4> QED
        BY <4>1
    <3>2. j \in DOMAIN reply /\ buf[i] = reply[j]
      BY <1>2, <1>3, <1>4, <3>1
    <3>3. j = Len(reply) => i = Len(buf) /\ k = Len(reply)
      <4>1. j <= k /\ k <= Len(reply) /\ k \in Nat /\ j \in Nat
        BY <1>3
      <4>2. j = Len(reply) => j = k
        BY <1>3, <4>1
      <4>3. j = k => i = Len(buf)
        BY <1>2, <3>1
      <4> QED
        BY <4>2, <4>3
    <3> QED
      BY <3>2, <3>3 DEF PiecesOf
  <2> QED
    BY <2>1, <2>2
<1>6. ASSUME NEW i \in DOMAIN left
      PROVE  left[i].request = n /\ (left[i].lf => i = Len(left))
  <2>1. k + i \in DOMAIN reply /\ left[i] = reply[k + i]
    BY <1>2, <1>3, <1>4
  <2>2. k + i = Len(reply) => i = Len(left)
    BY <1>2, <1>3, <1>4
  <2> QED
    BY <2>1, <2>2 DEF PiecesOf
<1>7. k /= Len(reply) => left /= <<>>
  BY <1>2, <1>3, EmptySeq
<1> QED
  BY <1>1, <1>5, <1>6, <1>7 DEF PiecesOf, NoLineFeed

(* What is executed next comes after all that was.                         *)
LEMMA Grown ==
  ASSUME NEW e \in Seq(Nat), NEW n \in Nat, Increasing(e),
         \A i \in DOMAIN e : e[i] < n
  PROVE  /\ Increasing(Append(e, n))
         /\ \A i \in DOMAIN Append(e, n) : Append(e, n)[i] <= n
         /\ ToSet(Append(e, n)) = ToSet(e) \cup {n}
         /\ \A i \in DOMAIN Append(e, n) : i \in DOMAIN e \/ Append(e, n)[i] = n
         /\ \A i \in DOMAIN e : Append(e, n)[i] = e[i]
<1>1. /\ Len(e) \in Nat /\ DOMAIN e = 1 .. Len(e)
      /\ DOMAIN Append(e, n) = 1 .. Len(e) + 1
      /\ \A i \in 1 .. Len(e) : Append(e, n)[i] = e[i] /\ e[i] \in Nat
      /\ Append(e, n)[Len(e) + 1] = n
  BY AppendProperties, LenProperties, ElementOfSeq
<1>2. 1 .. Len(e) + 1 = (1 .. Len(e)) \cup {Len(e) + 1}
  BY <1>1
<1>3. ToSet(Append(e, n)) = ToSet(e) \cup {n}
  BY <1>1, <1>2 DEF ToSet
<1>4. Increasing(Append(e, n))
  <2> SUFFICES ASSUME NEW i \in 1 .. Len(e) + 1, NEW j \in 1 .. Len(e) + 1, i < j
               PROVE  Append(e, n)[i] < Append(e, n)[j]
    BY <1>1 DEF Increasing
  <2>1. i \in 1 .. Len(e)
    BY <1>1
  <2>2. CASE j \in 1 .. Len(e)
    BY <1>1, <2>1, <2>2 DEF Increasing
  <2>3. CASE j = Len(e) + 1
    BY <1>1, <2>1, <2>3
  <2> QED
    BY <1>2, <2>2, <2>3
<1>5. \A i \in DOMAIN Append(e, n) : Append(e, n)[i] <= n
  BY <1>1, <1>2
<1> QED
  BY <1>1, <1>2, <1>3, <1>4, <1>5

(* The first element leaves, or a new one comes last.                      *)
LEMMA FirstLeaves ==
  ASSUME NEW S, NEW s \in Seq(S), s /= <<>>, NoRepeat(s)
  PROVE  /\ Head(s) \in ToSet(s) /\ ToSet(Tail(s)) = ToSet(s) \ {Head(s)}
         /\ NoRepeat(Tail(s))
<1>1. /\ Len(s) \in Nat /\ DOMAIN s = 1 .. Len(s) /\ Len(s) > 0
      /\ Head(s) = s[1]
      /\ DOMAIN Tail(s) = 1 .. Len(s) - 1
      /\ \A i \in 1 .. Len(s) - 1 : Tail(s)[i] = s[i + 1]
  BY HeadTailProperties, LenProperties, EmptySeq
<1>2. \A i \in 2 .. Len(s) : i - 1 \in 1 .. Len(s) - 1 /\ (i - 1) + 1 = i
  BY <1>1
<1>3. \A i \in 1 .. Len(s) - 1 : i + 1 \in 2 .. Len(s)
  BY <1>1
<1>4. NoRepeat(Tail(s))
  <2>1. ASSUME NEW i \in 1 .. Len(s) - 1, NEW j \in 1 .. Len(s) - 1,
               s[i + 1] = s[j + 1]
        PROVE  i = j
    <3>1. i + 1 \in DOMAIN s /\ j + 1 \in DOMAIN s
      BY <1>1, <1>3
    <3>2. i + 1 = j + 1
      BY <2>1, <3>1 DEF NoRepeat
    <3> QED
      BY <3>2
  <2> QED
    BY <1>1, <2>1 DEF NoRepeat
<1>5. ToSet(Tail(s)) \subseteq ToSet(s) \ {Head(s)}
  <2>1. ASSUME NEW i \in 1 .. Len(s) - 1 PROVE s[i + 1] \in ToSet(s) \ {s[1]}
    BY <1>1, <1>3 DEF ToSet, NoRepeat
  <2> QED
    BY <1>1, <2>1 DEF ToSet
<1>6. ToSet(s) \ {Head(s)} \subseteq ToSet(Tail(s))
  <2>1. ASSUME NEW i \in 1 .. Len(s), i /= 1 PROVE s[i] \in ToSet(Tail(s))
    <3>1. i - 1 \in DOMAIN Tail(s) /\ Tail(s)[i - 1] = s[i]
      BY <1>1, <1>2, <2>1
    <3> QED
      BY <3>1 DEF ToSet
  <2> QED
    BY <1>1, <2>1 DEF ToSet
<1> QED
  BY <1>1, <1>4, <1>5, <1>6 DEF ToSet

LEMMA LastComes ==
  ASSUME NEW S, NEW s \in Seq(S), NEW e \in S, e \notin ToSet(s), NoRepeat(s)
  PROVE  /\ ToSet(Append(s, e)) = ToSet(s) \cup {e}
         /\ NoRepeat(Append(s, e))
<1>1. /\ Len(s) \in Nat /\ DOMAIN s = 1 .. Len(s)
      /\ DOMAIN Append(s, e) = 1 .. Len(s) + 1
      /\ \A i \in 1 .. Len(s) : Append(s, e)[i] = s[i]
      /\ Append(s, e)[Len(s) + 1] = e
  BY AppendProperties, LenProperties
<1>2. 1 .. Len(s) + 1 = (1 .. Len(s)) \cup {Len(s) + 1}
  BY <1>1
<1>3. ToSet(Append(s, e)) = ToSet(s) \cup {e}
  BY <1>1, <1>2 DEF ToSet
<1>4. NoRepeat(Append(s, e))
  BY <1>1, <1>2 DEF NoRepeat, ToSet
<1> QED
  BY <1>3, <1>4

-----------------------------------------------------------------------------
(* In a session the descriptor is a client's.                              *)
LEMMA SessionHasClient ==
  ASSUME TypeOK, SessionsHaveClients, NEW w \in Workers, pc[w] \in InSession
  PROVE  fd[w] \in Clients
  BY DEF TypeOK, SessionsHaveClients

(* Every step keeps the types; no receive overflows the buffer.            *)
LEMMA NextTypeOK ==
  ASSUME TypeOK, SessionsHaveClients, [Next]_vars
  PROVE  TypeOK'
<1> USE DEF TypeOK
<1>e. <<>> \in Seq(Segments) /\ Len(<<>>) <= BUFFER_SIZE
  BY EmptySeq, SizesAssumption
<1>1. ASSUME NEW w \in Workers, Accept(w) \/ Leave(w) \/ AcceptError(w)
      PROVE  TypeOK'
  <2>1. CASE Accept(w)
    <3>1. /\ Head(backlog) \in Clients /\ Tail(backlog) \in Seq(Clients)
      BY <2>1, HeadTailProperties DEF Accept
    <3> QED
      BY <1>e, <2>1, <3>1 DEF Accept, NextRequest, Goto, WorkerStates, clientVars
  <2>2. CASE Leave(w) \/ AcceptError(w)
    BY <2>2 DEF Leave, AcceptError, Goto, WorkerStates, netVars, clientVars
  <2> QED
    BY <1>1, <2>1, <2>2
<1>2. ASSUME NEW w \in Workers,
             \/ RecvZero(w) \/ RecvError(w) \/ RecvInterrupted(w)
             \/ SendInterrupted(w) \/ SendReset(w)
      PROVE  TypeOK'
  <2>1. CASE RecvZero(w) \/ RecvError(w) \/ SendInterrupted(w) \/ SendReset(w)
    <3>1. EndSession(w) /\ UNCHANGED <<g_shutdown, main, fd, netVars, clientVars, executed>>
      BY <2>1 DEF RecvZero, RecvError, SendInterrupted, SendReset
    <3> QED
      BY <1>e, <3>1 DEF EndSession, Goto, WorkerStates, netVars, clientVars
  <2>2. CASE RecvInterrupted(w)
    BY <2>2 DEF RecvInterrupted, Goto, WorkerStates, netVars, clientVars
  <2> QED
    BY <1>2, <2>1, <2>2
<1>3. ASSUME NEW w \in Workers, Recv(w) PROVE TypeOK'
  <2>1. fd[w] \in Clients
    BY <1>3, SessionHasClient DEF Recv, InSession
  <2>2. PICK k \in 1 .. Len(toServer[fd[w]]) :
          LET buf == rbuf[w] \o SubSeq(toServer[fd[w]], 1, k)
          IN  /\ Fits(rbuf[w], k)
              /\ rbuf' = [rbuf EXCEPT ![w] = buf]
              /\ Goto(w, AfterRecv(buf))
              /\ toServer' = [toServer EXCEPT ![fd[w]] =
                                            SubSeq(@, k + 1, Len(@))]
    BY <1>3 DEF Recv
  <2> DEFINE stream == toServer[fd[w]]
             buf == rbuf[w] \o SubSeq(stream, 1, k)
  <2>3. /\ buf \in Seq(Segments) /\ Len(buf) = Len(rbuf[w]) + k
        /\ SubSeq(stream, k + 1, Len(stream)) \in Seq(Segments)
    BY <2>1, Moved
  <2>4. Len(buf) <= BUFFER_SIZE
    BY <2>2, <2>3 DEF Fits
  <2>5. pc' \in [Workers -> WorkerStates]
    BY <2>2 DEF Goto, AfterRecv, WorkerStates
  <2>6. /\ rbuf' \in [Workers -> Seq(Segments)]
        /\ toServer' \in [Clients -> Seq(Segments)]
        /\ \A v \in Workers : Len(rbuf'[v]) <= BUFFER_SIZE
    BY <2>1, <2>2, <2>3, <2>4
  <2> QED
    BY <1>3, <2>5, <2>6 DEF Recv, clientVars
<1>4. ASSUME NEW w \in Workers, Serve(w) PROVE TypeOK'
  <2>1. fd[w] \in Clients
    BY <1>4, SessionHasClient DEF Serve, InSession
  <2>2. CASE LineFeeds(rbuf[w]) = {}
    <3>1. EndSession(w) /\ UNCHANGED <<g_shutdown, main, fd, netVars, clientVars, executed>>
      BY <1>4, <2>2 DEF Serve
    <3> QED
      BY <1>e, <3>1 DEF EndSession, Goto, WorkerStates, netVars, clientVars
  <2>3. CASE LineFeeds(rbuf[w]) /= {}
    <3>1. PICK i \in LineFeeds(rbuf[w]) :
            /\ executed' = [executed EXCEPT ![fd[w]] =
                               Append(@, rbuf[w][i].request)]
            /\ wbuf' = [wbuf EXCEPT ![w] = Reply(rbuf[w][i].request)]
            /\ Goto(w, "send") /\ UNCHANGED rbuf
      BY <1>4, <2>3 DEF Serve
    <3>2. rbuf[w][i].request \in Nat
      BY SegmentIs DEF LineFeeds
    <3>3. /\ Reply(rbuf[w][i].request) \in Seq(Segments)
          /\ Append(executed[fd[w]], rbuf[w][i].request) \in Seq(Nat)
      BY <2>1, <3>2, ReplyIs, AppendProperties
    <3>4. wbuf' \in [Workers -> Seq(Segments)] /\ executed' \in [Clients -> Seq(Nat)]
      BY <2>1, <3>1, <3>3
    <3> QED
      BY <1>4, <3>1, <3>4 DEF Serve, Goto, WorkerStates, netVars, clientVars
  <2> QED
    BY <2>2, <2>3
<1>5. ASSUME NEW w \in Workers, Send(w) PROVE TypeOK'
  <2>1. fd[w] \in Clients
    BY <1>5, SessionHasClient DEF Send, InSession
  <2>2. PICK k \in 1 .. Len(wbuf[w]) :
          /\ toClient' = Delivered(fd[w], SubSeq(wbuf[w], 1, k))
          /\ wbuf' = [wbuf EXCEPT ![w] = SubSeq(@, k + 1, Len(@))]
          /\ NextRequest(w) \/ UNCHANGED <<pc, rbuf>>
    BY <1>5 DEF Send
  <2>3. /\ toClient[fd[w]] \o SubSeq(wbuf[w], 1, k) \in Seq(Segments)
        /\ SubSeq(wbuf[w], k + 1, Len(wbuf[w])) \in Seq(Segments)
    BY <2>1, Moved
  <2>4. toClient' \in [Clients -> Seq(Segments)]
    BY <2>1, <2>2, <2>3 DEF Delivered
  <2>5. wbuf' \in [Workers -> Seq(Segments)]
    BY <2>2, <2>3
  <2>6. /\ pc' \in [Workers -> WorkerStates] /\ rbuf' \in [Workers -> Seq(Segments)]
        /\ \A v \in Workers : Len(rbuf'[v]) <= BUFFER_SIZE
    <3>1. CASE NextRequest(w)
      <4>1. pc' \in [Workers -> WorkerStates]
        BY <3>1 DEF NextRequest, Goto, WorkerStates
      <4>2. rbuf' = [rbuf EXCEPT ![w] = <<>>]
        BY <3>1 DEF NextRequest
      <4> QED
        BY <1>e, <4>1, <4>2
    <3>2. CASE UNCHANGED <<pc, rbuf>>
      BY <3>2
    <3> QED
      BY <2>2, <3>1, <3>2
  <2> QED
    BY <1>5, <2>4, <2>5, <2>6 DEF Send, clientVars
<1>6. ASSUME NEW w \in Workers, CloseConnection(w) PROVE TypeOK'
  <2>1. fd[w] \in Clients
    BY <1>6, SessionHasClient DEF CloseConnection, InSession
  <2>2. /\ half' \in [Clients -> SUBSET {"client", "server"}]
        /\ toServer' \in [Clients -> Seq(Segments)]
    BY <1>e, <1>6, <2>1 DEF CloseConnection
  <2> QED
    BY <1>6, <2>2 DEF CloseConnection, Goto, WorkerStates, clientVars
<1>7. CASE HandleSigint \/ Destroy \/ Die
  <2>1. CASE Destroy \/ Die
    <3>1. half' \in [Clients -> SUBSET {"client", "server"}]
      <4>1. CASE Destroy
        BY <4>1 DEF Destroy
      <4>2. CASE Die
        <5> DEFINE closed == {c \in Clients : c \in ToSet(backlog) \/ Accepted(c)}
        <5>1. half' = [c \in Clients |-> IF c \in closed
                         THEN half[c] \union {"server"} ELSE half[c]]
          BY <4>2, Zenon DEF Die, Accepted
        <5> HIDE DEF closed
        <5> QED
          BY <5>1
      <4> QED
        BY <2>1, <4>1, <4>2
    <3>2. backlog' \in Seq(Clients)
      <4>1. <<>> \in Seq(Clients) /\ backlog' = <<>>
        BY <2>1, EmptySeq, Zenon DEF Destroy, Die
      <4> QED
        BY <4>1
    <3>3. /\ main' \in {"joining", "destroyed", "died"}
          /\ pc' \in [Workers -> WorkerStates]
          /\ fd' \in [Workers -> Clients \union {Nobody}]
      BY <2>1 DEF Destroy, Die, WorkerStates
    <3>4. /\ rbuf' \in [Workers -> Seq(Segments)]
          /\ \A w \in Workers : Len(rbuf'[w]) <= BUFFER_SIZE
          /\ wbuf' \in [Workers -> Seq(Segments)]
      <4>1. CASE Destroy
        BY <4>1 DEF Destroy
      <4>2. CASE Die
        BY <1>e, <4>2 DEF Die
      <4> QED
        BY <2>1, <4>1, <4>2
    <3>5. UNCHANGED <<g_shutdown, toServer, toClient, client, sent, answered,
                      split, executed>>
      BY <2>1 DEF Destroy, Die, clientVars
    <3> QED
      BY <3>1, <3>2, <3>3, <3>4, <3>5
  <2> QED
    BY <1>7, <2>1 DEF HandleSigint, serverVars, netVars, clientVars
<1>8. ASSUME NEW c \in Clients, ClientStep(c) PROVE TypeOK'
  <2>1. CASE Connect(c)
    BY <2>1, AppendProperties DEF Connect, serverVars
  <2>2. CASE ClientSend(c)
    <3>1. sent[c] + 1 \in Nat
      OBVIOUS
    <3>2. \A m \in Messages(sent[c] + 1) : toServer[c] \o m \in Seq(Segments)
      BY <3>1, MessageIs, ConcatProperties
    <3> QED
      BY <2>2, <3>1, <3>2 DEF ClientSend, serverVars
  <2>3. CASE ClientRecv(c)
    <3>1. PICK k \in 1 .. Len(toClient[c]) :
            /\ toClient' = [toClient EXCEPT ![c] = SubSeq(@, k + 1, Len(@))]
            /\ split' = [split EXCEPT ![c] = @ \/ ~toClient[c][k].lf]
      BY <2>3 DEF ClientRecv
    <3>2. SubSeq(toClient[c], k + 1, Len(toClient[c])) \in Seq(Segments)
      BY Taken
    <3>3. toClient' \in [Clients -> Seq(Segments)]
      BY <3>1, <3>2
    <3>4. PICK took \in BOOLEAN : split' = [split EXCEPT ![c] = took]
      BY <3>1, Zenon
    <3>5. split' \in [Clients -> BOOLEAN]
      BY <3>4
    <3>6. /\ client' \in [Clients -> {"start", "ready", "receiving", "done"}]
          /\ answered' \in [Clients -> Nat]
      BY <2>3 DEF ClientRecv
    <3>7. UNCHANGED <<g_shutdown, main, pc, fd, rbuf, wbuf, backlog, toServer,
                      half, sent, executed>>
      BY <2>3 DEF ClientRecv, serverVars
    <3> QED
      BY <3>3, <3>5, <3>6, <3>7
  <2>4. CASE ClientClose(c)
    <3>1. toClient' \in [Clients -> Seq(Segments)]
      BY <1>e, <2>4 DEF ClientClose
    <3> QED
      BY <2>4, <3>1 DEF ClientClose, serverVars
  <2> QED
    BY <1>8, <2>1, <2>2, <2>3, <2>4 DEF ClientStep
<1>9. CASE UNCHANGED vars
  BY <1>9 DEF vars, serverVars, netVars, clientVars
<1> QED
  BY <1>1, <1>2, <1>3, <1>4, <1>5, <1>6, <1>7, <1>8, <1>9
     DEF Next, WorkerStep, Serving, Trouble, SendFatal

-----------------------------------------------------------------------------
(* Every step keeps a connection with one owner: only accept gives one     *)
(* away, to a worker that has none, and only close and the end take it.    *)
LEMMA NextOwner ==
  ASSUME OwnerInv, [Next]_vars
  PROVE  OwnerInv'
<1> USE DEF OwnerInv, Accepted, Waiting
<1>t. TypeOK'
  BY NextTypeOK
<1>f. /\ pc \in [Workers -> WorkerStates]
      /\ fd \in [Workers -> Clients \cup {Nobody}]
      /\ half \in [Clients -> SUBSET {"client", "server"}]
      /\ client \in [Clients -> {"start", "ready", "receiving", "done"}]
      /\ backlog \in Seq(Clients)
  BY DEF TypeOK
<1>1. ASSUME NEW w \in Workers, Accept(w) PROVE OwnerInv'
  <2>1. /\ Head(backlog) \in Clients /\ Waiting(Head(backlog))
        /\ ToSet(backlog') = ToSet(backlog) \ {Head(backlog)}
        /\ NoRepeat(backlog')
    BY <1>1, <1>f, FirstLeaves, HeadTailProperties DEF Accept, WaitsOnce
  <2>2. /\ fd' = [fd EXCEPT ![w] = Head(backlog)]
        /\ pc' = [pc EXCEPT ![w] = "recv"] /\ pc[w] = "accept"
        /\ UNCHANGED <<half, client>>
    BY <1>1 DEF Accept, NextRequest, Goto, clientVars
  <2>3. SessionsHaveClients'
    BY <1>f, <2>1, <2>2, NamesAssumption DEF SessionsHaveClients, InSession
  <2>4. NotShared'
    BY <1>f, <2>1, <2>2 DEF NotShared, Unowned
  <2>5. Unowned'
    BY <1>f, <2>1, <2>2 DEF Unowned
  <2> QED
    BY <1>t, <2>1, <2>3, <2>4, <2>5 DEF WaitsOnce
<1>2. ASSUME NEW w \in Workers, CloseConnection(w) PROVE OwnerInv'
  <2>1. /\ fd' = [fd EXCEPT ![w] = Nobody]
        /\ pc' = [pc EXCEPT ![w] = "accept"] /\ pc[w] = "close"
        /\ half' = [half EXCEPT ![fd[w]] = @ \cup {"server"}]
        /\ UNCHANGED <<backlog, client>>
    BY <1>2 DEF CloseConnection, Goto, clientVars
  <2>2. fd[w] \in Clients
    BY <2>1, SessionHasClient DEF InSession
  <2>3. SessionsHaveClients'
    BY <1>f, <2>1 DEF SessionsHaveClients, InSession
  <2>4. NotShared'
    BY <1>f, <2>1 DEF NotShared
  <2>5. ASSUME NEW c \in Clients, c /= fd[w]
        PROVE  Accepted(c)' <=> Accepted(c)
    BY <1>f, <2>1, <2>5, NamesAssumption
  <2>6. ASSUME NEW c \in Clients, c = fd[w]
        PROVE  ~Accepted(c)'
    BY <1>f, <2>1, <2>6, NamesAssumption DEF NotShared
  <2>7. Unowned'
    <3> SUFFICES ASSUME NEW c \in Clients
                 PROVE  /\ Waiting(c) \/ client[c] = "start"
                             \/ "server" \in half'[c] => ~Accepted(c)'
                        /\ client[c] = "start" \/ "server" \in half'[c]
                             => ~Waiting(c)
                        /\ client[c] = "start" => "server" \notin half'[c]
      BY <2>1 DEF Unowned
    <3>1. CASE c = fd[w]
      <4>1. Accepted(c)
        BY <3>1
      <4> QED
        BY <2>6, <3>1, <4>1 DEF Unowned
    <3>2. CASE c /= fd[w]
      BY <1>f, <2>1, <2>2, <2>5, <3>2 DEF Unowned
    <3> QED
      BY <3>1, <3>2
  <2> QED
    BY <1>t, <2>1, <2>3, <2>4, <2>7 DEF WaitsOnce
<1>3. ASSUME NEW w \in Workers,
             \/ Leave(w) \/ AcceptError(w) \/ Recv(w) \/ RecvZero(w)
             \/ RecvError(w) \/ RecvInterrupted(w) \/ Serve(w) \/ Send(w)
             \/ SendInterrupted(w) \/ SendReset(w)
      PROVE  OwnerInv'
  <2>1. UNCHANGED <<fd, backlog, half, client>>
    BY <1>3 DEF Leave, AcceptError, Recv, RecvZero, RecvError, RecvInterrupted,
         Serve, Send, SendInterrupted, SendReset, netVars, clientVars
  <2>2. /\ \A v \in Workers : v /= w => pc'[v] = pc[v]
        /\ pc'[w] \in InSession <=> pc[w] \in InSession
    BY <1>3, <1>f DEF Leave, AcceptError, Recv, RecvZero, RecvError,
         RecvInterrupted, Serve, Send, SendInterrupted, SendReset, EndSession,
         NextRequest, Goto, AfterRecv, InSession
  <2> QED
    BY <1>t, <2>1, <2>2
       DEF SessionsHaveClients, NotShared, WaitsOnce, NoRepeat, Unowned
<1>4. CASE HandleSigint
  BY <1>4, <1>t DEF HandleSigint, serverVars, netVars, clientVars,
       SessionsHaveClients, NotShared, WaitsOnce, NoRepeat, Unowned
<1>5. CASE Destroy
  <2>1. /\ UNCHANGED <<pc, fd, client>> /\ backlog' = <<>>
        /\ half' = [c \in Clients |-> IF Waiting(c)
                       THEN half[c] \cup {"server"} ELSE half[c]]
    BY <1>5 DEF Destroy, clientVars
  <2>2. ToSet(backlog') = {} /\ NoRepeat(backlog')
    BY <2>1 DEF ToSet, NoRepeat
  <2>3. Unowned'
    BY <1>f, <2>1, <2>2 DEF Unowned
  <2> QED
    BY <1>t, <2>1, <2>2, <2>3 DEF SessionsHaveClients, NotShared, WaitsOnce
<1>9. CASE Die
  <2>1. /\ fd' = [w \in Workers |-> Nobody] /\ pc' = [w \in Workers |-> "exited"]
        /\ backlog' = <<>> /\ UNCHANGED client
        /\ \A c \in Clients : "server" \in half'[c] =>
             "server" \in half[c] \/ Waiting(c) \/ Accepted(c)
    BY <1>9 DEF Die, clientVars
  <2>2. ToSet(backlog') = {} /\ NoRepeat(backlog')
    BY <2>1 DEF ToSet, NoRepeat
  <2>3. \A c \in Clients : ~Accepted(c)' /\ ~Waiting(c)'
    BY <2>1, <2>2, NamesAssumption
  <2>4. Unowned'
    BY <2>1, <2>3 DEF Unowned
  <2>5. SessionsHaveClients' /\ NotShared'
    BY <2>1 DEF SessionsHaveClients, NotShared, InSession
  <2> QED
    BY <1>t, <2>2, <2>4, <2>5 DEF WaitsOnce
<1>6. ASSUME NEW c \in Clients, Connect(c) PROVE OwnerInv'
  <2>1. /\ ToSet(backlog') = ToSet(backlog) \cup {c} /\ NoRepeat(backlog')
    BY <1>6, <1>f, LastComes DEF Connect, Unowned, WaitsOnce
  <2>2. /\ client' = [client EXCEPT ![c] = "ready"] /\ client[c] = "start"
        /\ UNCHANGED <<pc, fd, half>>
    BY <1>6 DEF Connect, serverVars
  <2>3. Unowned'
    BY <1>f, <2>1, <2>2 DEF Unowned
  <2> QED
    BY <1>t, <2>1, <2>2, <2>3 DEF SessionsHaveClients, NotShared, WaitsOnce
<1>7. ASSUME NEW c \in Clients, ClientSend(c) \/ ClientRecv(c) \/ ClientClose(c)
      PROVE  OwnerInv'
  <2>1. /\ UNCHANGED <<pc, fd, backlog>>
        /\ \A d \in Clients : client'[d] = "start" <=> client[d] = "start"
        /\ \A d \in Clients : "server" \in half'[d] <=> "server" \in half[d]
    BY <1>7, <1>f DEF ClientSend, ClientRecv, ClientClose, serverVars
  <2> QED
    BY <1>t, <2>1
       DEF SessionsHaveClients, NotShared, WaitsOnce, NoRepeat, Unowned
<1>8. CASE UNCHANGED vars
  BY <1>8, <1>t DEF vars, serverVars, netVars, clientVars,
       SessionsHaveClients, NotShared, WaitsOnce, NoRepeat, Unowned
<1> QED
  BY <1>1, <1>2, <1>3, <1>4, <1>5, <1>6, <1>7, <1>8, <1>9
     DEF Next, WorkerStep, Serving, Trouble, SendFatal, ClientStep

LEMMA InitOwner == Init => OwnerInv
<1> SUFFICES ASSUME Init PROVE OwnerInv
  OBVIOUS
<1>1. /\ <<>> \in Seq(Segments) /\ <<>> \in Seq(Clients) /\ <<>> \in Seq(Nat)
      /\ Len(<<>>) = 0 /\ ToSet(<<>>) = {}
  BY EmptySeq DEF ToSet
<1>2. TypeOK
  <2>1. /\ rbuf \in [Workers -> Seq(Segments)]
        /\ wbuf \in [Workers -> Seq(Segments)]
        /\ \A w \in Workers : Len(rbuf[w]) <= BUFFER_SIZE
    BY <1>1, SizesAssumption DEF Init
  <2>2. /\ toServer \in [Clients -> Seq(Segments)]
        /\ toClient \in [Clients -> Seq(Segments)]
        /\ backlog \in Seq(Clients)
    BY <1>1 DEF Init
  <2>3. /\ sent \in [Clients -> Nat] /\ answered \in [Clients -> Nat]
        /\ executed \in [Clients -> Seq(Nat)] /\ split \in [Clients -> BOOLEAN]
    BY <1>1 DEF Init
  <2> QED
    BY <2>1, <2>2, <2>3 DEF Init, TypeOK, WorkerStates
<1>3. SessionsHaveClients /\ NotShared /\ WaitsOnce
  BY DEF Init, SessionsHaveClients, NotShared, WaitsOnce, NoRepeat, InSession
<1>4. Unowned
  BY <1>1, NamesAssumption DEF Init, Unowned, Accepted, Waiting
<1> QED
  BY <1>2, <1>3, <1>4 DEF OwnerInv

-----------------------------------------------------------------------------
(* The values that the stage of a client is made of.                       *)
Untouched(c) ==
  UNCHANGED <<sent[c], executed[c], answered[c], toServer[c], toClient[c],
              client[c], split[c]>>

(* What a step may do to the worker of a client without a consequence for  *)
(* it: nothing, end its session, go on with what it has received, or start *)
(* with an empty buffer.                                                   *)
Harmless(v, c) ==
  fd'[v] = c =>
    \/ fd[v] = c /\ UNCHANGED <<pc[v], rbuf[v], wbuf[v]>>
    \/ pc'[v] = "close"
    \/ fd[v] = c /\ pc[v] = "recv" /\ pc'[v] = "serve" /\ rbuf'[v] = rbuf[v]
    \/ pc'[v] = "recv" /\ rbuf'[v] = <<>>

LEMMA ClientStays ==
  ASSUME NEW c \in Clients, ClientInv(c), Untouched(c),
         \A v \in Workers : Harmless(v, c)
  PROVE  ClientInv(c)'
<1> USE DEF Untouched, ClientInv
<1>1. Ordered(c)'
  <2>1. ASSUME NEW w \in Workers, HasBytes(w, c)', rbuf'[w] /= <<>>
        PROVE  HasBytes(w, c) /\ rbuf'[w] = rbuf[w]
    BY <2>1 DEF Harmless, HasBytes
  <2>2. /\ Increasing(executed'[c])
        /\ \A i \in DOMAIN executed'[c] : executed'[c][i] <= sent'[c]
        /\ InOrder(toServer'[c]) /\ Fresh(executed'[c], toServer'[c], sent'[c])
    BY DEF Ordered
  <2>3. ASSUME NEW w \in Workers, HasBytes(w, c)'
        PROVE  /\ InOrder(rbuf'[w]) /\ Fresh(executed'[c], rbuf'[w], sent'[c])
               /\ Earlier(rbuf'[w], toServer'[c])
    <3>1. CASE rbuf'[w] = <<>>
      BY <3>1 DEF InOrder, Fresh, Earlier
    <3>2. CASE rbuf'[w] /= <<>>
      BY <2>1, <2>3, <3>2 DEF Ordered
    <3> QED
      BY <3>1, <3>2
  <2> QED
    BY <2>2, <2>3 DEF Ordered, InOrder, Fresh, Earlier, Follows, Increasing
<1>2. ASSUME Stage(c) PROVE Stage(c)'
  <2>0. \A v \in Workers :
          /\ Sending(v, c)' => Sending(v, c) /\ wbuf'[v] = wbuf[v]
          /\ HasBytes(v, c)' => \/ HasBytes(v, c) /\ rbuf'[v] = rbuf[v]
                                \/ rbuf'[v] = <<>>
    BY DEF Harmless, HasBytes, Sending
  <2>1. CASE Idle(c)
    <3>1. Idle(c)'
      BY <2>0, <2>1 DEF Idle, UpTo
    <3> QED
      BY <3>1 DEF Stage
  <2>2. CASE Asked(c)
    <3>1. Asked(c)'
      BY <2>0, <2>2 DEF Asked, UpTo, Only
    <3> QED
      BY <3>1 DEF Stage
  <2>3. CASE Executed(c)
    <3>1. Executed(c)'
      BY <2>0, <2>3 DEF Executed, UpTo, PiecesOf, NoLineFeed
    <3> QED
      BY <3>1 DEF Stage
  <2> QED
    BY <1>2, <2>1, <2>2, <2>3 DEF Stage
<1> QED
  BY <1>1, <1>2

-----------------------------------------------------------------------------
(* The steps of a worker, seen from the client it serves.                  *)

(* The other workers do not have its connection.                           *)
LEMMA OnlyOwner ==
  ASSUME OwnerInv, NEW w \in Workers, NEW c \in Clients, fd[w] = c
  PROVE  \A v \in Workers : fd[v] = c => v = w
BY NamesAssumption DEF OwnerInv, NotShared

LEMMA RecvProgress ==
  ASSUME OwnerInv, NEW c \in Clients, ClientInv(c),
         NEW w \in Workers, fd[w] = c, Recv(w)
  PROVE  ClientInv(c)'
<1>f. /\ pc \in [Workers -> WorkerStates]
      /\ rbuf \in [Workers -> Seq(Segments)]
      /\ toServer \in [Clients -> Seq(Segments)]
  BY DEF OwnerInv, TypeOK
<1>1. PICK k \in 1 .. Len(toServer[c]) :
        /\ rbuf' = [rbuf EXCEPT ![w] = rbuf[w] \o SubSeq(toServer[c], 1, k)]
        /\ pc' = [pc EXCEPT ![w] =
                    AfterRecv(rbuf[w] \o SubSeq(toServer[c], 1, k))]
        /\ toServer' = [toServer EXCEPT ![c] =
                          SubSeq(toServer[c], k + 1, Len(toServer[c]))]
  BY DEF Recv, Goto
<1>2. PICK buf, left :
        /\ buf = rbuf[w] \o SubSeq(toServer[c], 1, k)
        /\ left = SubSeq(toServer[c], k + 1, Len(toServer[c]))
  OBVIOUS
<1>3. rbuf'[w] = buf /\ toServer'[c] = left
  BY <1>f, <1>1, <1>2
<1>4. /\ pc[w] = "recv" /\ HasBytes(w, c) /\ toServer[c] /= <<>>
      /\ UNCHANGED <<fd, wbuf, toClient, client, sent, executed, answered, split>>
  <2>1. toServer[c] /= <<>>
    BY <1>1, EmptySeq
  <2> QED
    BY <2>1 DEF Recv, HasBytes, clientVars
<1>5. \A v \in Workers : HasBytes(v, c)' => v = w
  BY <1>4, OnlyOwner DEF HasBytes
<1>6. ~Sending(w, c)' /\ \A v \in Workers : ~Sending(v, c)'
  <2>1. pc'[w] /= "send"
    BY <1>f, <1>1 DEF AfterRecv
  <2> QED
    BY <2>1, <1>4, OnlyOwner DEF Sending
<1>7. Ordered(c)'
  <2>1. /\ InOrder(rbuf[w]) /\ InOrder(toServer[c]) /\ Earlier(rbuf[w], toServer[c])
        /\ Fresh(executed[c], rbuf[w], sent[c])
        /\ Fresh(executed[c], toServer[c], sent[c])
    BY <1>4 DEF ClientInv, Ordered
  <2>2. InOrder(buf) /\ InOrder(left) /\ Earlier(buf, left)
    BY <1>f, <1>2, <2>1, ReceivedInOrder
  <2>3. Fresh(executed[c], buf, sent[c]) /\ Fresh(executed[c], left, sent[c])
    BY <1>f, <1>2, <2>1, ReceivedFresh
  <2>4. /\ Increasing(executed'[c])
        /\ \A i \in DOMAIN executed'[c] : executed'[c][i] <= sent'[c]
    BY <1>4 DEF ClientInv, Ordered
  <2>5. InOrder(toServer'[c]) /\ Fresh(executed'[c], toServer'[c], sent'[c])
    BY <1>3, <1>4, <2>2, <2>3
  <2>6. ASSUME NEW v \in Workers, HasBytes(v, c)'
        PROVE  /\ InOrder(rbuf'[v]) /\ Fresh(executed'[c], rbuf'[v], sent'[c])
               /\ Earlier(rbuf'[v], toServer'[c])
    BY <1>3, <1>4, <1>5, <2>2, <2>3, <2>6
  <2> QED
    BY <2>4, <2>5, <2>6 DEF Ordered, InOrder, Fresh, Earlier, Follows, Increasing
<1>8. ASSUME ~split'[c] PROVE Stage(c)'
  <2>1. Asked(c)
    BY <1>4, <1>8 DEF ClientInv, Stage, Idle, Executed
  <2>2. Only(buf, sent[c]) /\ Only(left, sent[c])
    BY <1>f, <1>2, <1>4, <2>1, ReceivedOnly DEF Asked
  <2>3. Asked(c)'
    BY <1>3, <1>4, <1>5, <1>6, <2>1, <2>2 DEF Asked, UpTo, Only
  <2> QED
    BY <2>3 DEF Stage
<1> QED
  BY <1>7, <1>8 DEF ClientInv

LEMMA SendProgress ==
  ASSUME OwnerInv, NEW c \in Clients, ClientInv(c),
         NEW w \in Workers, fd[w] = c, Send(w)
  PROVE  ClientInv(c)'
<1>f. /\ pc \in [Workers -> WorkerStates]
      /\ rbuf \in [Workers -> Seq(Segments)] /\ wbuf \in [Workers -> Seq(Segments)]
      /\ toClient \in [Clients -> Seq(Segments)]
  BY DEF OwnerInv, TypeOK
<1>1. PICK k \in 1 .. Len(wbuf[w]) :
        /\ toClient' = Delivered(c, SubSeq(wbuf[w], 1, k))
        /\ wbuf' = [wbuf EXCEPT ![w] = SubSeq(wbuf[w], k + 1, Len(wbuf[w]))]
        /\ IF k = Len(wbuf[w]) THEN NextRequest(w) ELSE UNCHANGED <<pc, rbuf>>
  BY DEF Send
<1>2. PICK got, left :
        /\ got = toClient[c] \o SubSeq(wbuf[w], 1, k)
        /\ left = SubSeq(wbuf[w], k + 1, Len(wbuf[w]))
  OBVIOUS
<1>3. wbuf'[w] = left /\ toClient'[c] \in {toClient[c], got}
  BY <1>f, <1>1, <1>2 DEF Delivered
<1>4. /\ pc[w] = "send" /\ Sending(w, c)
      /\ UNCHANGED <<fd, toServer, client, sent, executed, answered, split>>
  BY DEF Send, Sending, clientVars
<1>5. \A v \in Workers : fd'[v] = c => v = w
  BY <1>4, OnlyOwner
<1>6. \/ k = Len(wbuf[w]) /\ pc'[w] = "recv" /\ rbuf'[w] = <<>>
      \/ k /= Len(wbuf[w]) /\ pc'[w] = "send"
  BY <1>f, <1>1, <1>4 DEF NextRequest, Goto
<1>7. Ordered(c)'
  <2>1. \A v \in Workers : HasBytes(v, c)' => rbuf'[v] = <<>>
    BY <1>5, <1>6 DEF HasBytes
  <2>2. \A v \in Workers : rbuf'[v] = <<>> =>
          /\ InOrder(rbuf'[v]) /\ Fresh(executed'[c], rbuf'[v], sent'[c])
          /\ Earlier(rbuf'[v], toServer'[c])
    BY DEF InOrder, Fresh, Earlier
  <2>3. /\ Increasing(executed'[c])
        /\ \A i \in DOMAIN executed'[c] : executed'[c][i] <= sent'[c]
        /\ InOrder(toServer'[c]) /\ Fresh(executed'[c], toServer'[c], sent'[c])
    BY <1>4 DEF ClientInv, Ordered
  <2> QED
    BY <2>1, <2>2, <2>3 DEF Ordered, InOrder, Fresh, Earlier, Follows, Increasing
<1>8. ASSUME ~split'[c] PROVE Stage(c)'
  <2>1. Executed(c)
    BY <1>4, <1>8 DEF ClientInv, Stage, Idle, Asked
  <2>2. /\ PiecesOf(toClient[c], sent[c]) /\ NoLineFeed(toClient[c])
        /\ PiecesOf(wbuf[w], sent[c])
    BY <1>4, <2>1 DEF Executed
  <2>3. /\ PiecesOf(got, sent[c])
        /\ k /= Len(wbuf[w]) =>
             NoLineFeed(got) /\ PiecesOf(left, sent[c]) /\ left /= <<>>
    BY <1>f, <1>2, <2>2, Sent
  <2>4. /\ PiecesOf(toClient'[c], sent[c])
        /\ k /= Len(wbuf[w]) => NoLineFeed(toClient'[c])
    BY <1>3, <2>2, <2>3
  <2>5. ASSUME NEW v \in Workers
        PROVE  /\ HasBytes(v, c)' => rbuf'[v] = <<>>
               /\ Sending(v, c)' => /\ PiecesOf(wbuf'[v], sent[c])
                                    /\ wbuf'[v] /= <<>>
                                    /\ NoLineFeed(toClient'[c])
    BY <1>3, <1>5, <1>6, <2>3, <2>4 DEF HasBytes, Sending
  <2>6. Executed(c)'
    BY <1>4, <2>1, <2>4, <2>5 DEF Executed, UpTo, PiecesOf, NoLineFeed
  <2> QED
    BY <2>6 DEF Stage
<1> QED
  BY <1>7, <1>8 DEF ClientInv

LEMMA CloseProgress ==
  ASSUME OwnerInv, NEW c \in Clients, ClientInv(c),
         NEW w \in Workers, fd[w] = c, CloseConnection(w)
  PROVE  ClientInv(c)'
<1>1. /\ toServer' = [toServer EXCEPT ![c] = <<>>]
      /\ fd' = [fd EXCEPT ![w] = Nobody]
      /\ UNCHANGED <<toClient, client, sent, executed, answered, split>>
  BY DEF CloseConnection, clientVars
<1>2. toServer'[c] = <<>>
  BY <1>1 DEF OwnerInv, TypeOK
<1>3. \A v \in Workers : fd'[v] /= c
  BY <1>1, OnlyOwner, NamesAssumption DEF OwnerInv, TypeOK
<1>4. \A v \in Workers : ~HasBytes(v, c)' /\ ~Sending(v, c)'
  BY <1>3 DEF HasBytes, Sending
<1>5. Ordered(c)'
  BY <1>1, <1>2, <1>4 DEF ClientInv, Ordered, InOrder, Fresh, Increasing
<1>6. ASSUME ~split'[c] PROVE Stage(c)'
  <2>1. CASE Idle(c)
    BY <1>1, <1>2, <1>4, <2>1 DEF Stage, Idle, UpTo
  <2>2. CASE Asked(c)
    BY <1>1, <1>2, <1>4, <2>2 DEF Stage, Asked, UpTo, Only
  <2>3. CASE Executed(c)
    BY <1>1, <1>2, <1>4, <2>3 DEF Stage, Executed, UpTo, PiecesOf
  <2> QED
    BY <1>1, <1>6, <2>1, <2>2, <2>3 DEF ClientInv, Stage
<1> QED
  BY <1>5, <1>6 DEF ClientInv

LEMMA ServeProgress ==
  ASSUME OwnerInv, NEW c \in Clients, ClientInv(c),
         NEW w \in Workers, fd[w] = c, Serve(w), LineFeeds(rbuf[w]) /= {}
  PROVE  ClientInv(c)'
<1>f. /\ pc \in [Workers -> WorkerStates]
      /\ rbuf \in [Workers -> Seq(Segments)] /\ wbuf \in [Workers -> Seq(Segments)]
      /\ executed \in [Clients -> Seq(Nat)] /\ sent \in [Clients -> Nat]
      /\ toServer \in [Clients -> Seq(Segments)]
  BY DEF OwnerInv, TypeOK
<1>1. PICK i \in LineFeeds(rbuf[w]) :
        /\ executed' = [executed EXCEPT ![c] = Append(@, rbuf[w][i].request)]
        /\ wbuf' = [wbuf EXCEPT ![w] = Reply(rbuf[w][i].request)]
        /\ Goto(w, "send") /\ UNCHANGED rbuf
  BY DEF Serve
<1>2. PICK n : n = rbuf[w][i].request
  OBVIOUS
<1>3. i \in DOMAIN rbuf[w] /\ rbuf[w][i].lf /\ n \in Nat
  BY <1>f, <1>2, SegmentIs DEF LineFeeds
<1>4. /\ pc[w] = "serve" /\ HasBytes(w, c) /\ pc'[w] = "send"
      /\ UNCHANGED <<fd, toServer, toClient, client, sent, answered, split>>
  BY <1>f, <1>1 DEF Serve, HasBytes, Goto, netVars, clientVars
<1>5. \A v \in Workers : fd'[v] = c => v = w
  BY <1>4, OnlyOwner
<1>6. executed'[c] = Append(executed[c], n) /\ wbuf'[w] = Reply(n)
  BY <1>f, <1>1, <1>2
<1>7. /\ n <= sent[c] /\ \A j \in DOMAIN executed[c] : executed[c][j] < n
      /\ \A j \in DOMAIN toServer[c] : n < toServer[c][j].request
  BY <1>2, <1>3, <1>4 DEF ClientInv, Ordered, Fresh, Earlier, Follows
<1>8. executed[c] \in Seq(Nat) /\ Increasing(executed[c])
  BY <1>f DEF ClientInv, Ordered
<1>9. PICK e : e = Append(executed[c], n)
  OBVIOUS
<1>10. /\ Increasing(e) /\ \A j \in DOMAIN e : e[j] <= n
       /\ ToSet(e) = ToSet(executed[c]) \cup {n}
       /\ \A j \in DOMAIN e : j \in DOMAIN executed[c] \/ e[j] = n
       /\ \A j \in DOMAIN executed[c] : e[j] = executed[c][j]
       /\ e \in Seq(Nat)
  BY <1>3, <1>7, <1>8, <1>9, Grown, AppendProperties
<1>11. \A j \in DOMAIN e : e[j] \in Nat
  BY <1>10, LenProperties, ElementOfSeq
<1>12. Ordered(c)'
  <2>1. \A v \in Workers : ~HasBytes(v, c)'
    BY <1>4, <1>5 DEF HasBytes
  <2>2. \A j \in DOMAIN e : e[j] <= sent[c]
    BY <1>f, <1>3, <1>7, <1>10, <1>11
  <2>3. Fresh(e, toServer[c], sent[c])
    <3>1. ASSUME NEW j \in DOMAIN toServer[c]
          PROVE  /\ toServer[c][j].request <= sent[c]
                 /\ toServer[c][j].request \in Nat
                 /\ \A l \in DOMAIN executed[c] :
                      executed[c][l] < toServer[c][j].request
      BY <1>f, SegmentIs DEF ClientInv, Ordered, Fresh
    <3> QED
      BY <1>7, <1>10, <3>1 DEF Fresh
  <2>4. Increasing(e) /\ InOrder(toServer[c])
    BY <1>10 DEF ClientInv, Ordered
  <2> QED
    BY <1>4, <1>6, <1>9, <2>1, <2>2, <2>3, <2>4
       DEF Ordered, InOrder, Fresh, Follows, Increasing
<1>13. ASSUME ~split'[c] PROVE Stage(c)'
  <2>1. Asked(c)
    <3>1. rbuf[w] /= <<>>
      BY <1>3
    <3> QED
      BY <1>4, <1>13, <3>1 DEF ClientInv, Stage, Idle, Executed
  <2>2. n = sent[c]
    BY <1>2, <1>3, <1>4, <2>1 DEF Asked, Only
  <2>3. toServer[c] = <<>>
    <3>1. \A j \in DOMAIN toServer[c] : FALSE
      BY <1>f, <1>7, <2>1, <2>2 DEF Asked, Only
    <3>2. Len(toServer[c]) \in Nat /\ DOMAIN toServer[c] = 1 .. Len(toServer[c])
      BY <1>f, LenProperties
    <3>3. ~(1 <= Len(toServer[c]))
      BY <3>1, <3>2
    <3> QED
      BY <1>f, <3>2, <3>3, EmptySeq
  <2>4. PiecesOf(Reply(n), n) /\ Reply(n) /= <<>>
    BY <1>3, ReplyIs
  <2>5. UpTo(c, sent[c])'
    <3>1. \A m \in 1 .. sent[c] : m \in 1 .. answered[c] \/ m = n
      BY <1>f, <2>1, <2>2 DEF Asked, OwnerInv, TypeOK
    <3> QED
      BY <1>4, <1>6, <1>9, <1>10, <2>1, <3>1 DEF UpTo, Asked
  <2>6. ASSUME NEW v \in Workers
        PROVE  /\ ~HasBytes(v, c)'
               /\ Sending(v, c)' => /\ PiecesOf(wbuf'[v], sent[c])
                                    /\ wbuf'[v] /= <<>>
    BY <1>4, <1>5, <1>6, <2>2, <2>4 DEF HasBytes, Sending
  <2>7. toClient'[c] = <<>>
    BY <1>4, <2>1 DEF Asked
  <2>8. PiecesOf(toClient'[c], sent[c]) /\ NoLineFeed(toClient'[c])
    BY <2>7 DEF PiecesOf, NoLineFeed
  <2>9. Executed(c)'
    BY <1>4, <2>1, <2>3, <2>5, <2>6, <2>8 DEF Executed, Asked, UpTo, PiecesOf, NoLineFeed
  <2> QED
    BY <2>9 DEF Stage
<1> QED
  BY <1>12, <1>13 DEF ClientInv

(* Whatever a worker does, the client it serves goes on as it should: the  *)
(* steps above, and the others, which end a session or start over.         *)
LEMMA WorkerProgress ==
  ASSUME OwnerInv, NEW c \in Clients, ClientInv(c),
         NEW w \in Workers, WorkerStep(w), ~Die
  PROVE  ClientInv(c)'
<1>f. /\ pc \in [Workers -> WorkerStates]
      /\ fd \in [Workers -> Clients \cup {Nobody}]
      /\ rbuf \in [Workers -> Seq(Segments)] /\ wbuf \in [Workers -> Seq(Segments)]
      /\ executed \in [Clients -> Seq(Nat)]
      /\ toServer \in [Clients -> Seq(Segments)]
      /\ toClient \in [Clients -> Seq(Segments)]
  BY DEF OwnerInv, TypeOK
<1>1. CASE Accept(w) \/ Leave(w) \/ AcceptError(w)
  <2>1. /\ UNCHANGED <<wbuf, toServer, toClient, clientVars, executed>>
        /\ fd[w] /= c
    BY <1>1, NamesAssumption DEF Accept, Leave, AcceptError, netVars, OwnerInv,
         SessionsHaveClients, InSession
  <2>2. \A v \in Workers : v /= w => UNCHANGED <<fd[v], pc[v], rbuf[v], wbuf[v]>>
    BY <1>1, <1>f DEF Accept, Leave, AcceptError, NextRequest, Goto
  <2>3. fd'[w] = c => pc'[w] = "recv" /\ rbuf'[w] = <<>>
    BY <1>1, <1>f, <2>1 DEF Accept, Leave, AcceptError, NextRequest, Goto
  <2>4. \A v \in Workers : Harmless(v, c)
    BY <2>2, <2>3 DEF Harmless
  <2>5. Untouched(c)
    BY <2>1 DEF Untouched, clientVars
  <2> QED
    BY <2>4, <2>5, ClientStays
<1>2. CASE \/ RecvZero(w) \/ RecvError(w) \/ RecvInterrupted(w)
           \/ SendInterrupted(w) \/ SendReset(w)
           \/ Serve(w) /\ LineFeeds(rbuf[w]) = {}
  <2>1. UNCHANGED <<fd, toServer, toClient, clientVars, executed>>
    BY <1>2 DEF RecvZero, RecvError, RecvInterrupted, SendInterrupted, SendReset,
         Serve, netVars
  <2>2. \A v \in Workers : v /= w => UNCHANGED <<fd[v], pc[v], rbuf[v], wbuf[v]>>
    BY <1>2, <1>f, <2>1 DEF RecvZero, RecvError, RecvInterrupted, SendInterrupted,
         SendReset, Serve, EndSession, Goto
  <2>3. \/ pc'[w] = "close"
        \/ pc[w] = "recv" /\ pc'[w] = "serve" /\ rbuf'[w] = rbuf[w]
    BY <1>2, <1>f DEF RecvZero, RecvError, RecvInterrupted, SendInterrupted,
         SendReset, Serve, EndSession, Goto
  <2>4. \A v \in Workers : Harmless(v, c)
    BY <2>1, <2>2, <2>3 DEF Harmless
  <2>5. Untouched(c)
    BY <2>1 DEF Untouched, clientVars
  <2> QED
    BY <2>4, <2>5, ClientStays
<1>3. CASE \/ Recv(w) \/ Send(w) \/ CloseConnection(w)
           \/ Serve(w) /\ LineFeeds(rbuf[w]) /= {}
  <2>1. CASE fd[w] = c
    BY <1>3, <2>1, RecvProgress, ServeProgress, SendProgress, CloseProgress
  <2>2. CASE fd[w] /= c
    <3>1. /\ fd'[w] /= c
          /\ \A v \in Workers : v /= w =>
               UNCHANGED <<fd[v], pc[v], rbuf[v], wbuf[v]>>
      <4>1. CASE CloseConnection(w)
        BY <1>f, <4>1, NamesAssumption DEF CloseConnection, Goto
      <4>2. CASE Recv(w) \/ Serve(w) \/ Send(w)
        <5>1. /\ UNCHANGED fd
              /\ \A v \in Workers : v /= w => UNCHANGED <<pc[v], rbuf[v], wbuf[v]>>
          BY <1>f, <4>2 DEF Recv, Serve, Send, EndSession, NextRequest, Goto
        <5> QED
          BY <2>2, <5>1
      <4> QED
        BY <1>3, <4>1, <4>2
    <3>2. \A v \in Workers : Harmless(v, c)
      BY <3>1 DEF Harmless
    <3>3. UNCHANGED clientVars
      BY <1>3 DEF Recv, Serve, Send, CloseConnection
    <3>4. toServer'[c] = toServer[c]
      BY <1>3, <1>f, <2>2 DEF Recv, Serve, Send, CloseConnection, netVars
    <3>5. toClient'[c] = toClient[c]
      BY <1>3, <1>f, <2>2
         DEF Recv, Serve, Send, CloseConnection, Delivered, netVars
    <3>6. executed'[c] = executed[c]
      BY <1>3, <1>f, <2>2 DEF Recv, Serve, Send, CloseConnection
    <3>7. Untouched(c)
      BY <3>3, <3>4, <3>5, <3>6 DEF Untouched, clientVars
    <3> QED
      BY <3>2, <3>7, ClientStays
  <2> QED
    BY <2>1, <2>2
<1>4. ~SendFatal(w)
  BY DEF SendFatal
<1>5. \/ Accept(w) \/ Leave(w) \/ AcceptError(w)
      \/ RecvZero(w) \/ RecvError(w) \/ RecvInterrupted(w)
      \/ SendInterrupted(w) \/ SendReset(w) \/ Recv(w) \/ Serve(w) \/ Send(w)
      \/ CloseConnection(w)
  BY <1>4 DEF WorkerStep, Serving, Trouble
<1> QED
  BY <1>1, <1>2, <1>3, <1>5

-----------------------------------------------------------------------------
(* The steps of a client.                                                  *)

(* A new request comes behind what is under way.                           *)
LEMMA Joined ==
  ASSUME NEW s \in Seq(Segments), NEW m \in Seq(Segments), NEW n \in Nat,
         InOrder(s), InOrder(m), Only(m, n + 1),
         \A i \in DOMAIN s : s[i].request <= n
  PROVE  /\ InOrder(s \o m) /\ s \o m \in Seq(Segments)
         /\ \A i \in DOMAIN (s \o m) :
              \/ \E j \in DOMAIN s : (s \o m)[i] = s[j]
              \/ \E j \in DOMAIN m : (s \o m)[i] = m[j]
<1>1. PICK t : t = s \o m
  OBVIOUS
<1>2. /\ t \in Seq(Segments) /\ Len(t) = Len(s) + Len(m)
      /\ \A i \in 1 .. Len(s) + Len(m) :
           t[i] = IF i <= Len(s) THEN s[i] ELSE m[i - Len(s)]
  BY <1>1, ConcatProperties
<1>3. /\ Len(s) \in Nat /\ Len(m) \in Nat
      /\ DOMAIN s = 1 .. Len(s) /\ DOMAIN m = 1 .. Len(m)
      /\ DOMAIN t = 1 .. Len(s) + Len(m)
  BY <1>2, LenProperties
<1>4. ASSUME NEW i \in DOMAIN t
      PROVE  \/ i \in DOMAIN s /\ t[i] = s[i]
             \/ i > Len(s) /\ i - Len(s) \in DOMAIN m /\ t[i] = m[i - Len(s)]
  BY <1>2, <1>3
<1>5. ASSUME NEW i \in DOMAIN t, NEW j \in DOMAIN t, i < j
      PROVE  Follows(t[i], t[j])
  <2>1. CASE i \in DOMAIN s /\ t[i] = s[i] /\ j \in DOMAIN s /\ t[j] = s[j]
    BY <1>5, <2>1 DEF InOrder
  <2>2. CASE /\ i \in DOMAIN s /\ t[i] = s[i]
             /\ j - Len(s) \in DOMAIN m /\ t[j] = m[j - Len(s)]
    <3>1. t[i].request <= n /\ t[j].request = n + 1 /\ t[i].request \in Nat
      BY <2>2, SegmentIs DEF Only
    <3> QED
      BY <3>1 DEF Follows
  <2>3. CASE /\ i > Len(s) /\ i - Len(s) \in DOMAIN m /\ t[i] = m[i - Len(s)]
             /\ j - Len(s) \in DOMAIN m /\ t[j] = m[j - Len(s)]
    <3>1. i - Len(s) < j - Len(s)
      BY <1>3, <1>5
    <3> QED
      BY <2>3, <3>1 DEF InOrder
  <2>4. i > Len(s) => j \notin DOMAIN s
    BY <1>3, <1>5
  <2> QED
    BY <1>4, <2>1, <2>2, <2>3, <2>4
<1>6. InOrder(t)
  BY <1>5 DEF InOrder
<1>7. \A i \in DOMAIN t : \/ \E j \in DOMAIN s : t[i] = s[j]
                          \/ \E j \in DOMAIN m : t[i] = m[j]
  BY <1>4
<1> QED
  BY <1>1, <1>2, <1>6, <1>7

(* What a client does leaves the workers alone.                            *)
LEMMA ClientSendProgress ==
  ASSUME OwnerInv, NEW c \in Clients, ClientInv(c), ClientSend(c)
  PROVE  ClientInv(c)'
<1>f. /\ rbuf \in [Workers -> Seq(Segments)]
      /\ executed \in [Clients -> Seq(Nat)] /\ sent \in [Clients -> Nat]
      /\ toServer \in [Clients -> Seq(Segments)]
      /\ client \in [Clients -> {"start", "ready", "receiving", "done"}]
  BY DEF OwnerInv, TypeOK
<1>1. PICK m \in Messages(sent[c] + 1) :
        toServer' = [toServer EXCEPT ![c] = @ \o m]
  BY DEF ClientSend
<1>2. /\ client[c] = "ready" /\ client'[c] = "receiving"
      /\ sent'[c] = sent[c] + 1 /\ sent[c] \in Nat
      /\ UNCHANGED <<pc, fd, rbuf, wbuf, toClient, executed, answered, split>>
  BY <1>f DEF ClientSend, serverVars
<1>3. PICK t : t = toServer[c] \o m
  OBVIOUS
<1>4. toServer'[c] = t
  BY <1>f, <1>1, <1>3
<1>5. m \in Seq(Segments) /\ Only(m, sent[c] + 1) /\ InOrder(m)
  <2>1. sent[c] + 1 \in Nat
    BY <1>2
  <2> QED
    BY <2>1, MessageIs
<1>6. /\ InOrder(t)
      /\ \A i \in DOMAIN t : \/ \E j \in DOMAIN toServer[c] : t[i] = toServer[c][j]
                             \/ \E j \in DOMAIN m : t[i] = m[j]
  <2>1. PICK n, s : n = sent[c] /\ s = toServer[c]
    OBVIOUS
  <2>2. InOrder(s) /\ \A i \in DOMAIN s : s[i].request <= n
    BY <2>1 DEF ClientInv, Ordered, Fresh
  <2>3. n \in Nat /\ s \in Seq(Segments) /\ Only(m, n + 1)
    BY <1>f, <1>2, <1>5, <2>1
  <2>4. /\ InOrder(s \o m)
        /\ \A i \in DOMAIN (s \o m) :
             \/ \E j \in DOMAIN s : (s \o m)[i] = s[j]
             \/ \E j \in DOMAIN m : (s \o m)[i] = m[j]
    BY <1>5, <2>2, <2>3, Joined
  <2> QED
    BY <1>3, <2>1, <2>4
<1>7. ASSUME NEW i \in DOMAIN executed[c]
      PROVE  /\ executed[c][i] \in Nat /\ executed[c][i] <= sent[c]
             /\ executed[c][i] < sent[c] + 1
  <2>1. executed[c][i] \in Nat
    BY <1>f, LenProperties, ElementOfSeq
  <2>2. executed[c][i] <= sent[c]
    BY DEF ClientInv, Ordered
  <2> QED
    BY <1>2, <2>1, <2>2
<1>8. ASSUME NEW s \in Seq(Segments), Fresh(executed[c], s, sent[c])
      PROVE  Fresh(executed[c], s, sent[c] + 1)
  <2>1. \A j \in DOMAIN s : s[j].request <= sent[c] /\ s[j].request \in Nat
    BY <1>8, SegmentIs DEF Fresh
  <2>2. \A j \in DOMAIN s : s[j].request <= sent[c] + 1
    BY <1>2, <2>1
  <2> QED
    BY <1>8, <2>2 DEF Fresh
<1>9. Fresh(executed[c], t, sent[c] + 1)
  <2>1. Fresh(executed[c], toServer[c], sent[c] + 1)
    BY <1>f, <1>8 DEF ClientInv, Ordered
  <2>2. Fresh(executed[c], m, sent[c] + 1)
    BY <1>2, <1>5, <1>7 DEF Fresh, Only
  <2> QED
    BY <1>6, <2>1, <2>2 DEF Fresh
<1>10. ASSUME NEW w \in Workers, HasBytes(w, c)
       PROVE  /\ InOrder(rbuf[w]) /\ Fresh(executed[c], rbuf[w], sent[c] + 1)
              /\ Earlier(rbuf[w], t)
  <2>1. /\ InOrder(rbuf[w]) /\ Fresh(executed[c], rbuf[w], sent[c])
        /\ Earlier(rbuf[w], toServer[c])
    BY <1>10 DEF ClientInv, Ordered
  <2>2. Earlier(rbuf[w], m)
    <3>1. \A i \in DOMAIN rbuf[w] :
            rbuf[w][i].request <= sent[c] /\ rbuf[w][i].request \in Nat
      BY <1>f, <2>1, SegmentIs DEF Fresh
    <3> QED
      BY <1>2, <1>5, <3>1 DEF Earlier, Follows, Only
  <2>3. Earlier(rbuf[w], t)
    BY <1>6, <2>1, <2>2 DEF Earlier
  <2> QED
    BY <1>f, <1>8, <2>1, <2>3
<1>11. Ordered(c)'
  <2>1. Increasing(executed'[c])
    BY <1>2 DEF ClientInv, Ordered
  <2>2. \A i \in DOMAIN executed'[c] : executed'[c][i] <= sent'[c]
    BY <1>2, <1>7
  <2>3. InOrder(toServer'[c]) /\ Fresh(executed'[c], toServer'[c], sent'[c])
    BY <1>2, <1>4, <1>6, <1>9
  <2>4. ASSUME NEW w \in Workers, HasBytes(w, c)'
        PROVE  /\ InOrder(rbuf'[w]) /\ Fresh(executed'[c], rbuf'[w], sent'[c])
               /\ Earlier(rbuf'[w], toServer'[c])
    BY <1>2, <1>4, <1>10, <2>4 DEF HasBytes
  <2> QED
    BY <2>1, <2>2, <2>3, <2>4
       DEF Ordered, InOrder, Fresh, Earlier, Follows, Increasing
<1>12. ASSUME ~split'[c] PROVE Stage(c)'
  <2>1. Idle(c)
    BY <1>2, <1>12 DEF ClientInv, Stage, Asked, Executed
  <2>2. Only(t, sent[c] + 1)
    BY <1>5, <1>6, <2>1 DEF Only, Idle
  <2>3. \A w \in Workers : ~Sending(w, c)' /\ (HasBytes(w, c)' => rbuf'[w] = <<>>)
    BY <1>2, <2>1 DEF Idle, Sending, HasBytes
  <2>4. Asked(c)'
    BY <1>2, <1>4, <2>1, <2>2, <2>3 DEF Asked, Idle, UpTo, Only
  <2> QED
    BY <2>4 DEF Stage
<1> QED
  BY <1>11, <1>12 DEF ClientInv

LEMMA ClientRecvProgress ==
  ASSUME OwnerInv, NEW c \in Clients, ClientInv(c), ClientRecv(c)
  PROVE  ClientInv(c)'
<1>f. /\ toClient \in [Clients -> Seq(Segments)]
      /\ client \in [Clients -> {"start", "ready", "receiving", "done"}]
      /\ answered \in [Clients -> Nat] /\ split \in [Clients -> BOOLEAN]
  BY DEF OwnerInv, TypeOK
<1>1. PICK k \in 1 .. Len(toClient[c]) :
        /\ toClient' = [toClient EXCEPT ![c] = SubSeq(@, k + 1, Len(@))]
        /\ split' = [split EXCEPT ![c] = @ \/ ~toClient[c][k].lf]
  BY DEF ClientRecv
<1>2. /\ client[c] = "receiving" /\ client'[c] = "ready"
      /\ answered'[c] = answered[c] + 1
      /\ UNCHANGED <<pc, fd, rbuf, wbuf, toServer, executed, sent>>
  BY <1>f DEF ClientRecv, serverVars
<1>3. Ordered(c)'
  BY <1>2 DEF ClientInv, Ordered, HasBytes, InOrder, Fresh, Earlier, Follows,
       Increasing
<1>4. ASSUME ~split'[c] PROVE Stage(c)'
  <2>1. PICK took \in BOOLEAN : took = (split[c] \/ ~toClient[c][k].lf)
    OBVIOUS
  <2>2. split' = [split EXCEPT ![c] = took]
    BY <1>1, <2>1, Zenon
  <2>3. ~took
    BY <1>f, <1>4, <2>2
  <2>4. ~split[c] /\ toClient[c][k].lf
    BY <2>1, <2>3
  <2>5. toClient[c] /= <<>> /\ k \in DOMAIN toClient[c]
    BY <1>f, EmptySeq, LenProperties
  <2>6. Executed(c)
    BY <1>2, <2>4, <2>5 DEF ClientInv, Stage, Idle, Asked
  <2>7. k = Len(toClient[c]) /\ ~NoLineFeed(toClient[c])
    BY <2>4, <2>5, <2>6 DEF Executed, PiecesOf, NoLineFeed
  <2>8. toClient'[c] = <<>>
    <3>1. PICK left : left = SubSeq(toClient[c], k + 1, Len(toClient[c]))
      OBVIOUS
    <3>2. left \in Seq(Segments) /\ Len(left) = Len(toClient[c]) - k
      BY <1>f, <3>1, Taken
    <3>3. Len(toClient[c]) \in Nat
      BY <1>f, LenProperties
    <3>4. Len(left) = 0
      BY <2>7, <3>2, <3>3
    <3>5. left = <<>>
      BY <3>2, <3>4, EmptySeq
    <3> QED
      BY <1>f, <1>1, <3>1, <3>5
  <2>9. \A w \in Workers : ~Sending(w, c)' /\ (HasBytes(w, c)' => rbuf'[w] = <<>>)
    BY <1>2, <2>6, <2>7 DEF Executed, Sending, HasBytes
  <2>10. Idle(c)'
    BY <1>2, <2>6, <2>8, <2>9 DEF Executed, Idle, UpTo
  <2> QED
    BY <2>10 DEF Stage
<1> QED
  BY <1>3, <1>4 DEF ClientInv

LEMMA ClientLeavesProgress ==
  ASSUME OwnerInv, NEW c \in Clients, ClientInv(c), Connect(c) \/ ClientClose(c)
  PROVE  ClientInv(c)'
<1>f. /\ toClient \in [Clients -> Seq(Segments)]
      /\ client \in [Clients -> {"start", "ready", "receiving", "done"}]
  BY DEF OwnerInv, TypeOK
<1>1. UNCHANGED <<pc, fd, rbuf, wbuf, toServer, executed, sent, answered, split>>
  BY DEF Connect, ClientClose, serverVars
<1>2. /\ client'[c] = "ready" => client[c] = "start"
      /\ client'[c] \in {"ready", "done"} /\ client[c] /= "done"
      /\ client'[c] = "done" => client[c] \in {"ready", "receiving"}
      /\ toClient'[c] \in {toClient[c], <<>>}
  BY <1>f DEF Connect, ClientClose
<1>3. Ordered(c)'
  BY <1>1 DEF ClientInv, Ordered, HasBytes, InOrder, Fresh, Earlier, Follows,
       Increasing
<1>4. \A w \in Workers : /\ Sending(w, c)' <=> Sending(w, c)
                         /\ HasBytes(w, c)' <=> HasBytes(w, c)
  BY <1>1 DEF Sending, HasBytes
<1>5. ASSUME ~split'[c] PROVE Stage(c)'
  <2>1. CASE Idle(c)
    <3>1. Idle(c)'
      BY <1>1, <1>2, <1>4, <2>1 DEF Idle, UpTo
    <3> QED
      BY <3>1 DEF Stage
  <2>2. CASE Asked(c)
    <3>1. Asked(c)'
      BY <1>1, <1>2, <1>4, <2>2 DEF Asked, UpTo, Only
    <3> QED
      BY <3>1 DEF Stage
  <2>3. CASE Executed(c)
    <3>1. /\ PiecesOf(toClient'[c], sent[c])
          /\ NoLineFeed(toClient[c]) => NoLineFeed(toClient'[c])
      BY <1>2, <2>3 DEF Executed, PiecesOf, NoLineFeed
    <3>2. Executed(c)'
      BY <1>1, <1>2, <1>4, <2>3, <3>1 DEF Executed, UpTo, PiecesOf, NoLineFeed
    <3> QED
      BY <3>2 DEF Stage
  <2> QED
    BY <1>1, <1>5, <2>1, <2>2, <2>3 DEF ClientInv, Stage
<1> QED
  BY <1>3, <1>5 DEF ClientInv

-----------------------------------------------------------------------------
(* The invariant holds.                                                    *)
LEMMA NextProgress ==
  ASSUME Inv, [Next]_vars
  PROVE  Progress'
<1> SUFFICES ASSUME NEW c \in Clients PROVE ClientInv(c)'
  BY DEF Progress
<1>0. OwnerInv /\ ClientInv(c)
  BY DEF Inv, Progress
<1>f. /\ fd \in [Workers -> Clients \cup {Nobody}]
      /\ toServer \in [Clients -> Seq(Segments)]
      /\ toClient \in [Clients -> Seq(Segments)]
      /\ client \in [Clients -> {"start", "ready", "receiving", "done"}]
      /\ sent \in [Clients -> Nat] /\ answered \in [Clients -> Nat]
      /\ split \in [Clients -> BOOLEAN]
  BY <1>0 DEF OwnerInv, TypeOK
<1>1. ASSUME NEW w \in Workers, WorkerStep(w), ~Die PROVE ClientInv(c)'
  BY <1>0, <1>1, WorkerProgress
<1>2. CASE Die \/ HandleSigint \/ Destroy \/ UNCHANGED vars
  <2>1. Untouched(c)
    BY <1>2 DEF Die, HandleSigint, Destroy, vars, netVars, clientVars, Untouched
  <2>2. \A v \in Workers : Harmless(v, c)
    BY <1>2, NamesAssumption DEF Die, HandleSigint, Destroy, vars, serverVars,
         Harmless
  <2> QED
    BY <1>0, <2>1, <2>2, ClientStays
<1>3. ASSUME NEW d \in Clients, ClientStep(d) PROVE ClientInv(c)'
  <2>1. CASE d = c
    BY <1>0, <1>3, <2>1, ClientSendProgress, ClientRecvProgress,
       ClientLeavesProgress DEF ClientStep
  <2>2. CASE d /= c
    <3>1. UNCHANGED <<pc, fd, rbuf, wbuf>>
      BY <1>3 DEF ClientStep, Connect, ClientSend, ClientRecv, ClientClose,
           serverVars
    <3>2. /\ client'[c] = client[c] /\ executed'[c] = executed[c]
          /\ sent'[c] = sent[c] /\ answered'[c] = answered[c]
          /\ toServer'[c] = toServer[c] /\ toClient'[c] = toClient[c]
      BY <1>f, <1>3, <2>2 DEF ClientStep, Connect, ClientSend, ClientRecv,
           ClientClose
    <3>3. split'[c] = split[c]
      <4>1. UNCHANGED split \/ \E b : split' = [split EXCEPT ![d] = b]
        BY <1>3 DEF ClientStep, Connect, ClientSend, ClientRecv, ClientClose
      <4> QED
        BY <1>f, <2>2, <4>1
    <3>4. Untouched(c)
      BY <3>2, <3>3 DEF Untouched
    <3>5. \A v \in Workers : Harmless(v, c)
      BY <3>1 DEF Harmless
    <3> QED
      BY <1>0, <3>4, <3>5, ClientStays
  <2> QED
    BY <2>1, <2>2
<1> QED
  BY <1>1, <1>2, <1>3 DEF Next

LEMMA InitProgress == Init => Progress
<1> SUFFICES ASSUME Init, NEW c \in Clients PROVE ClientInv(c)
  BY DEF Progress
<1>1. /\ toServer[c] = <<>> /\ toClient[c] = <<>> /\ executed[c] = <<>>
      /\ sent[c] = 0 /\ answered[c] = 0 /\ client[c] = "start"
      /\ \A w \in Workers : pc[w] = "accept"
  BY DEF Init
<1>2. \A w \in Workers : ~HasBytes(w, c) /\ ~Sending(w, c)
  BY <1>1 DEF HasBytes, Sending
<1>3. Ordered(c)
  BY <1>1, <1>2 DEF Ordered, Increasing, InOrder, Fresh
<1>4. Idle(c)
  BY <1>1, <1>2 DEF Idle, UpTo
<1> QED
  BY <1>3, <1>4 DEF ClientInv, Stage

LEMMA AlwaysOwnerInv == Spec => []OwnerInv
  BY InitOwner, NextOwner, PTL DEF Spec

LEMMA AlwaysInv == Spec => []Inv
<1>1. Init => Inv
  BY InitOwner, InitProgress DEF Inv
<1>2. Inv /\ [Next]_vars => Inv'
  <2> SUFFICES ASSUME Inv, [Next]_vars PROVE Inv'
    OBVIOUS
  <2>1. OwnerInv'
    BY NextOwner DEF Inv
  <2>2. Progress'
    BY NextProgress
  <2> QED
    BY <2>1, <2>2 DEF Inv
<1> QED
  BY <1>1, <1>2, PTL DEF Spec

-----------------------------------------------------------------------------
(* A set without two different elements has at most one.                   *)
LEMMA AtMostOne ==
  ASSUME NEW S, \A v, w \in S : v = w
  PROVE  Cardinality(S) <= 1
<1>1. CASE S = {}
  BY <1>1, FS_EmptySet
<1>2. CASE S /= {}
  <2>1. PICK w \in S : S = {w}
    BY <1>2
  <2>2. Cardinality({w}) = 1
    BY FS_Singleton
  <2>3. Cardinality(S) = 1
    BY <2>1, <2>2
  <2> QED
    BY <2>3
<1> QED
  BY <1>1, <1>2

(* A connection has at most one worker, none while it waits to be accepted *)
(* and none after the server closed it, and no buffer overflows: accept    *)
(* hands out each connection once, and handle_client forgets the           *)
(* descriptor it closed.                                                   *)
THEOREM ConnectionsOwned == Spec => []OneOwner
<1>1. OwnerInv => OneOwner
  <2> SUFFICES ASSUME OwnerInv, NEW c \in Clients
               PROVE  LET owners == {w \in Workers : fd[w] = c}
                      IN  /\ Cardinality(owners) <= 1
                          /\ c \in ToSet(backlog) => owners = {}
                          /\ "server" \in half[c] =>
                               owners = {} /\ c \notin ToSet(backlog)
    BY DEF OneOwner, OwnerInv
  <2> DEFINE owners == {w \in Workers : fd[w] = c}
  <2>1. \A v, w \in owners : v = w
    BY NamesAssumption DEF OwnerInv, NotShared
  <2>2. Cardinality(owners) <= 1
    BY <2>1, AtMostOne
  <2>3. ~Accepted(c) => owners = {}
    BY DEF Accepted
  <2> HIDE DEF owners
  <2>4. /\ Waiting(c) => owners = {}
        /\ "server" \in half[c] => owners = {} /\ ~Waiting(c)
    BY <2>3 DEF OwnerInv, Unowned
  <2> QED
    BY <2>2, <2>4 DEF owners, Waiting
<1> QED
  BY <1>1, AlwaysOwnerInv, PTL


(* No request is executed twice, and what client.c takes for answered was  *)
(* executed as long as it never takes a part of a reply for all of it: the *)
(* worker empties its buffer between two requests, and the client sends    *)
(* nothing while it waits.                                                 *)
THEOREM RequestsExactlyOnce == Spec => []ExactlyOnce
<1>1. Inv => ExactlyOnce
  <2> SUFFICES ASSUME Inv, NEW c \in Clients
               PROVE  /\ \A i, j \in DOMAIN executed[c] :
                           i < j => executed[c][i] < executed[c][j]
                      /\ \A i \in DOMAIN executed[c] : executed[c][i] <= sent[c]
                      /\ ~split[c] =>
                           /\ sent[c] <= answered[c] + 1
                           /\ \A n \in 1 .. answered[c] : n \in ToSet(executed[c])
    BY DEF ExactlyOnce
  <2>1. Ordered(c) /\ (~split[c] => Stage(c))
    BY DEF Inv, Progress, ClientInv
  <2>2. answered[c] \in Nat /\ sent[c] \in Nat
    BY DEF Inv, OwnerInv, TypeOK
  <2>3. Stage(c) => /\ sent[c] <= answered[c] + 1
                    /\ \A n \in 1 .. answered[c] : n \in ToSet(executed[c])
    <3>1. Executed(c) => \A n \in 1 .. answered[c] : n \in 1 .. sent[c]
      BY <2>2 DEF Executed
    <3> QED
      BY <2>2, <3>1 DEF Stage, Idle, Asked, Executed, UpTo
  <2> QED
    BY <2>1, <2>3 DEF Ordered, Increasing
<1> QED
  BY <1>1, AlwaysInv, PTL

(* In however many pieces replies come: as long as the client never took a *)
(* part of a reply for all of it, what it is about to read is the reply to *)
(* the request it sent last.                                               *)
THEOREM RepliesMatch == Spec => []ReplyMatches
<1>1. Inv => ReplyMatches
  <2> SUFFICES ASSUME Inv, NEW c \in Clients, client[c] = "receiving", ~split[c],
                      NEW i \in DOMAIN toClient[c]
               PROVE  toClient[c][i].request = sent[c]
    BY DEF ReplyMatches
  <2>1. Stage(c)
    BY DEF Inv, Progress, ClientInv
  <2> QED
    BY <2>1 DEF Stage, Idle, Asked, Executed, PiecesOf
<1> QED
  BY <1>1, AlwaysInv, PTL
=============================================================================
