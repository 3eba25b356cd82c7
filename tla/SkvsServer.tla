----------------------------- MODULE SkvsServer -----------------------------
(***************************************************************************)
(* The key-value service of lab5: the worker threads of server.c, its main *)
(* thread, the SIGINT handler, and the clients of client.c, connected by   *)
(* TCP streams.                                                            *)
(*                                                                         *)
(* A stream carries segments, not messages: a request or a reply may arrive*)
(* in several pieces and recv takes any non-empty number of the pieces     *)
(* that are there.  skvs_serve is one step, because HashTable shows that   *)
(* each operation takes effect at once; what is kept of its effect is      *)
(* which requests of a client were executed.                               *)
(*                                                                         *)
(* A worker at accept, recv or send is inside that call or about to test   *)
(* g_shutdown before it: the test does not depend on the call, and nobody  *)
(* sees which of the two it is.                                            *)
(***************************************************************************)
EXTENDS Integers, Sequences, SequencesExt, FiniteSets

CONSTANTS Clients, Workers,
          MaxRequests,    \* requests each client sends at most
          ReplySegments,  \* pieces in which a reply may arrive
          SendRoom,       \* pieces that fill a socket's send buffer
          BUFFER_SIZE,    \* segments that fill the receive buffer
          CallsMayFail    \* may accept, recv, send fail on their own account?

ASSUME SizesAssumption ==
  /\ MaxRequests \in [Clients -> Nat] /\ ReplySegments \in Nat \ {0}
  /\ SendRoom \in Nat \ {0}
  /\ BUFFER_SIZE \in Nat /\ BUFFER_SIZE >= 2
  /\ CallsMayFail \in BOOLEAN

VARIABLES
  g_shutdown,  \* the flag the SIGINT handler sets
  main,        \* main thread: "joining" the workers, then "destroyed";
               \* or the process has "died"
  pc, fd,      \* each worker's next statement, and the client it serves
  rbuf, wbuf,  \* each worker's receive buffer and the reply to send
  backlog,     \* connections that no worker has accepted, oldest first
  toServer,    \* the segments under way in each direction
  toClient,
  half,        \* each connection: which ends are closed
  client,      \* each client's next statement
  sent,        \* requests each client sent
  executed,    \* the requests of each client that skvs_serve executed
  answered,    \* replies each client took for complete
  split        \* history: has the client taken part of a reply for all of it?

serverVars == <<main, pc, fd, rbuf, wbuf>>
netVars == <<backlog, toServer, toClient, half>>
clientVars == <<client, sent, answered, split>>
vars == <<g_shutdown, serverVars, netVars, clientVars, executed>>

Nobody == "nobody"
ASSUME NamesAssumption == Clients \cap Workers = {} /\ Nobody \notin Clients

Segment(n, lf) == [request |-> n, lf |-> lf, empty |-> FALSE]

(* The requests a client may send as its n-th: a line in one or several    *)
(* pieces, up to one that just fills the buffer; what fgets hands out      *)
(* without a line feed, which is the start of a line longer than           *)
(* BUFFER_SIZE bytes, or a last line that has no end; and what client.c    *)
(* does not send but other clients may: the whole of a line too long for   *)
(* the buffer, and an empty line.                                          *)
Line(n, pieces) == [i \in 1 .. pieces |-> Segment(n, i = pieces)]
Unended(n, pieces) == [i \in 1 .. pieces |-> Segment(n, FALSE)]
EmptyLine(n) == <<[request |-> n, lf |-> TRUE, empty |-> TRUE]>>
Messages(n) ==
  {Line(n, pieces) : pieces \in 1 .. BUFFER_SIZE + 1}
    \union {Unended(n, pieces) : pieces \in 1 .. BUFFER_SIZE}
    \union {EmptyLine(n)}

Reply(n) == [i \in 1 .. ReplySegments |-> Segment(n, i = ReplySegments)]

Init ==
  /\ g_shutdown = FALSE
  /\ main = "joining"
  /\ pc = [w \in Workers |-> "accept"]
  /\ fd = [w \in Workers |-> Nobody]
  /\ rbuf = [w \in Workers |-> <<>>]
  /\ wbuf = [w \in Workers |-> <<>>]
  /\ backlog = <<>>
  /\ toServer = [c \in Clients |-> <<>>]
  /\ toClient = [c \in Clients |-> <<>>]
  /\ half = [c \in Clients |-> {}]
  /\ client = [c \in Clients |-> "start"]
  /\ sent = [c \in Clients |-> 0]
  /\ executed = [c \in Clients |-> <<>>]
  /\ answered = [c \in Clients |-> 0]
  /\ split = [c \in Clients |-> FALSE]

Goto(w, label) == pc' = [pc EXCEPT ![w] = label]

(* goto close_and_continue, or break: the buffers are the session's.       *)
EndSession(w) ==
  /\ Goto(w, "close")
  /\ rbuf' = [rbuf EXCEPT ![w] = <<>>]
  /\ wbuf' = [wbuf EXCEPT ![w] = <<>>]

(* total_recv is 0 for the next request.  Mutant: it is not.               *)
NextRequestMutKeepsBuffer(w) == Goto(w, "recv") /\ UNCHANGED rbuf
NextRequest(w) == Goto(w, "recv") /\ rbuf' = [rbuf EXCEPT ![w] = <<>>]

-----------------------------------------------------------------------------
(* handle_client: the outer loop.  accept gets a connection; without one   *)
(* it returns after the time-out of the listening socket, or with a signal,*)
(* and is called again.                                                    *)
Accept(w) ==
  /\ pc[w] = "accept"
  /\ backlog /= <<>>
  /\ fd' = [fd EXCEPT ![w] = Head(backlog)]
  /\ backlog' = Tail(backlog)
  /\ NextRequest(w)
  /\ UNCHANGED <<g_shutdown, main, wbuf, toServer, toClient, half,
                 clientVars, executed>>

(* Mutant: without the test of g_shutdown.                                 *)
LeaveMutForEver(w) ==
  /\ pc[w] = "accept" /\ g_shutdown
  /\ Goto(w, "accept")
  /\ UNCHANGED <<g_shutdown, main, fd, rbuf, wbuf, netVars, clientVars, executed>>

Leave(w) ==
  /\ pc[w] = "accept" /\ g_shutdown
  /\ Goto(w, "exited")
  /\ UNCHANGED <<g_shutdown, main, fd, rbuf, wbuf, netVars, clientVars, executed>>

(* Any other errno ends the loop, and with it the worker.                  *)
AcceptError(w) ==
  /\ CallsMayFail
  /\ pc[w] = "accept"
  /\ Goto(w, "exited")
  /\ UNCHANGED <<g_shutdown, main, fd, rbuf, wbuf, netVars, clientVars, executed>>

-----------------------------------------------------------------------------
(* The inner loop: one request, one reply.                                 *)

(* What follows a successful recv: go on until the buffer ends in a line   *)
(* feed; nothing but a line feed closes the connection.                    *)
AfterRecv(buf) ==
  IF ~Last(buf).lf THEN "recv"
  ELSE IF Len(buf) = 1 /\ buf[1].empty THEN "close" ELSE "serve"

(* Room for k more.                                                        *)
Fits(buf, k) == Len(buf) + k <= BUFFER_SIZE

Recv(w) ==
  /\ pc[w] = "recv"
  /\ \E k \in 1 .. Len(toServer[fd[w]]) :
       /\ Fits(rbuf[w], k)
       /\ LET buf == rbuf[w] \o SubSeq(toServer[fd[w]], 1, k)
          IN  /\ rbuf' = [rbuf EXCEPT ![w] = buf]
              /\ Goto(w, AfterRecv(buf))
       /\ toServer' = [toServer EXCEPT ![fd[w]] = SubSeq(@, k + 1, Len(@))]
  /\ UNCHANGED <<g_shutdown, main, fd, wbuf, backlog, toClient, half,
                 clientVars, executed>>

Full(w) == Len(rbuf[w]) = BUFFER_SIZE
Gone(c) == "client" \in half[c]

(* recv returns 0: the peer closed its end and nothing is left to read, or *)
(* the buffer is full and no byte was asked for.  Mutant: 0 is handled as  *)
(* a timeout is.                                                           *)
RecvZeroMutRetries(w) ==
  /\ pc[w] = "recv"
  /\ Full(w) \/ (Gone(fd[w]) /\ toServer[fd[w]] = <<>>)
  /\ Goto(w, "recv")
  /\ UNCHANGED <<g_shutdown, main, fd, rbuf, wbuf, netVars, clientVars, executed>>

RecvZero(w) ==
  /\ pc[w] = "recv"
  /\ Full(w) \/ (Gone(fd[w]) /\ toServer[fd[w]] = <<>>)
  /\ EndSession(w)
  /\ UNCHANGED <<g_shutdown, main, fd, netVars, clientVars, executed>>

(* The connection was reset by a client that is gone, or another error.    *)
RecvError(w) ==
  /\ pc[w] = "recv"
  /\ Gone(fd[w]) \/ CallsMayFail
  /\ EndSession(w)
  /\ UNCHANGED <<g_shutdown, main, fd, netVars, clientVars, executed>>

(* recv has a time-out of its own, and the loop ends after Ctrl+C:         *)
(* skvs_serve gets what has arrived so far.                                *)
RecvInterrupted(w) ==
  /\ pc[w] = "recv" /\ g_shutdown
  /\ Goto(w, "serve")
  /\ UNCHANGED <<g_shutdown, main, fd, rbuf, wbuf, netVars, clientVars, executed>>

(* skvs_serve: the first line of the buffer is executed and answered;      *)
(* without a line feed it returns 0 and the connection is closed.          *)
LineFeeds(buf) == {i \in DOMAIN buf : buf[i].lf}
Serve(w) ==
  /\ pc[w] = "serve"
  /\ \/ \E i \in LineFeeds(rbuf[w]) :
          /\ \A j \in LineFeeds(rbuf[w]) : i <= j
          /\ executed' = [executed EXCEPT ![fd[w]] = Append(@, rbuf[w][i].request)]
          /\ wbuf' = [wbuf EXCEPT ![w] = Reply(rbuf[w][i].request)]
          /\ Goto(w, "send") /\ UNCHANGED rbuf
     \/ /\ LineFeeds(rbuf[w]) = {}
        /\ EndSession(w) /\ UNCHANGED executed
  /\ UNCHANGED <<g_shutdown, main, fd, netVars, clientVars>>

(* What is sent to a client that is gone is lost.                          *)
Delivered(c, pieces) ==
  IF Gone(c) THEN toClient ELSE [toClient EXCEPT ![c] = @ \o pieces]

(* send copies the reply to the socket as there is room, and has no        *)
(* time-out: it blocks as long as the client does not read.  Mutant: the   *)
(* same buffer is served again.                                            *)
SendMutServesAgain(w) ==
  /\ pc[w] = "send"
  /\ \E k \in 1 .. Len(wbuf[w]) :
       /\ Len(toClient[fd[w]]) + k <= SendRoom
       /\ toClient' = Delivered(fd[w], SubSeq(wbuf[w], 1, k))
       /\ wbuf' = [wbuf EXCEPT ![w] = SubSeq(@, k + 1, Len(@))]
       /\ IF k = Len(wbuf[w])
          THEN Goto(w, "serve") /\ UNCHANGED rbuf
          ELSE UNCHANGED <<pc, rbuf>>
  /\ UNCHANGED <<g_shutdown, main, fd, backlog, toServer, half, clientVars,
                 executed>>

Send(w) ==
  /\ pc[w] = "send"
  /\ \E k \in 1 .. Len(wbuf[w]) :
       /\ Len(toClient[fd[w]]) + k <= SendRoom
       /\ toClient' = Delivered(fd[w], SubSeq(wbuf[w], 1, k))
       /\ wbuf' = [wbuf EXCEPT ![w] = SubSeq(@, k + 1, Len(@))]
       /\ IF k = Len(wbuf[w])
          THEN NextRequest(w)
          ELSE UNCHANGED <<pc, rbuf>>
  /\ UNCHANGED <<g_shutdown, main, fd, backlog, toServer, half, clientVars,
                 executed>>

(* Ctrl+C before the call, or a signal has interrupted it: both loops end  *)
(* and the rest of the reply is dropped.                                   *)
SendInterrupted(w) ==
  /\ pc[w] = "send" /\ g_shutdown
  /\ EndSession(w)
  /\ UNCHANGED <<g_shutdown, main, fd, netVars, clientVars, executed>>

(* The client is gone: ECONNRESET.                                         *)
SendReset(w) ==
  /\ pc[w] = "send"
  /\ Gone(fd[w])
  /\ EndSession(w)
  /\ UNCHANGED <<g_shutdown, main, fd, netVars, clientVars, executed>>

(* The process ends, and the kernel closes all its connections.            *)
Die ==
  /\ main' = "died"
  /\ pc' = [w \in Workers |-> "exited"]
  /\ fd' = [w \in Workers |-> Nobody]
  /\ rbuf' = [w \in Workers |-> <<>>]
  /\ wbuf' = [w \in Workers |-> <<>>]
  /\ half' = [c \in Clients |->
       IF c \in ToSet(backlog) \/ \E w \in Workers : fd[w] = c
       THEN half[c] \union {"server"} ELSE half[c]]
  /\ backlog' = <<>>
  /\ UNCHANGED <<g_shutdown, toServer, toClient, clientVars, executed>>

(* The client is gone and the connection was reset before: nobody handles  *)
(* the SIGPIPE that comes with EPIPE.  Or another error: exit.             *)
SendFatal(w) ==
  /\ pc[w] = "send"
  /\ Gone(fd[w]) \/ CallsMayFail
  /\ Die

(* Mutant: the worker stays in the session it closed.                      *)
CloseConnectionMutStays(w) ==
  /\ pc[w] = "close"
  /\ half' = [half EXCEPT ![fd[w]] = @ \union {"server"}]
  /\ toServer' = [toServer EXCEPT ![fd[w]] = <<>>]
  /\ Goto(w, "recv")
  /\ UNCHANGED <<g_shutdown, main, fd, rbuf, wbuf, backlog, toClient,
                 clientVars, executed>>

CloseConnection(w) ==
  /\ pc[w] = "close"
  /\ half' = [half EXCEPT ![fd[w]] = @ \union {"server"}]
  /\ toServer' = [toServer EXCEPT ![fd[w]] = <<>>]
  /\ fd' = [fd EXCEPT ![w] = Nobody]
  /\ Goto(w, "accept")
  /\ UNCHANGED <<g_shutdown, main, rbuf, wbuf, backlog, toClient, clientVars,
                 executed>>

-----------------------------------------------------------------------------
(* SIGINT.                                                                 *)
HandleSigint ==
  /\ ~g_shutdown /\ main = "joining"
  /\ g_shutdown' = TRUE
  /\ UNCHANGED <<serverVars, netVars, clientVars, executed>>

(* main after the last pthread_join: the listening socket is closed, which *)
(* resets the connections that nobody accepted, and the table is dumped    *)
(* and destroyed.                                                          *)
Destroy ==
  /\ main = "joining"
  /\ \A w \in Workers : pc[w] = "exited"
  /\ main' = "destroyed"
  /\ half' = [c \in Clients |->
       IF c \in ToSet(backlog) THEN half[c] \union {"server"} ELSE half[c]]
  /\ backlog' = <<>>
  /\ UNCHANGED <<g_shutdown, pc, fd, rbuf, wbuf, toServer, toClient,
                 clientVars, executed>>

-----------------------------------------------------------------------------
(* client.c: connect, then send a line and receive, until the input ends.  *)
Connect(c) ==
  /\ client[c] = "start"
  /\ main = "joining"
  /\ backlog' = Append(backlog, c)
  /\ client' = [client EXCEPT ![c] = "ready"]
  /\ UNCHANGED <<g_shutdown, serverVars, toServer, toClient, half, sent,
                 answered, split, executed>>

ClientSend(c) ==
  /\ client[c] = "ready"
  /\ sent[c] < MaxRequests[c]
  /\ \E m \in Messages(sent[c] + 1) :
       toServer' = [toServer EXCEPT ![c] = @ \o m]
  /\ sent' = [sent EXCEPT ![c] = @ + 1]
  /\ client' = [client EXCEPT ![c] = "receiving"]
  /\ UNCHANGED <<g_shutdown, serverVars, backlog, toClient, half, answered,
                 split, executed>>

(* One recv, whatever it returns, counts as the reply.                     *)
ClientRecv(c) ==
  /\ client[c] = "receiving"
  /\ \E k \in 1 .. Len(toClient[c]) :
       /\ toClient' = [toClient EXCEPT ![c] = SubSeq(@, k + 1, Len(@))]
       /\ split' = [split EXCEPT ![c] = @ \/ ~toClient[c][k].lf]
  /\ answered' = [answered EXCEPT ![c] = @ + 1]
  /\ client' = [client EXCEPT ![c] = "ready"]
  /\ UNCHANGED <<g_shutdown, serverVars, backlog, toServer, half, sent,
                 executed>>

(* The end of the input or an empty line while the client is ready, or     *)
(* recv finding the connection closed; a client may also be killed while   *)
(* it waits.                                                               *)
ClientClose(c) ==
  /\ client[c] \in {"ready", "receiving"}
  /\ client' = [client EXCEPT ![c] = "done"]
  /\ half' = [half EXCEPT ![c] = @ \union {"client"}]
  /\ toClient' = [toClient EXCEPT ![c] = <<>>]
  /\ UNCHANGED <<g_shutdown, serverVars, backlog, toServer, sent, answered,
                 split, executed>>

-----------------------------------------------------------------------------
Serving(w) ==
  \/ Accept(w) \/ Leave(w)
  \/ Recv(w) \/ RecvZero(w) \/ RecvInterrupted(w)
  \/ Serve(w) \/ Send(w) \/ CloseConnection(w)
Trouble(w) ==
  \/ AcceptError(w) \/ RecvError(w)
  \/ SendInterrupted(w) \/ SendReset(w) \/ SendFatal(w)
WorkerStep(w) == Serving(w) \/ Trouble(w)
ClientStep(c) ==
  Connect(c) \/ ClientSend(c) \/ ClientRecv(c) \/ ClientClose(c)

Next ==
  \/ \E w \in Workers : WorkerStep(w)
  \/ \E c \in Clients : ClientStep(c)
  \/ HandleSigint \/ Destroy

Spec == Init /\ [][Next]_vars

(* The threads of the server run, and accept and recv have time-outs.      *)
(* Nothing is assumed of the clients, nor that anybody presses Ctrl+C, nor *)
(* that a call fails or a send is interrupted.                             *)
FairSpec ==
  /\ Spec
  /\ WF_vars(Destroy)
  /\ \A w \in Workers : WF_vars(Serving(w))

-----------------------------------------------------------------------------
WorkerStates == {"accept", "recv", "serve", "send", "close", "exited"}
Segments == [request : Nat, lf : BOOLEAN, empty : BOOLEAN]

TypeOK ==
  /\ g_shutdown \in BOOLEAN
  /\ main \in {"joining", "destroyed", "died"}
  /\ pc \in [Workers -> WorkerStates]
  /\ fd \in [Workers -> Clients \union {Nobody}]
  /\ rbuf \in [Workers -> Seq(Segments)]
  /\ \A w \in Workers : Len(rbuf[w]) <= BUFFER_SIZE
  /\ wbuf \in [Workers -> Seq(Segments)]
  /\ backlog \in Seq(Clients)
  /\ toServer \in [Clients -> Seq(Segments)]
  /\ toClient \in [Clients -> Seq(Segments)]
  /\ half \in [Clients -> SUBSET {"client", "server"}]
  /\ client \in [Clients -> {"start", "ready", "receiving", "done"}]
  /\ sent \in [Clients -> Nat]
  /\ executed \in [Clients -> Seq(Nat)]
  /\ answered \in [Clients -> Nat]
  /\ split \in [Clients -> BOOLEAN]

(* Everything has its type (no buffer overflows), and a connection has one *)
(* owner: it is in the backlog once, or with exactly one worker, or closed *)
(* by the server (the file descriptor could be reused by then).            *)
OneOwner ==
  /\ TypeOK
  /\ \A c \in Clients :
       LET owners == {w \in Workers : fd[w] = c}
       IN  /\ Cardinality(owners) <= 1
           /\ c \in ToSet(backlog) => owners = {}
           /\ "server" \in half[c] => owners = {} /\ c \notin ToSet(backlog)

(* No request is executed twice, none before it was sent and none after a  *)
(* later one, whatever a client takes for a reply.  If it took no part of a*)
(* reply for all of it, all requests it has a reply to were executed: only *)
(* its last request is in doubt, also when the server shuts down or dies,  *)
(* or a request is cut into pieces.                                        *)
ExactlyOnce == \A c \in Clients :
  /\ \A i, j \in DOMAIN executed[c] : i < j => executed[c][i] < executed[c][j]
  /\ \A i \in DOMAIN executed[c] : executed[c][i] <= sent[c]
  /\ ~split[c] => /\ sent[c] <= answered[c] + 1
                  /\ \A n \in 1 .. answered[c] : n \in ToSet(executed[c])

(* What a client is about to read is the reply to its last request, unless *)
(* it has taken part of a reply for all of it before.                      *)
ReplyMatches == \A c \in Clients :
  client[c] = "receiving" /\ ~split[c] =>
    \A i \in DOMAIN toClient[c] : toClient[c][i].request = sent[c]

(* Ctrl+C ends the service: all workers finish and the table is destroyed, *)
(* or the process dies; unless a worker stays for ever in the send to a    *)
(* client that does not read.                                              *)
ShutdownCompletes ==
  g_shutdown ~>
    main /= "joining" \/ \E w \in Workers : [](pc[w] = "send" /\ ~Gone(fd[w]))

(* The client waits for a reply, and its worker for the end of a line that *)
(* the client has sent without one.                                        *)
WaitForEachOther(c) == \E w \in Workers :
  /\ fd[w] = c /\ pc[w] = "recv" /\ toServer[c] = <<>>
  /\ rbuf[w] /= <<>> /\ ~Full(w)

(* No worker is left for the client: each has stopped or another client.   *)
NoWorker(c) ==
  \A w \in Workers : pc[w] = "exited" \/ fd[w] \notin {c, Nobody}

(* A client that waits for a reply gets one, or the server closes the      *)
(* connection, or the client gives up; unless no worker is left for it, or *)
(* it and its worker wait for each other because its last line has no end. *)
RequestsAnswered == \A c \in Clients :
  client[c] = "receiving" ~>
    \/ client[c] /= "receiving" \/ toClient[c] /= <<>> \/ "server" \in half[c]
    \/ NoWorker(c) \/ WaitForEachOther(c)
=============================================================================
