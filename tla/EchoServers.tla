---------------------------- MODULE EchoServers -----------------------------
(***************************************************************************)
(* The eight echo servers of the repository that run in one thread, each   *)
(* over the kernel and the clients of Kernel.  program says which one it   *)
(* is: what they promise is the same, and what they keep of the promise is *)
(* where they differ.                                                      *)
(***************************************************************************)
EXTENDS ServerReactor, C1000kServers, IoServers

CONSTANT MaxCalls \* bound of the model: connections opened and chunks sent

Programs == {"server_reactor", ET} \cup C1000k \cup Blocking

vars == <<slotVars, sockVars, killed, echoVars>>

Init ==
  /\ \/ init_reactor
     \/ ServerMain \/ Server1Main \/ Server2Main \/ Server3Main
     \/ EpollMain \/ SeleteMain \/ Epoll2Main
  /\ EchoInit

loop ==
  /\ ~killed
  /\ \/ program = "server_reactor" /\ reactor_loop
     \/ program \in C1000k /\ c1000k_loop
     \/ program \in Blocking \cup {ET} /\ io_loop

\* Edges come with what a client does, once its descriptor is watched.
Touches(fd) == edge' = IF program = ET /\ ev[fd].kernel = "in" THEN edge \cup {fd} ELSE edge

\* No server tells one error from another: a reset stands for all of them.
\* Clients connect and send MaxCalls times at most, which bounds the model.
serverFrame == <<clientFrame, buffer, busy, got, sent, overtaken>>

Clients ==
  /\ ~killed
  /\ \/ Connect /\ conns + chunks < MaxCalls /\ UNCHANGED edge
     \/ \E fd \in Fds :
          \/ SendChunk(fd, chunks + 1) /\ conns + chunks < MaxCalls /\ Touches(fd)
          \/ \E how \in {"fin", "rst"} : Leave(fd, how) /\ Touches(fd)
          \/ Drain(fd) /\ UNCHANGED edge
  /\ UNCHANGED serverFrame

Next == loop \/ Clients

Spec == Init /\ [][Next]_vars

(* The thread runs when it can; a client reads what it is sent. *)
FairSpec ==
  /\ Spec
  /\ WF_vars(loop)
  /\ \A fd \in Fds : WF_vars(Drain(fd) /\ UNCHANGED <<serverFrame, edge>>)
-----------------------------------------------------------------------------
Pieces == BoundedSeq(Kinds \cup {0}, BUFFER_LENGTH)

TypeOK ==
  /\ program \in Programs /\ SocketsTypeOK
  /\ ev \in [Fds -> [events : Masks \cup {"none"}, kernel : Masks \cup {"none"}]]
  /\ buffer \in [Fds \cup {0} -> Pieces]
  /\ busy \in open \cup {0} /\ edge \subseteq open
  /\ got \in [Fds -> Seq(Pieces)] /\ sent \in [Fds -> Seq(Pieces)]
  /\ overtaken \subseteq Fds \X (1 .. MaxChunks)

\* server_reactor.c:18, "NOSET_CB means the event is not registered in epoll",
\* and every server's accept and close: every open descriptor is watched,
\* whatever errors its connection had, but for one that is being added, and
\* what server_reactor.c's item says is what it is watched for.
ItemsMatchKernel ==
  \A fd \in Fds :
    /\ fd \in open <=> ev[fd].kernel # "none" \/ busy = fd
    /\ program = "server_reactor" => ev[fd].events = ev[fd].kernel

\* server.c:87-106, 269-275 and 299-306, server2.c:142-146: an open descriptor
\* has its block and its buffers, and server.c frees them with it.
ItemsAllocated ==
  /\ program \in {"server", "server2"} =>
       \A fd \in open : Len(buffer[fd]) = BUFFER_LENGTH
  /\ program = "server" =>
       \A fd \in Fds : IF fd \in open THEN fd \div BlockSize < blkcnt ELSE buffer[fd] = << >>

\* The items, the kernel and the entries in hand agree after every handler.
ItemInv == TypeOK /\ ItemsMatchKernel /\ ItemsAllocated /\ EntriesAreCurrent

\* Something is received and not sent yet.
Pending(fd) == ev[fd].kernel = "out" \/ (busy = fd /\ program \in Blocking)

\* piece may be answered by answer: by itself; by itself and what else the
\* buffer holds, which is the connection's own if the buffer is; or, after an
\* error and where send's result is not looked at, not at all.
Answers(fd, piece, answer) ==
  \/ answer = piece
  \/ answer = << >> /\ (Dead(fd) \/ program = ET)
  \/ /\ program \in C1000k \cup {"server_selete"} /\ IsPrefix(piece, answer)
     /\ program \in {"server", "server2"} =>
          Range(answer) \subseteq {0} \cup UNION {Range(got[fd][i]) : i \in DOMAIN got[fd]}

\* server_reactor.c:133-189, server.c:286-321 and their like: a connection is
\* sent what it gave, piece by piece and in order; what is missing is in the
\* buffer while the descriptor waits to write, unless another connection of
\* server3.c has been received from meanwhile.
EchoesInOrder ==
  \A fd \in open :
    /\ Len(got[fd]) = Len(sent[fd]) + (IF Pending(fd) THEN 1 ELSE 0)
    /\ \A i \in DOMAIN got[fd] :
         <<fd, i>> \notin overtaken =>
           Answers(fd, got[fd][i],
                   IF i \in DOMAIN sent[fd] THEN sent[fd][i]
                   ELSE buffer[IF program \in Blocking THEN 0 ELSE BufferOf(fd)])

\* server1_epoll2.c:60 and 68-87: a descriptor is reported once for what has
\* come, so while there is something to read from it an edge is still to be
\* reported, has been reported, or is being read empty.
NoLostEdge ==
  program = ET =>
    \A fd \in open :
      Readable(fd) => killed \/ fd \in edge \/ busy = fd \/ \E e \in batch : e.fd = fd

\* accept fails with a connection waiting: server.c and its like leave the
\* batch at each epoll_wait, perhaps before they come to anybody else.
OutOfDescriptors == program \in C1000k /\ open = Fds /\ backlog > 0

\* Sent, or received, and neither answered nor given up by the client.
Unanswered ==
  {c \in Kinds :
     \E fd \in open :
       /\ peer[fd] = "up"
       /\ \/ c \in Range(inbox[fd])
          \/ \E i \in DOMAIN got[fd] \ DOMAIN sent[fd] : c \in Range(got[fd][i])}

\* server_reactor.c:133-189, server.c:281-322 and the loops of the others: what
\* clients have sent is answered, unless their connections or the server end
\* first or no descriptor is left.  They send finitely often, so that there is
\* a time when all of it is.
ChunksEchoed == Unanswered # {} ~> (Unanswered = {} \/ killed \/ OutOfDescriptors)

\* Clients that have left or failed and have not been hung up on.
Lingering == {fd \in open : peer[fd] # "up"}

\* server_reactor.c:173-178, server.c:299-306 and the loops of
\* zero_threadpool/io: the descriptors of clients that have left or failed are
\* all closed in the end although most errors are not looked at.  server2.c
\* and server3.c never close one.
FailuresAreClosed ==
  Lingering # {}
    ~> (Lingering = {} \/ killed \/ program \in {"server2", "server3"} \/ OutOfDescriptors)
=============================================================================
