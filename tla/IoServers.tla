----------------------------- MODULE IoServers ------------------------------
(***************************************************************************)
(* The three echo servers of zero_threadpool/io, main's loop in each.      *)
(*                                                                         *)
(* server_epoll.c    level triggered; recv and send block                  *)
(* server_selete.c   select: its sets are ev's interest and batch, which   *)
(*                   it goes through in ascending order, the listening     *)
(*                   socket first                                          *)
(* server1_epoll2.c  lines 1-93, the part that is compiled: nonblocking    *)
(*                   and edge triggered, so that a descriptor is reported  *)
(*                   once for what has come and is read until EAGAIN       *)
(*                                                                         *)
(* server_selete.c sends strlen(buf) + 1 bytes of a buffer it never        *)
(* clears: a piece, which has no NUL in it here, and any part of what      *)
(* older pieces have left behind it.  What is behind the buffer itself is  *)
(* not modelled.                                                           *)
(***************************************************************************)
EXTENDS Echo

Blocking == {"server_epoll", "server_selete"}
ET       == "server1_epoll2"

\* Each main up to its loop: the listening socket is watched, and no client.
EpollMain  == program = "server_epoll" /\ blkcnt = 0
SeleteMain == program = "server_selete" /\ blkcnt = 0
Epoll2Main == program = ET /\ blkcnt = 0

\* select's loop takes the lowest descriptor that is left.
InTurn(fd) == program = "server_selete" => \A e \in batch : fd <= e.fd

IoWait == program \in Blocking /\ busy = 0 /\ epoll_wait /\ UNCHANGED echoVars

IoAccept ==
  /\ busy = 0 /\ Listener \in batch /\ program \in Blocking
  /\ batch' = batch \ {Listener}
  /\ \E fd \in Fds : Accepted(fd) /\ ev' = [ev EXCEPT ![fd].kernel = "in"]
  /\ UNCHANGED <<program, blkcnt, killed, echoVars>>

\* accept returns -1, which select's server looks at; the others' epoll_ctl
\* fails on it.
AcceptExits ==
  /\ busy = 0 /\ Listener \in batch /\ open = Fds
  /\ batch' = batch \ {Listener}
  /\ Ends

\* cnt > 0.
IoRecv(fd) ==
  /\ busy = 0 /\ InTurn(fd) /\ Handle(fd, "in") /\ program \in Blocking
  /\ busy' = fd
  /\ \E ret \in Received(fd) :
       /\ Receives(fd, ret)
       /\ buffer' = [buffer EXCEPT ![0] =
                       IF program = "server_epoll" THEN ret
                       ELSE ret \o SubSeq(@, Len(ret) + 1, Len(@))]
  /\ UNCHANGED <<frame, ev, peer, stalled, killed, edge, overtaken, sent>>

\* What the send after it is given: cnt bytes, or those up to the first NUL.
Given(fd) ==
  IF program = "server_epoll" THEN {buffer[0]}
  ELSE {SubSeq(buffer[0], 1, n) : n \in Len(Last(got[fd])) .. BUFFER_LENGTH}

\* The thread waits in send for room.
IoSend(fd) ==
  /\ busy = fd /\ program \in Blocking
  /\ \/ /\ ~Dead(fd) /\ fd \notin stalled /\ Filled(fd) /\ UNCHANGED peer
        /\ \E piece \in Given(fd) : Sends(fd, piece)
     \/ SendFails(fd) /\ Sends(fd, << >>) /\ Reported(fd) /\ UNCHANGED stalled
  /\ busy' = 0
  /\ UNCHANGED <<frame, batch, ev, inbox, killed, buffer, edge, overtaken, got>>

IoSendKills(fd) == busy = fd /\ program \in Blocking /\ SendKills(fd) /\ UNCHANGED batch /\ Ends

\* Mutant: FD_CLR or EPOLL_CTL_DEL without close.
IoEndKeepsOpen(fd) ==
  /\ busy = 0 /\ InTurn(fd) /\ Handle(fd, "in") /\ program \in Blocking
  /\ ReceivesEnd(fd)
  /\ ev' = [ev EXCEPT ![fd].kernel = "none"]
  /\ UNCHANGED <<frame, peer, inbox, stalled, killed, echoVars>>

\* cnt = 0.
IoEnd(fd) ==
  /\ busy = 0 /\ InTurn(fd) /\ Handle(fd, "in") /\ program \in Blocking
  /\ ReceivesEnd(fd)
  /\ ev' = [ev EXCEPT ![fd].kernel = "none"]
  /\ Hangup(fd)
  /\ UNCHANGED <<program, blkcnt, killed, buffer, busy>>

\* cnt = -1: server_epoll.c exits, server_selete.c goes on.
IoError(fd) ==
  /\ busy = 0 /\ InTurn(fd) /\ Handle(fd, "in") /\ program \in Blocking
  /\ ReceivesError(fd)
  /\ \/ program = "server_epoll" /\ Ends
     \/ /\ program = "server_selete" /\ Reported(fd)
        /\ UNCHANGED <<ev, frame, inbox, stalled, killed, echoVars>>
-----------------------------------------------------------------------------
(* Edge triggered *)

\* Descriptors whose edge has come to nothing in the meantime are not reported.
EtWait ==
  /\ program = ET /\ busy = 0 /\ batch = {}
  /\ batch' = {e \in Ready : e = Listener \/ e.fd \in edge} /\ batch' # {}
  /\ edge' = {}
  /\ UNCHANGED <<program, ev, blkcnt, killed, sockVars, buffer, busy, got, sent, overtaken>>

\* accept and fcntl; the descriptor is not in the interest list yet.
EtAccept ==
  /\ program = ET /\ busy = 0 /\ Listener \in batch
  /\ batch' = batch \ {Listener}
  /\ \E fd \in Fds : Accepted(fd) /\ busy' = fd
  /\ UNCHANGED <<program, ev, blkcnt, killed, buffer, edge, got, sent, overtaken>>

\* EPOLL_CTL_ADD reports what has come before it.
EtAdd(fd) ==
  /\ program = ET /\ busy = fd /\ ev[fd].kernel = "none"
  /\ busy' = 0
  /\ ev' = [ev EXCEPT ![fd].kernel = "in"]
  /\ edge' = IF Readable(fd) THEN edge \cup {fd} ELSE edge
  /\ UNCHANGED <<program, blkcnt, batch, killed, sockVars, buffer, got, sent, overtaken>>

\* The inner loop begins.
EtBegin(fd) ==
  /\ program = ET /\ busy = 0 /\ Handle(fd, "in")
  /\ busy' = fd
  /\ UNCHANGED <<program, ev, blkcnt, killed, sockVars, buffer, edge, got, sent, overtaken>>

Draining(fd) == program = ET /\ busy = fd /\ ev[fd].kernel = "in"

\* What is received is sent on without looking at what send returns: with no
\* room, or after an error, it is dropped.
EtEchoes(fd) ==
  /\ \E ret \in Received(fd) :
       /\ Receives(fd, ret)
       /\ \/ ~Dead(fd) /\ fd \notin stalled /\ Sends(fd, ret) /\ Filled(fd) /\ UNCHANGED peer
          \/ ~Dead(fd) /\ fd \in stalled /\ Sends(fd, << >>) /\ UNCHANGED <<stalled, peer>>
          \/ SendFails(fd) /\ Sends(fd, << >>) /\ Reported(fd) /\ UNCHANGED stalled
  /\ UNCHANGED <<frame, batch, ev, killed, buffer, edge, overtaken>>

\* Mutant: one recv for every edge.
EtEchoOnce(fd) == Draining(fd) /\ EtEchoes(fd) /\ busy' = 0

EtEcho(fd) == Draining(fd) /\ EtEchoes(fd) /\ UNCHANGED busy

EtEchoKills(fd) ==
  Draining(fd) /\ inbox[fd] # << >> /\ SendKills(fd) /\ UNCHANGED batch /\ Ends

\* EAGAIN.
EtAgain(fd) ==
  /\ Draining(fd) /\ inbox[fd] = << >> /\ peer[fd] = "up"
  /\ busy' = 0
  /\ UNCHANGED <<program, ev, blkcnt, batch, killed, sockVars, buffer, edge, got, sent, overtaken>>

\* Another error ends the program.  So does the client's end: the descriptor is
\* closed, the loop goes on, and the next recv fails with EBADF.
EtExits(fd) ==
  /\ Draining(fd) /\ (ReceivesEnd(fd) \/ ReceivesError(fd))
  /\ UNCHANGED batch /\ Ends

io_loop ==
  \/ IoWait \/ IoAccept \/ AcceptExits \/ EtWait \/ EtAccept
  \/ \E fd \in Fds :
       \/ IoRecv(fd) \/ IoSend(fd) \/ IoSendKills(fd) \/ IoEnd(fd) \/ IoError(fd)
       \/ EtAdd(fd) \/ EtBegin(fd) \/ EtEcho(fd) \/ EtEchoKills(fd) \/ EtAgain(fd) \/ EtExits(fd)
=============================================================================
