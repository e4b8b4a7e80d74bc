--------------------------- MODULE C1000kServers ----------------------------
(***************************************************************************)
(* The four c1000k servers of zero_threadpool/reactor/c1000k, main's loop  *)
(* in each.  What is received is copied to a second buffer, and that       *)
(* buffer is sent whole, whatever was received: behind a short piece stand *)
(* the bytes of an earlier one.  The two buffers are equal from the copy   *)
(* on, and buffer is either.                                               *)
(*                                                                         *)
(* server.c    an item per descriptor in blocks that are allocated when    *)
(*             needed; the buffers are allocated by accept, freed by close *)
(* server1.c   the same, but its block list is never begun                 *)
(* server2.c   one table of items, and no connection is ever closed        *)
(* server3.c   one buffer for all connections, none of which is closed     *)
(*                                                                         *)
(* Only server.c's sockets are nonblocking; in the others too a call is    *)
(* only made when epoll has reported that it can proceed.  Descriptors     *)
(* stay below EVENTS_LENGTH, the size of server2.c's table.                *)
(***************************************************************************)
EXTENDS Echo

C1000k == {"server", "server1", "server2", "server3"}

\* Each main up to its loop: the listening socket is watched; server.c has no
\* block yet, server2.c the one there is, the others none that matters.
ServerMain  == program = "server" /\ blkcnt = 0
Server1Main == program = "server1" /\ blkcnt = 0
Server2Main == program = "server2" /\ blkcnt = 1
Server3Main == program = "server3" /\ blkcnt = 0

\* Mutant: every connection's, as in server3.c.
BufferShared(fd) == 0

\* Whose buffer a descriptor's piece goes through.
BufferOf(fd) == IF program = "server3" THEN 0 ELSE fd

NewBuffers(fd) ==
  IF program = "server3" THEN buffer ELSE [buffer EXCEPT ![fd] = Zeroes]

\* reactor_lookup allocates server.c's blocks.
ItemOf(fd) == IF program = "server" THEN BlocksFor(fd) ELSE UNCHANGED blkcnt

AcceptConn ==
  /\ Listener \in batch /\ program # "server1"
  /\ batch' = batch \ {Listener}
  /\ \E fd \in Fds :
       /\ Accepted(fd) /\ ItemOf(fd)
       /\ ev' = [ev EXCEPT ![fd].kernel = "in"]
       /\ buffer' = NewBuffers(fd)
  /\ UNCHANGED <<program, killed, ioVars, got, sent>>

\* server1.c: evblk is NULL, so is what reactor_lookup returns, and the item is
\* written to.
AcceptCrashes ==
  /\ Listener \in batch /\ program = "server1" /\ open # Fds
  /\ batch' = batch \ {Listener}
  /\ Ends

\* accept returns -1: the rest of the batch is left for the next epoll_wait.
AcceptBreaks ==
  /\ Listener \in batch /\ open = Fds
  /\ batch' = {}
  /\ UNCHANGED <<program, ev, blkcnt, killed, sockVars, echoVars>>

\* Over the first bytes of the buffer goes what was received.
Overwrite(old, ret) == ret \o SubSeq(old, Len(ret) + 1, Len(old))

\* The pieces between recv and send, which a shared buffer loses.
Overtakes(fd) ==
  overtaken' = IF program = "server3"
               THEN overtaken \cup {<<f, Len(got[f])>> : f \in {f \in open : ev[f].kernel = "out"}}
               ELSE overtaken

\* Mutant: the descriptor goes on being watched for input.
InKeepsReading(fd) ==
  /\ Handle(fd, "in")
  /\ \E ret \in Received(fd) :
       /\ Receives(fd, ret)
       /\ buffer' = [buffer EXCEPT ![BufferOf(fd)] = Overwrite(@, ret)]
  /\ Overtakes(fd)
  /\ UNCHANGED <<ev, frame, busy, edge, peer, stalled, killed, sent>>

\* n > 0.
InReceives(fd) ==
  /\ Handle(fd, "in")
  /\ \E ret \in Received(fd) :
       /\ Receives(fd, ret)
       /\ buffer' = [buffer EXCEPT ![BufferOf(fd)] = Overwrite(@, ret)]
  /\ Overtakes(fd)
  /\ ev' = [ev EXCEPT ![fd].kernel = "out"]
  /\ UNCHANGED <<frame, busy, edge, peer, stalled, killed, sent>>

\* n = 0 in server.c.  The item keeps its dangling pointers.
InEnds(fd) ==
  /\ Handle(fd, "in") /\ ReceivesEnd(fd) /\ program = "server"
  /\ ev' = [ev EXCEPT ![fd] = CloseSlot(@)]
  /\ Hangup(fd)
  /\ buffer' = [buffer EXCEPT ![fd] = << >>]
  /\ UNCHANGED <<program, blkcnt, killed, busy>>

\* n = 0 is nothing to server2.c and server3.c, n = -1 to none of them.
InIgnored(fd) ==
  /\ Handle(fd, "in")
  /\ \/ ReceivesEnd(fd) /\ program # "server" /\ UNCHANGED peer
     \/ ReceivesError(fd) /\ Reported(fd)
  /\ UNCHANGED <<ev, frame, inbox, stalled, killed, echoVars>>

\* The descriptor is turned back to input whatever send returned.
Out(fd) ==
  /\ Handle(fd, "out")
  /\ \/ ~Dead(fd) /\ Sends(fd, buffer[BufferOf(fd)]) /\ Filled(fd) /\ UNCHANGED peer
     \/ SendFails(fd) /\ Sends(fd, << >>) /\ Reported(fd) /\ UNCHANGED stalled
  /\ ev' = [ev EXCEPT ![fd].kernel = "in"]
  /\ UNCHANGED <<frame, ioVars, inbox, killed, buffer, got>>

OutKills(fd) == Handle(fd, "out") /\ SendKills(fd) /\ Ends

c1000k_loop ==
  \/ epoll_wait /\ UNCHANGED echoVars
  \/ AcceptConn \/ AcceptCrashes \/ AcceptBreaks
  \/ \E fd \in Fds :
       \/ InReceives(fd) \/ InEnds(fd) \/ InIgnored(fd)
       \/ Out(fd) \/ OutKills(fd)
=============================================================================
