--------------------------- MODULE ServerReactor ----------------------------
(***************************************************************************)
(* The echo server of zero_threadpool/reactor/server_reactor.c.  Its items *)
(* have no status: events alone says whether a descriptor is in the        *)
(* interest list and for what.  ev holds these items, buffer their         *)
(* sbuffer; there is one block of items.                                   *)
(*                                                                         *)
(* The sockets block, but a callback only reads or accepts when epoll has  *)
(* reported something, and only writes when there is room for more than a  *)
(* buffer, so a callback is one step.  A connection that is given up stays *)
(* in Linux's backlog and is accepted.  SIGPIPE is not ignored.            *)
(***************************************************************************)
EXTENDS Echo

\* One block of items, none of them set, and the listening socket's accept_cb.
init_reactor == program = "server_reactor" /\ blkcnt = 1

\* EPOLL_CTL_ADD for an item that is not set, MOD for another event; the one
\* fails on a descriptor in the interest list, the other on one that is not.
nreactor_set_event(item, event) ==
  CASE item.events = "none" /\ item.kernel = "none"     -> [events |-> event, kernel |-> event]
    [] item.events \notin {"none", event} /\ item.kernel # "none"
                                                        -> [events |-> event, kernel |-> event]
    [] OTHER                                            -> item

\* The event is deleted from the interest list and the item is not set.
nreactor_del_event(item) == NoItem

accept_callback ==
  /\ Listener \in batch
  /\ batch' = batch \ {Listener}
  /\ \/ \E fd \in Fds :
          Accepted(fd) /\ ev' = [ev EXCEPT ![fd] = nreactor_set_event(@, "in")]
     \/ open = Fds /\ UNCHANGED <<ev, sockVars>>
  /\ UNCHANGED <<program, blkcnt, killed, echoVars>>

\* ret > 0: some of what has come.
ReadSome(fd) ==
  /\ Handle(fd, "in")
  /\ \E ret \in Received(fd) :
       Receives(fd, ret) /\ buffer' = [buffer EXCEPT ![fd] = ret]
  /\ ev' = [ev EXCEPT ![fd] = nreactor_set_event(@, "out")]
  /\ UNCHANGED <<frame, ioVars, peer, stalled, killed, sent>>

\* Mutant: the item is not reset.
ReadEndKeepsItem(fd) ==
  /\ Handle(fd, "in") /\ ReceivesEnd(fd)
  /\ ev' = [ev EXCEPT ![fd].kernel = "none"]
  /\ Hangup(fd)
  /\ UNCHANGED <<program, blkcnt, killed, buffer, busy>>

ReadEnd(fd) ==
  /\ Handle(fd, "in") /\ ReceivesEnd(fd)
  /\ ev' = [ev EXCEPT ![fd] = nreactor_del_event(@)]
  /\ Hangup(fd)
  /\ UNCHANGED <<program, blkcnt, killed, buffer, busy>>

\* ret = -1 is not looked at: the descriptor stays, and the next recv
\* returns 0.
ReadError(fd) ==
  /\ Handle(fd, "in") /\ ReceivesError(fd) /\ Reported(fd)
  /\ UNCHANGED <<ev, frame, inbox, stalled, killed, echoVars>>

read_callback(fd) == ReadSome(fd) \/ ReadEnd(fd) \/ ReadError(fd)

WriteAll(fd) ==
  /\ Handle(fd, "out") /\ ~Dead(fd)
  /\ Sends(fd, buffer[fd])
  /\ ev' = [ev EXCEPT ![fd] = nreactor_set_event(@, "in")]
  /\ Filled(fd)
  /\ UNCHANGED <<frame, ioVars, peer, inbox, buffer, killed, got>>

\* ret = -1 < length: the item, set for writing already, is left alone.
WriteFails(fd) ==
  /\ Handle(fd, "out") /\ SendFails(fd) /\ Reported(fd)
  /\ ev' = [ev EXCEPT ![fd] = nreactor_set_event(@, "out")]
  /\ UNCHANGED <<frame, inbox, stalled, killed, echoVars>>

WriteKills(fd) == Handle(fd, "out") /\ SendKills(fd) /\ Ends

write_callback(fd) == WriteAll(fd) \/ WriteFails(fd) \/ WriteKills(fd)

reactor_loop ==
  \/ epoll_wait /\ UNCHANGED echoVars
  \/ accept_callback
  \/ \E fd \in Fds : read_callback(fd) \/ write_callback(fd)
=============================================================================
