------------------------------ MODULE Reactor -------------------------------
(***************************************************************************)
(* The event loop that reactor+http and reactor+websocket share: one slot  *)
(* (struct ntyevent) per descriptor, in blocks of MAX_EPOLL_EVENTS, and    *)
(* an epoll interest list whose entries point at the slots.  A callback is *)
(* one step, except where it can block; the loop is level triggered.       *)
(***************************************************************************)
EXTENDS Kernel

VARIABLE owed \* history, per descriptor: chunks received and not answered

EmptySlot == [status |-> 0, events |-> "none", callback |-> "null", kernel |-> "none"]

ReactorInit ==
  /\ SocketsInit
  /\ ev = [fd \in Fds |-> EmptySlot]
  /\ blkcnt = 1
  /\ owed = [fd \in Fds |-> 0]
-----------------------------------------------------------------------------
(* Slots *)

nty_event_set(s, cb) == [s EXCEPT !.callback = cb, !.events = "none"]

\* MOD fails with ENOENT on an absent descriptor, ADD with EEXIST on a present
\* one; status and events are set all the same.
nty_event_add(s, mask) ==
  LET done == [s EXCEPT !.status = 1, !.events = mask]
  IN IF (s.status = 1) = (s.kernel # "none") THEN [done EXCEPT !.kernel = mask] ELSE done

\* Mutants: epoll_ctl is called and status is not reset, or the reverse.
DelKeepsStatus(s) == [s EXCEPT !.kernel = "none"]
DelOnlyMarks(s)   == [s EXCEPT !.status = 0]

nty_event_del(s) ==
  IF s.status # 1 THEN s ELSE [s EXCEPT !.status = 0, !.kernel = "none"]
-----------------------------------------------------------------------------
(* The loop *)

\* Mutant: the loop does not go on to the next entry.
DispatchStays(fd, mask, cb) ==
  \E e \in batch :
    /\ e.fd = fd /\ e.mask = mask
    /\ ev[fd].events = mask /\ ev[fd].callback = cb
    /\ batch' = batch

\* ntyreactor_run handles an entry: the slot's events admit it, its callback
\* is called.
Dispatch(fd, mask, cb) ==
  \E e \in batch :
    /\ e.fd = fd /\ e.mask = mask
    /\ ev[fd].events = mask /\ ev[fd].callback = cb
    /\ batch' = batch \ {e}

\* accept_cb with nothing to accept any more, or no descriptor left.
AcceptFails ==
  /\ Listener \in batch /\ (backlog = 0 \/ open = Fds)
  /\ batch' = batch \ {Listener}
  /\ UNCHANGED <<program, ev, blkcnt, killed>>
  /\ UNCHANGED sockVars

\* ntyreactor_idx allocates the blocks.
accept_cb ==
  /\ Listener \in batch
  /\ batch' = batch \ {Listener}
  /\ \E fd \in Fds :
       /\ Accepted(fd) /\ BlocksFor(fd)
       /\ ev' = [ev EXCEPT ![fd] = nty_event_add(nty_event_set(@, "recv_cb"), "in")]
  /\ UNCHANGED <<program, killed>>

\* recv_cb and send_cb turn the descriptor to the other direction.
TurnTo(fd, mask) ==
  ev' = [ev EXCEPT ![fd] =
           nty_event_add(nty_event_set(nty_event_del(@),
                                       IF mask = "in" THEN "recv_cb" ELSE "send_cb"), mask)]

\* recv_cb on len = 0 or ECONNRESET: the second nty_event_del finds status 0.
ForgetAndClose(fd) ==
  /\ ev' = [ev EXCEPT ![fd] = CloseSlot(nty_event_del(nty_event_del(@)))]
  /\ Closed(fd)
  /\ owed' = [owed EXCEPT ![fd] = 0]
  /\ UNCHANGED <<program, blkcnt, killed>>

\* recv_cb on any other error: not watched any more and not closed.
ForgetOnly(fd) ==
  /\ ev' = [ev EXCEPT ![fd] = nty_event_del(@)]
  /\ peer' = [peer EXCEPT ![fd] = "gone"]
  /\ UNCHANGED <<program, blkcnt, killed, open, gen, backlog, inbox, stalled, conns, chunks, owed>>
-----------------------------------------------------------------------------
(* What the loop and its callbacks keep *)

ReactorTypeOK ==
  /\ SocketsTypeOK
  /\ ev \in [Fds -> [status : {0, 1}, events : Masks \cup {"none"},
                     callback : {"null", "recv_cb", "send_cb"}, kernel : Masks \cup {"none"}]]
  /\ owed \in [Fds -> Nat]
  /\ \A fd \in open : fd \div BlockSize < blkcnt

\* Lines 93-128 of the http reactor, 108-143 of the websocket one: status says
\* whether the kernel watches the descriptor, for what the slot says and with
\* the callback that belongs to it; a closed descriptor's slot is free, so the
\* next connection on it is added and not modified.
SlotsMatchKernel ==
  \A fd \in Fds :
    LET s == ev[fd]
    IN /\ s.status = 1 <=> s.kernel # "none"
       /\ s.status = 1 => s.events = s.kernel
                          /\ s.callback = (IF s.kernel = "in" THEN "recv_cb" ELSE "send_cb")
       /\ fd \notin open => s.status = 0

\* Lines 562-573 of the http reactor, 559-570 of the websocket one: an entry
\* is handled for the connection and the direction it was reported for.
NoStaleEvent ==
  EntriesAreCurrent /\ \A e \in batch : e = Listener \/ e.mask = ev[e.fd].events

\* Lines 255 and 278-284 of the http reactor, 287 and 310-320 of the websocket
\* one: the loop forgets an open descriptor only after an error other than
\* ECONNRESET was read from it: no live client is forgotten.
LiveClientsWatched ==
  \A fd \in open : ev[fd].kernel = "none" => peer[fd] = "gone"

\* Lines 264-267 and 299-329 of the http reactor, 297-301 and 333-342 of the
\* websocket one: a received chunk is answered before the next one is
\* received; what is owed is owed to a descriptor that waits for EPOLLOUT.
OneAnswerPerChunk ==
  \A fd \in Fds : owed[fd] = (IF fd \in open /\ ev[fd].kernel = "out" THEN 1 ELSE 0)
=============================================================================
