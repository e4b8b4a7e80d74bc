-------------------------- MODULE Reactors_proofs --------------------------
(***************************************************************************)
(* What is proved of the http and the websocket reactor, for any number of *)
(* descriptors, connections and chunks: SlotInv, NoStaleEvent,             *)
(* OneAnswerPerChunk, FirstClientGetsItsKey and HangsUpOnlyAfterPost.      *)
(*                                                                         *)
(* The four invariants of the loop are inductive only together and with    *)
(* what sendfile keeps to itself (RInv): the kernel's list says what is    *)
(* owed, an entry is current because its descriptor is turned in no other  *)
(* callback than its own, and SendBody runs beside a batch it is not in.   *)
(* FirstClientGetsItsKey needs KeyLedger besides.                          *)
(***************************************************************************)
EXTENDS Reactors, FiniteSetTheorems, TLAPS

\* While the thread is in sendfile, the descriptor it waits for is open and
\* still turned to EPOLLOUT, and no entry of it is left to be handled.
SendfileIsAlone ==
  /\ program = "websocket" => sending = 0
  /\ sending # 0 => /\ sending \in open /\ ev[sending].kernel = "out"
                    /\ \A e \in batch : e.fd # sending

\* A slot whose method is POST has had one.
PostsRecorded == \A fd \in Fds : method[fd] = "POST" => fd \in posted

\* What the event loop keeps, whatever callbacks it runs.
LoopInv ==
  /\ SlotsMatchKernel /\ LiveClientsWatched /\ NoStaleEvent /\ OneAnswerPerChunk
  /\ SendfileIsAlone

RInv == TypeOK /\ LoopInv /\ PostsRecorded
-----------------------------------------------------------------------------
(* Slots *)

SlotType == [status : {0, 1}, events : Masks \cup {"none"},
             callback : {"null", "recv_cb", "send_cb"}, kernel : Masks \cup {"none"}]

\* What SlotsMatchKernel says of a slot.
Matches(s) ==
  /\ s.status = 1 <=> s.kernel # "none"
  /\ s.status = 1 => s.events = s.kernel
                     /\ s.callback = (IF s.kernel = "in" THEN "recv_cb" ELSE "send_cb")

Turned(s, mask) ==
  nty_event_add(nty_event_set(nty_event_del(s),
                              IF mask = "in" THEN "recv_cb" ELSE "send_cb"), mask)
Admitted(s)  == nty_event_add(nty_event_set(s, "recv_cb"), "in")
Forgotten(s) == CloseSlot(nty_event_del(nty_event_del(s)))

\* A deleted slot is free.
LEMMA DelMatches ==
  ASSUME NEW s \in SlotType, Matches(s)
  PROVE  /\ nty_event_del(s) \in SlotType /\ Matches(nty_event_del(s))
         /\ nty_event_del(s).kernel = "none" /\ nty_event_del(s).status = 0
  <1>1. CASE s.status = 0
    BY <1>1 DEF SlotType, Matches, nty_event_del
  <1>2. CASE s.status = 1
    <2>1. nty_event_del(s) = [status |-> 0, events |-> s.events, callback |-> s.callback,
                              kernel |-> "none"]
      BY <1>2 DEF SlotType, nty_event_del
    <2> QED
      BY <2>1 DEF SlotType, Matches
  <1> QED
    BY <1>1, <1>2 DEF SlotType

\* A free slot is added, never modified.
LEMMA AddMatches ==
  ASSUME NEW s \in SlotType, Matches(s), s.status = 0, NEW mask \in Masks,
         NEW cb \in {"recv_cb", "send_cb"}, cb = IF mask = "in" THEN "recv_cb" ELSE "send_cb"
  PROVE  /\ nty_event_add(nty_event_set(s, cb), mask) \in SlotType
         /\ Matches(nty_event_add(nty_event_set(s, cb), mask))
         /\ nty_event_add(nty_event_set(s, cb), mask).kernel = mask
  BY DEF SlotType, Matches, nty_event_add, nty_event_set, Masks

\* A slot is turned by deleting and adding it.
LEMMA TurnedMatches ==
  ASSUME NEW s \in SlotType, NEW mask \in Masks, Matches(s)
  PROVE  /\ Turned(s, mask) \in SlotType /\ Matches(Turned(s, mask))
         /\ Turned(s, mask).kernel = mask
  <1> DEFINE cb == IF mask = "in" THEN "recv_cb" ELSE "send_cb"
  <1>1. cb \in {"recv_cb", "send_cb"}
    OBVIOUS
  <1> QED
    BY <1>1, DelMatches, AddMatches DEF Turned

\* A free slot is added for the connection that accept returns.
LEMMA AdmittedMatches ==
  ASSUME NEW s \in SlotType, Matches(s), s.status = 0
  PROVE  /\ Admitted(s) \in SlotType /\ Matches(Admitted(s))
         /\ Admitted(s).kernel = "in"
  BY AddMatches DEF Admitted, Masks

\* A slot whose descriptor is closed is free.
LEMMA ForgottenMatches ==
  ASSUME NEW s \in SlotType, Matches(s)
  PROVE  /\ Forgotten(s) \in SlotType /\ Matches(Forgotten(s))
         /\ Forgotten(s).kernel = "none" /\ Forgotten(s).status = 0
  <1>1. nty_event_del(nty_event_del(s)) = nty_event_del(s)
    BY DelMatches DEF nty_event_del
  <1> DEFINE d == nty_event_del(s)
  <1>2. d \in SlotType /\ Matches(d) /\ d.kernel = "none" /\ d.status = 0
    BY DelMatches
  <1>3. Forgotten(s) = [d EXCEPT !.kernel = "none"]
    BY <1>1 DEF Forgotten, CloseSlot
  <1> QED
    BY <1>2, <1>3 DEF SlotType, Matches

\* SlotsMatchKernel, slot by slot.
LEMMA SlotsMatch ==
  SlotsMatchKernel <=> \A fd \in Fds : Matches(ev[fd]) /\ (fd \notin open => ev[fd].status = 0)
  BY DEF SlotsMatchKernel, Matches
-----------------------------------------------------------------------------
(* What a step of the loop or of a client may do to the slots *)

\* No slot changes; entries may be given up, and an http server may enter
\* sendfile for a descriptor it has no other entry of.
Quiet ==
  /\ UNCHANGED <<program, ev, blkcnt, open, gen, owed>>
  /\ batch' \subseteq batch
  /\ \A fd \in Fds : peer[fd] = "gone" => peer'[fd] = "gone"
  /\ \/ UNCHANGED sending
     \/ program # "websocket" /\ sending' \in open /\ ev[sending'].kernel = "out"
        /\ \A e \in batch' : e.fd # sending'

Waits ==
  /\ batch = {} /\ batch' = Ready /\ sending = 0
  /\ UNCHANGED <<program, ev, blkcnt, open, gen, owed, peer, sending>>

Admits(fd) ==
  /\ fd \in Fds \ open /\ batch' \subseteq batch
  /\ open' = open \cup {fd} /\ BlocksFor(fd)
  /\ ev' = [ev EXCEPT ![fd] = Admitted(@)]
  /\ gen' = [gen EXCEPT ![fd] = @ + 1]
  /\ \A other \in Fds \ {fd} : peer'[other] = peer[other]
  /\ sending' = 0 /\ UNCHANGED <<program, owed>>

\* No entry of the descriptor is left.
LastEntry(fd) == fd \in open /\ batch' \subseteq batch /\ \A e \in batch' : e.fd # fd

Turns(fd, mask) ==
  /\ LastEntry(fd) /\ sending' = 0
  /\ ev' = [ev EXCEPT ![fd] = Turned(@, mask)]
  /\ owed' = [owed EXCEPT ![fd] = IF mask = "out" THEN 1 ELSE 0]
  /\ \A other \in Fds : peer[other] = "gone" => peer'[other] = "gone"
  /\ UNCHANGED <<program, blkcnt, open, gen>>

Closes(fd) ==
  /\ LastEntry(fd) /\ sending' = 0
  /\ ev' = [ev EXCEPT ![fd] = Forgotten(@)]
  /\ open' = open \ {fd}
  /\ owed' = [owed EXCEPT ![fd] = 0]
  /\ \A other \in Fds \ {fd} : peer'[other] = peer[other]
  /\ UNCHANGED <<program, blkcnt, gen>>

Forgets(fd) ==
  /\ LastEntry(fd) /\ sending' = 0 /\ ev[fd].kernel = "in"
  /\ ev' = [ev EXCEPT ![fd] = nty_event_del(@)]
  /\ peer' = [peer EXCEPT ![fd] = "gone"]
  /\ UNCHANGED <<program, blkcnt, open, gen, owed>>

\* The types and the shape of the entries that the following proofs need.
LEMMA TypesGive ==
  ASSUME TypeOK
  PROVE  /\ ev \in [Fds -> SlotType] /\ open \subseteq Fds /\ Fds \subseteq Nat \ {0}
         /\ gen \in [Fds -> Nat] /\ peer \in [Fds -> PeerStates] /\ owed \in [Fds -> Nat]
         /\ batch \subseteq [fd : Fds \cup {0}, mask : Masks, gen : Nat]
         /\ program \in {"http", "websocket"} /\ sending \in Fds \cup {0}
  BY KernelAssumption DEF TypeOK, ReactorTypeOK, SocketsTypeOK, HttpTypeOK, SlotType

\* An entry that is handled is its connection's only one, and the kernel watches
\* the descriptor for it.
LEMMA DispatchedOnce ==
  ASSUME TypeOK, LoopInv, NEW fd \in Fds, NEW mask, NEW cb, Dispatch(fd, mask, cb)
  PROVE  LastEntry(fd) /\ ev[fd].kernel = mask
  <1>1. PICK e \in batch : e.fd = fd /\ e.mask = mask /\ batch' = batch \ {e}
    BY DEF Dispatch
  <1>2. \A f \in batch : f.fd = fd => /\ fd \in open /\ f.gen = gen[fd]
                                      /\ f.mask = ev[fd].kernel
    BY TypesGive DEF LoopInv, NoStaleEvent, EntriesAreCurrent, Listener
  <1>3. \A f \in batch : f.fd = fd => f = e
    BY <1>1, <1>2, TypesGive
  <1> QED
    BY <1>1, <1>2, <1>3 DEF LastEntry

\* Turning is what TurnTo does.
LEMMA TurnToTurns ==
  ASSUME NEW fd, NEW mask, TurnTo(fd, mask)
  PROVE  ev' = [ev EXCEPT ![fd] = Turned(@, mask)]
  BY DEF TurnTo, Turned

\* What is owed before a callback.
LEMMA OwedBefore ==
  ASSUME TypeOK, LoopInv, NEW fd \in open
  PROVE  owed[fd] = IF ev[fd].kernel = "out" THEN 1 ELSE 0
  BY TypesGive DEF LoopInv, OneAnswerPerChunk

\* Every step does one of these to the slots.
LEMMA LoopEffect ==
  ASSUME TypeOK, LoopInv, [Next]_vars
  PROVE  \/ Quiet \/ Waits
         \/ \E fd \in Fds :
              \/ Admits(fd) \/ Closes(fd) \/ Forgets(fd)
              \/ \E mask \in Masks : Turns(fd, mask)
  <1> DEFINE Effect(fd) == \/ Admits(fd) \/ Closes(fd) \/ Forgets(fd)
                           \/ \E mask \in Masks : Turns(fd, mask)
  <1>0. TypeOK /\ LoopInv /\ "in" \in Masks /\ "out" \in Masks
    BY DEF Masks
  <1>1. ASSUME epoll_wait \/ AcceptFails \/ accept_cb, UNCHANGED <<owed, sending>>, sending = 0
        PROVE  Quiet \/ Waits \/ \E fd \in Fds : Admits(fd)
    <2>1. CASE epoll_wait
      BY <1>1, <2>1 DEF epoll_wait, Waits, sockVars
    <2>2. CASE AcceptFails
      BY <1>1, <2>2 DEF AcceptFails, Quiet, sockVars
    <2>3. CASE accept_cb
      <3>1. PICK fd \in Fds : /\ Accepted(fd) /\ BlocksFor(fd)
                              /\ ev' = [ev EXCEPT ![fd] = nty_event_add(nty_event_set(@, "recv_cb"), "in")]
        BY <2>3 DEF accept_cb
      <3>2. Admits(fd)
        BY <1>1, <2>3, <3>1, TypesGive DEF accept_cb, Accepted, Admits, Admitted
      <3> QED
        BY <3>2
    <2> QED
      BY <1>1, <2>1, <2>2, <2>3
  <1>2. ASSUME NEW fd \in Fds, NEW mask, NEW cb, Dispatch(fd, mask, cb), ForgetAndClose(fd),
               sending' = 0
        PROVE  Closes(fd)
    BY <1>0, <1>2, DispatchedOnce, TypesGive DEF ForgetAndClose, Closed, Closes, Forgotten
  <1>3. ASSUME NEW fd \in Fds, NEW cb, Dispatch(fd, "in", cb), ForgetOnly(fd), sending' = 0
        PROVE  Forgets(fd)
    BY <1>0, <1>3, DispatchedOnce DEF ForgetOnly, Forgets
  <1>4. ASSUME NEW fd \in Fds, NEW cb, Dispatch(fd, "in", cb), TurnTo(fd, "out"),
               owed' = [owed EXCEPT ![fd] = @ + 1], sending' = 0,
               UNCHANGED <<program, blkcnt, open, gen, peer>>
        PROVE  Turns(fd, "out")
    <2>1. LastEntry(fd) /\ ev[fd].kernel = "in"
      BY <1>0, <1>4, DispatchedOnce
    <2>2. owed[fd] = 0
      BY <1>0, <2>1, OwedBefore DEF LastEntry
    <2>3. owed' = [owed EXCEPT ![fd] = 1]
      BY <1>4, <2>2
    <2> QED
      BY <1>4, <2>1, <2>3, TurnToTurns DEF Turns
  <1>5. CASE program = "http" /\ http_run
    <2>1. CASE sending = 0 /\ (epoll_wait \/ AcceptFails \/ accept_cb) /\ UNCHANGED <<httpVars, owed>>
      BY <1>1, <2>1 DEF httpVars
    <2>2. ASSUME NEW fd \in Fds, http_recv_cb(fd), sending = 0 PROVE Effect(fd)
      <3>1. CASE HttpRecvChunk(fd)
        BY <1>0, <1>4, <2>2, <3>1 DEF HttpRecvChunk
      <3>2. CASE HttpRecvEnd(fd)
        BY <1>2, <2>2, <3>2 DEF HttpRecvEnd, httpVars
      <3>3. CASE HttpRecvError(fd)
        BY <1>3, <2>2, <3>3 DEF HttpRecvError, httpVars
      <3> QED
        BY <2>2, <3>1, <3>2, <3>3 DEF http_recv_cb
    <2>3. ASSUME NEW fd \in Fds, http_send_cb(fd), sending = 0 PROVE Quiet \/ Effect(fd)
      <3>1. CASE SendHeader(fd)
        <4>1. LastEntry(fd) /\ ev[fd].kernel = "out" /\ sending' = fd
          BY <1>0, <3>1, DispatchedOnce DEF SendHeader
        <4> QED
          BY <1>5, <3>1, <4>1 DEF SendHeader, Quiet, LastEntry
      <3>2. CASE HttpSendFails(fd)
        BY <1>2, <2>3, <3>2 DEF HttpSendFails
      <3>3. CASE HttpSendKills(fd)
        BY <3>3 DEF HttpSendKills, Dispatch, Quiet, sockVars
      <3> QED
        BY <2>3, <3>1, <3>2, <3>3 DEF http_send_cb
    <2>4. ASSUME NEW fd \in Fds, SendBody(fd) PROVE Turns(fd, "in")
      <3>1. sending = fd /\ fd # 0
        BY <2>4, TypesGive DEF SendBody
      <3>2. LastEntry(fd) /\ ev[fd].kernel = "out"
        BY <1>0, <2>4, <3>1 DEF SendBody, LoopInv, SendfileIsAlone, LastEntry
      <3>3. owed[fd] = 1
        BY <1>0, <3>2, OwedBefore DEF LastEntry
      <3>4. owed' = [owed EXCEPT ![fd] = 0]
        BY <2>4, <3>3 DEF SendBody
      <3>5. \A other \in Fds : peer[other] = "gone" => peer'[other] = "gone"
        BY <2>4, TypesGive DEF SendBody, Dead
      <3> QED
        BY <2>4, <3>2, <3>4, <3>5, TurnToTurns DEF SendBody, Turns
    <2>5. ASSUME NEW fd \in Fds, BodyKills(fd) PROVE Quiet
      BY <2>5 DEF BodyKills, Quiet, slotVars, sockVars
    <2> QED
      BY <1>0, <1>5, <2>1, <2>2, <2>3, <2>4, <2>5 DEF http_run
  <1>6. CASE program = "websocket" /\ ws_run /\ UNCHANGED httpVars
    <2>0. sending = 0 /\ sending' = 0
      BY <1>0, <1>6 DEF LoopInv, SendfileIsAlone, httpVars
    <2>1. CASE (epoll_wait \/ AcceptFails \/ accept_cb) /\ UNCHANGED <<wsVars, owed>>
      BY <1>1, <2>0, <2>1
    <2>2. ASSUME NEW fd \in Fds, ws_recv_cb(fd) PROVE Effect(fd)
      <3>1. CASE WsRecvChunk(fd)
        BY <1>0, <1>4, <2>0, <3>1 DEF WsRecvChunk
      <3>2. CASE WsRecvEnd(fd)
        BY <1>2, <2>0, <3>2 DEF WsRecvEnd, Forget
      <3>3. CASE WsRecvError(fd)
        BY <1>3, <2>0, <3>3 DEF WsRecvError
      <3> QED
        BY <2>2, <3>1, <3>2, <3>3 DEF ws_recv_cb
    <2>3. ASSUME NEW fd \in Fds, ws_send_cb(fd) PROVE Quiet \/ Effect(fd)
      <3>1. CASE Send101(fd)
        <4>1. LastEntry(fd) /\ ev[fd].kernel = "out"
          BY <1>0, <3>1, DispatchedOnce DEF Send101
        <4>2. owed[fd] = 1
          BY <1>0, <4>1, OwedBefore DEF LastEntry
        <4>3. owed' = [owed EXCEPT ![fd] = 0]
          BY <3>1, <4>2 DEF Send101
        <4>4. Turns(fd, "in")
          BY <2>0, <3>1, <4>1, <4>3, TurnToTurns DEF Send101, Turns
        <4> QED
          BY <1>0, <4>4
      <3>2. CASE WsSendFails(fd)
        BY <1>2, <2>0, <3>2 DEF WsSendFails, Forget
      <3>3. CASE WsSendKills(fd)
        BY <2>0, <3>3 DEF WsSendKills, Dispatch, Quiet, sockVars
      <3> QED
        BY <2>3, <3>1, <3>2, <3>3 DEF ws_send_cb
    <2> QED
      BY <1>6, <2>1, <2>2, <2>3 DEF ws_run
  <1>7. CASE Clients
    <2>1. /\ UNCHANGED <<program, ev, blkcnt, batch, open, gen, owed, sending>>
      BY <1>7 DEF Clients, serverFrame, clientFrame, slotVars, httpVars
    <2>2. ASSUME NEW fd \in Fds, peer[fd] = "gone" PROVE peer'[fd] = "gone"
      BY <1>7, <2>2, TypesGive DEF Clients, Connect, GiveUp, SendChunk, Leave, Drain
    <2> QED
      BY <2>1, <2>2 DEF Quiet
  <1>8. CASE UNCHANGED vars
    BY <1>8 DEF vars, slotVars, sockVars, httpVars, Quiet
  <1> QED
    BY <1>5, <1>6, <1>7, <1>8 DEF Next, ntyreactor_run
-----------------------------------------------------------------------------
(* The loop's invariant *)

\* What LoopInv says of one descriptor.
Kept(fd) ==
  /\ Matches(ev[fd]) /\ (fd \notin open => ev[fd].status = 0)
  /\ fd \in open => (ev[fd].kernel = "none" => peer[fd] = "gone")
  /\ owed[fd] = (IF fd \in open /\ ev[fd].kernel = "out" THEN 1 ELSE 0)

\* What LoopInv says of one entry of epoll_wait.
Current(e) ==
  e = Listener \/ (e.fd \in open /\ e.gen = gen[e.fd] /\ e.mask = ev[e.fd].kernel
                     /\ e.mask = ev[e.fd].events)
\* LoopInv holds as soon as this is so of every descriptor and every entry.
LEMMA LoopInvIs ==
  ASSUME open \subseteq Fds
  PROVE  LoopInv <=> /\ \A fd \in Fds : Kept(fd)
                     /\ \A e \in batch : Current(e)
                     /\ SendfileIsAlone
  <1>1. (SlotsMatchKernel /\ LiveClientsWatched /\ OneAnswerPerChunk)
          <=> \A fd \in Fds : Kept(fd)
    BY SlotsMatch DEF LiveClientsWatched, OneAnswerPerChunk, Kept
  <1>2. NoStaleEvent <=> \A e \in batch : Current(e)
    BY DEF NoStaleEvent, EntriesAreCurrent, Current
  <1> QED
    BY <1>1, <1>2 DEF LoopInv

\* What epoll_wait returns is current.
LEMMA ReadyIsCurrent ==
  ASSUME TypeOK, LoopInv, NEW e \in Ready
  PROVE  Current(e) /\ e \in [fd : Fds \cup {0}, mask : Masks, gen : Nat]
  <1>1. CASE e = Listener
    BY <1>1 DEF Listener, Current, Masks
  <1>2. ASSUME NEW fd \in Fds, NEW mask \in Masks, ev[fd].kernel = mask,
               e = [fd |-> fd, mask |-> mask, gen |-> gen[fd]]
        PROVE  Current(e) /\ e \in [fd : Fds \cup {0}, mask : Masks, gen : Nat]
    <2>1. Matches(ev[fd]) /\ (fd \notin open => ev[fd].status = 0) /\ mask # "none"
      BY SlotsMatch DEF LoopInv, Masks
    <2>2. ev[fd].status \in {0, 1}
      BY TypesGive DEF SlotType
    <2>3. fd \in open /\ ev[fd].events = mask
      BY <1>2, <2>1, <2>2 DEF Matches
    <2> QED
      BY <1>2, <2>3, TypesGive DEF Current
  <1> QED
    BY <1>1, <1>2 DEF Ready, Masks

\* Every step keeps the slots in their blocks and typed, and the loop's
\* invariant.
LEMMA LoopNext ==
  ASSUME TypeOK, LoopInv, [Next]_vars
  PROVE  /\ ev' \in [Fds -> SlotType] /\ owed' \in [Fds -> Nat] /\ gen' \in [Fds -> Nat]
         /\ program' \in {"http", "websocket"} /\ sending' \in Fds \cup {0}
         /\ open' \subseteq Fds /\ blkcnt' \in Nat
         /\ batch' \subseteq [fd : Fds \cup {0}, mask : Masks, gen : Nat]
         /\ \A fd \in open' : fd \div BlockSize < blkcnt'
         /\ LoopInv'
  <1> DEFINE Entries == [fd : Fds \cup {0}, mask : Masks, gen : Nat]
             Typed == /\ ev' \in [Fds -> SlotType] /\ owed' \in [Fds -> Nat]
                      /\ gen' \in [Fds -> Nat] /\ program' \in {"http", "websocket"}
                      /\ sending' \in Fds \cup {0}
                      /\ open' \subseteq Fds /\ blkcnt' \in Nat /\ batch' \subseteq Entries
                      /\ \A fd \in open' : fd \div BlockSize < blkcnt'
             Goal  == /\ Typed
                      /\ \A fd \in Fds : Kept(fd)'
                      /\ \A e \in batch' : Current(e)'
                      /\ SendfileIsAlone'
  <1>a. (open \subseteq Fds =>
            (LoopInv <=> /\ \A fd \in Fds : Kept(fd)
                         /\ \A e \in batch : Current(e)
                         /\ SendfileIsAlone))'
    BY LoopInvIs, PTL
  <1> SUFFICES Goal
    BY <1>a
  <1>0. /\ ev \in [Fds -> SlotType] /\ open \subseteq Fds /\ Fds \subseteq Nat \ {0}
        /\ gen \in [Fds -> Nat] /\ peer \in [Fds -> PeerStates] /\ owed \in [Fds -> Nat]
        /\ batch \subseteq Entries
        /\ program \in {"http", "websocket"} /\ sending \in Fds \cup {0}
        /\ blkcnt \in Nat /\ \A fd \in open : fd \div BlockSize < blkcnt
    BY TypesGive DEF TypeOK, ReactorTypeOK, SocketsTypeOK
  <1>1. /\ \A fd \in Fds : Kept(fd)
        /\ \A e \in batch : Current(e)
        /\ SendfileIsAlone
    BY <1>0, LoopInvIs
  <1>2. CASE Quiet
    <2>1. Typed
      BY <1>0, <1>2 DEF Quiet
    <2>2. \A fd \in Fds : Kept(fd)'
      BY <1>1, <1>2 DEF Quiet, Kept
    <2>3. \A e \in batch' : Current(e)'
      BY <1>1, <1>2 DEF Quiet, Current
    <2>4. SendfileIsAlone'
      BY <1>0, <1>1, <1>2 DEF Quiet, SendfileIsAlone
    <2> QED
      BY <2>1, <2>2, <2>3, <2>4
  <1>3. CASE Waits
    <2>1. \A e \in batch' : Current(e) /\ e \in Entries
      BY <1>3, ReadyIsCurrent DEF Waits
    <2>2. Typed
      BY <1>0, <1>3, <2>1 DEF Waits
    <2>3. \A fd \in Fds : Kept(fd)'
      BY <1>1, <1>3 DEF Waits, Kept
    <2>4. \A e \in batch' : Current(e)'
      BY <1>3, <2>1 DEF Waits, Current
    <2>5. SendfileIsAlone'
      BY <1>3 DEF Waits, SendfileIsAlone
    <2> QED
      BY <2>2, <2>3, <2>4, <2>5
  <1>4. ASSUME NEW fd \in Fds, Admits(fd) PROVE Goal
    <2>1. /\ Matches(ev[fd]) /\ ev[fd].status = 0 /\ ev[fd] \in SlotType
          /\ fd \notin open /\ owed[fd] = 0
      BY <1>0, <1>1, <1>4 DEF Kept, Admits
    <2>2. /\ ev'[fd] \in SlotType /\ Matches(ev'[fd]) /\ ev'[fd].kernel = "in"
          /\ \A other \in Fds \ {fd} : ev'[other] = ev[other]
          /\ ev' \in [Fds -> SlotType]
      BY <1>0, <1>4, <2>1, AdmittedMatches DEF Admits
    <2>3. blkcnt' \in Nat /\ \A other \in open' : other \div BlockSize < blkcnt'
      <3>1. BlockSize \in Nat \ {0} /\ fd \div BlockSize \in Nat
        BY <1>0, KernelAssumption
      <3>2. \A other \in open' : other = fd \/ other \in open
        BY <1>4 DEF Admits
      <3>3. \A other \in open : other \div BlockSize \in Int
        BY <1>0, <3>1
      <3> QED
        BY <1>0, <1>4, <3>1, <3>2, <3>3 DEF Admits, BlocksFor
    <2>4. Typed
      BY <1>0, <1>4, <2>2, <2>3 DEF Admits
    <2>5. ASSUME NEW other \in Fds PROVE Kept(other)'
      <3>1. CASE other = fd
        BY <1>4, <2>1, <2>2, <3>1 DEF Kept, Admits
      <3>2. CASE other # fd
        <4>1. other \in open' <=> other \in open
          BY <1>4, <3>2 DEF Admits
        <4>2. ev'[other] = ev[other] /\ owed'[other] = owed[other] /\ peer'[other] = peer[other]
          BY <1>4, <2>2, <3>2 DEF Admits
        <4> QED
          BY <1>1, <4>1, <4>2 DEF Kept
      <3> QED
        BY <3>1, <3>2
    <2>6. ASSUME NEW e \in batch' PROVE Current(e)'
      <3>1. Current(e) /\ e.fd \in Fds \cup {0}
        BY <1>0, <1>1, <1>4 DEF Admits
      <3>2. e # Listener => e.fd # fd /\ e.fd \in Fds
        BY <1>0, <2>1, <3>1 DEF Current
      <3> QED
        BY <1>0, <1>4, <2>2, <3>1, <3>2 DEF Current, Admits
    <2>7. SendfileIsAlone'
      BY <1>4 DEF Admits, SendfileIsAlone
    <2> QED
      BY <2>4, <2>5, <2>6, <2>7
  <1>5. ASSUME NEW fd \in Fds, LastEntry(fd), sending' = 0,
               NEW s \in SlotType, Matches(s), ev' = [ev EXCEPT ![fd] = s],
               open' \in {open, open \ {fd}}, fd \notin open' => s.status = 0,
               owed' = [owed EXCEPT ![fd] = IF s.kernel = "out" THEN 1 ELSE 0],
               \A other \in Fds \ {fd} : peer[other] = "gone" => peer'[other] = "gone",
               fd \in open' /\ s.kernel = "none" => peer'[fd] = "gone",
               UNCHANGED <<program, blkcnt, gen>>
        PROVE  Goal
    <2>1. Typed
      BY <1>0, <1>5 DEF LastEntry
    <2>2. ASSUME NEW other \in Fds PROVE Kept(other)'
      <3>1. CASE other = fd
        BY <1>0, <1>5, <3>1 DEF Kept, Matches
      <3>2. CASE other # fd
        <4>1. other \in open' <=> other \in open
          BY <1>5, <3>2
        <4>2. ev'[other] = ev[other] /\ owed'[other] = owed[other]
          BY <1>0, <1>5, <3>2
        <4> QED
          BY <1>1, <1>5, <3>2, <4>1, <4>2 DEF Kept
      <3> QED
        BY <3>1, <3>2
    <2>3. ASSUME NEW e \in batch' PROVE Current(e)'
      <3>1. Current(e) /\ e.fd \in Fds \cup {0} /\ e.fd # fd
        BY <1>0, <1>1, <1>5 DEF LastEntry
      <3>2. e # Listener => e.fd \in open' /\ ev'[e.fd] = ev[e.fd]
        BY <1>0, <1>5, <3>1 DEF Current
      <3> QED
        BY <1>5, <3>1, <3>2 DEF Current
    <2>4. SendfileIsAlone'
      BY <1>5 DEF SendfileIsAlone
    <2> QED
      BY <2>1, <2>2, <2>3, <2>4
  <1>6. ASSUME NEW fd \in Fds, NEW mask \in Masks, Turns(fd, mask) PROVE Goal
    <2>1. /\ Turned(ev[fd], mask) \in SlotType /\ Matches(Turned(ev[fd], mask))
          /\ Turned(ev[fd], mask).kernel = mask /\ mask # "none" /\ fd \in open
      BY <1>0, <1>1, <1>6, TurnedMatches DEF Kept, Masks, Turns, LastEntry
    <2> QED
      BY <1>5, <1>6, <2>1 DEF Turns
  <1>7. ASSUME NEW fd \in Fds, Closes(fd) PROVE Goal
    <2>1. /\ Forgotten(ev[fd]) \in SlotType /\ Matches(Forgotten(ev[fd]))
          /\ Forgotten(ev[fd]).kernel = "none" /\ Forgotten(ev[fd]).status = 0
      BY <1>0, <1>1, ForgottenMatches DEF Kept
    <2>2. fd \notin open'
      BY <1>7 DEF Closes
    <2> QED
      BY <1>5, <1>7, <2>1, <2>2 DEF Closes
  <1>8. ASSUME NEW fd \in Fds, Forgets(fd) PROVE Goal
    <2>1. /\ nty_event_del(ev[fd]) \in SlotType /\ Matches(nty_event_del(ev[fd]))
          /\ nty_event_del(ev[fd]).kernel = "none" /\ nty_event_del(ev[fd]).status = 0
      BY <1>0, <1>1, DelMatches DEF Kept
    <2>2. owed[fd] = 0
      BY <1>1, <1>8 DEF Kept, Forgets
    <2>3. owed' = [owed EXCEPT ![fd] = IF nty_event_del(ev[fd]).kernel = "out" THEN 1 ELSE 0]
      BY <1>0, <1>8, <2>1, <2>2 DEF Forgets
    <2>4. peer'[fd] = "gone" /\ \A other \in Fds \ {fd} : peer'[other] = peer[other]
      BY <1>0, <1>8 DEF Forgets
    <2> QED
      BY <1>5, <1>8, <2>1, <2>3, <2>4 DEF Forgets
  <1> QED
    BY <1>2, <1>3, <1>4, <1>6, <1>7, <1>8, LoopEffect
-----------------------------------------------------------------------------
(* The types of the sockets and of the two servers *)

\* What a step does to the chunks of a descriptor: a client appends one, the
\* server takes the first, or all, or closes the descriptor.
InboxMoves ==
  \/ UNCHANGED inbox
  \/ \E fd \in Fds :
       \/ inbox' = [inbox EXCEPT ![fd] = << >>]
       \/ inbox[fd] # << >> /\ inbox' = [inbox EXCEPT ![fd] = Tail(@)]
       \/ \E kind \in Kinds : inbox' = [inbox EXCEPT ![fd] = Append(@, kind)]

LEMMA InboxTyped ==
  ASSUME inbox \in [Fds -> Seq(Kinds)], InboxMoves
  PROVE  inbox' \in [Fds -> Seq(Kinds)]
  <1>1. ASSUME NEW q \in Seq(Kinds), NEW kind \in Kinds
        PROVE  Append(q, kind) \in Seq(Kinds)
    OBVIOUS
  <1>2. << >> \in Seq(Kinds)
    OBVIOUS
  <1>3. ASSUME NEW fd \in Fds, NEW q \in Seq(Kinds), inbox' = [inbox EXCEPT ![fd] = q]
        PROVE  inbox' \in [Fds -> Seq(Kinds)]
    BY <1>3
  <1>4. ASSUME NEW fd \in Fds, inbox[fd] # << >> PROVE Tail(inbox[fd]) \in Seq(Kinds)
    <2>1. inbox[fd] \in Seq(Kinds)
      OBVIOUS
    <2> QED
      BY <1>4, <2>1
  <1> QED
    BY <1>1, <1>2, <1>3, <1>4 DEF InboxMoves

\* A chunk in an inbox is one of Kinds.
LEMMA ChunkTyped ==
  ASSUME NEW q \in Seq(Kinds), q # << >>
  PROVE  Head(q) \in Kinds /\ Head(q) = q[1] /\ \A i \in DOMAIN q : q[i] \in Kinds
  OBVIOUS

\* What a step does to who is at the other end, and to what waits to be read or
\* sent.
PeerMoves ==
  /\ killed' \in BOOLEAN /\ backlog' \in Nat /\ conns' \in Nat /\ chunks' \in Nat
  /\ InboxMoves
  /\ \/ \E fd \in Fds \ open :
          /\ open' = open \cup {fd} /\ peer' = [peer EXCEPT ![fd] = "up"]
          /\ UNCHANGED stalled
     \/ \E fd \in Fds :
          /\ open' = open \ {fd} /\ peer' = [peer EXCEPT ![fd] = "none"]
          /\ stalled' = stalled \ {fd}
     \/ /\ UNCHANGED open /\ stalled' \subseteq open
        /\ \/ UNCHANGED peer
           \/ \E fd \in open, s \in PeerStates \ {"none"} : peer' = [peer EXCEPT ![fd] = s]

LEMMA PeerEffect ==
  ASSUME TypeOK, LoopInv, [Next]_vars
  PROVE  PeerMoves
  <1>0. /\ open \subseteq Fds /\ peer \in [Fds -> PeerStates] /\ stalled \subseteq open
        /\ backlog \in Nat /\ killed \in BOOLEAN /\ conns \in Nat /\ chunks \in Nat
        /\ \A fd \in Fds : peer[fd] = "none" <=> fd \notin open
    BY DEF TypeOK, ReactorTypeOK, SocketsTypeOK
  <1>1. CASE epoll_wait \/ AcceptFails
    BY <1>0, <1>1 DEF epoll_wait, AcceptFails, sockVars, PeerMoves, InboxMoves
  <1>2. CASE accept_cb
    <2>1. PICK fd \in Fds : Accepted(fd)
      BY <1>2 DEF accept_cb
    <2>2. backlog' \in Nat
      BY <1>0, <2>1 DEF Accepted
    <2> QED
      BY <1>0, <1>2, <2>1, <2>2 DEF accept_cb, Accepted, PeerMoves, InboxMoves
  <1>3. ASSUME NEW fd \in Fds, ForgetAndClose(fd) PROVE PeerMoves
    BY <1>0, <1>3 DEF ForgetAndClose, Closed, PeerMoves, InboxMoves
  <1>4. ASSUME NEW fd \in Fds, NEW mask, NEW cb, Dispatch(fd, mask, cb), ForgetOnly(fd)
        PROVE  PeerMoves
    <2>1. fd \in open
      BY <1>4, DispatchedOnce DEF LastEntry
    <2> QED
      BY <1>0, <1>4, <2>1 DEF ForgetOnly, PeerMoves, InboxMoves, PeerStates
  <1>5. ASSUME NEW fd \in Fds, inbox[fd] # << >>,
               inbox' = [inbox EXCEPT ![fd] = << >>] \/ inbox' = [inbox EXCEPT ![fd] = Tail(@)],
               UNCHANGED <<open, backlog, peer, stalled, conns, chunks, killed>>
        PROVE  PeerMoves
    BY <1>0, <1>5 DEF PeerMoves, InboxMoves
  <1>6. ASSUME NEW fd \in Fds, NEW mask, NEW cb, Dispatch(fd, mask, cb), Filled(fd),
               UNCHANGED <<open, backlog, peer, inbox, conns, chunks, killed>>
        PROVE  PeerMoves
    <2>1. fd \in open
      BY <1>6, DispatchedOnce DEF LastEntry
    <2> QED
      BY <1>0, <1>6, <2>1 DEF Filled, PeerMoves, InboxMoves
  <1>7. ASSUME NEW fd \in Fds, SendBody(fd) PROVE PeerMoves
    <2>1. fd \in open
      BY <1>7, TypesGive DEF SendBody, LoopInv, SendfileIsAlone
    <2>2. peer' = peer \/ peer' = [peer EXCEPT ![fd] = "gone"]
      BY <1>0, <1>7 DEF SendBody
    <2> QED
      BY <1>0, <1>7, <2>1, <2>2 DEF SendBody, Filled, PeerMoves, InboxMoves, PeerStates
  <1>8. CASE program = "http" /\ http_run
    BY <1>0, <1>1, <1>2, <1>3, <1>4, <1>5, <1>6, <1>7, <1>8
    DEF http_run, http_recv_cb, http_send_cb, HttpRecvChunk, HttpRecvEnd, HttpRecvError,
        SendHeader, HttpSendFails, HttpSendKills, BodyKills, sockVars, PeerMoves, InboxMoves
  <1>9. CASE program = "websocket" /\ ws_run
    BY <1>0, <1>1, <1>2, <1>3, <1>4, <1>5, <1>6, <1>9
    DEF ws_run, ws_recv_cb, ws_send_cb, WsRecvChunk, WsRecvEnd, WsRecvError, Forget,
        Send101, WsSendFails, WsSendKills, sockVars, PeerMoves, InboxMoves
  <1>10. CASE Clients
    <2>1. killed' \in BOOLEAN /\ UNCHANGED open
      BY <1>0, <1>10 DEF Clients, serverFrame, clientFrame
    <2>2. CASE Connect \/ GiveUp
      BY <1>0, <2>1, <2>2 DEF Connect, GiveUp, PeerMoves, InboxMoves
    <2>3. ASSUME NEW fd \in Fds, NEW kind \in Sendable, SendChunk(fd, kind) PROVE PeerMoves
      <3>1. kind \in Kinds
        BY ReactorsAssumption DEF Sendable
      <3> QED
        <4>1. InboxMoves
          BY <2>3, <3>1 DEF SendChunk, InboxMoves
        <4> QED
          BY <1>0, <2>1, <2>3, <4>1 DEF SendChunk, PeerMoves
    <2>4. ASSUME NEW fd \in Fds, NEW how \in {"fin", "rst", "err"}, Leave(fd, how)
          PROVE  PeerMoves
      <3>1. fd \in open
        BY <1>0, <2>4 DEF Leave
      <3> QED
        BY <1>0, <2>1, <2>4, <3>1 DEF Leave, PeerMoves, InboxMoves, PeerStates
    <2>5. ASSUME NEW fd \in Fds, Drain(fd) PROVE PeerMoves
      BY <1>0, <2>1, <2>5 DEF Drain, PeerMoves, InboxMoves
    <2> QED
      BY <1>10, <2>2, <2>3, <2>4, <2>5 DEF Clients
  <1>11. CASE UNCHANGED vars
    BY <1>0, <1>11 DEF vars, slotVars, sockVars, PeerMoves, InboxMoves
  <1> QED
    BY <1>8, <1>9, <1>10, <1>11 DEF Next, ntyreactor_run

\* The sockets keep their types, and a descriptor without a peer is closed.
LEMMA SocketsNext ==
  ASSUME TypeOK, LoopInv, [Next]_vars
  PROVE  /\ backlog' \in Nat /\ killed' \in BOOLEAN /\ conns' \in Nat /\ chunks' \in Nat
         /\ peer' \in [Fds -> PeerStates] /\ inbox' \in [Fds -> Seq(Kinds)]
         /\ stalled' \subseteq open'
         /\ \A fd \in Fds : peer'[fd] = "none" <=> fd \notin open'
  <1>0. /\ open \subseteq Fds /\ peer \in [Fds -> PeerStates] /\ stalled \subseteq open
        /\ inbox \in [Fds -> Seq(Kinds)]
        /\ \A fd \in Fds : peer[fd] = "none" <=> fd \notin open
    BY DEF TypeOK, ReactorTypeOK, SocketsTypeOK
  <1>1. PeerMoves
    BY PeerEffect
  <1>2. inbox' \in [Fds -> Seq(Kinds)]
    BY <1>0, <1>1, InboxTyped DEF PeerMoves
  <1>3. /\ peer' \in [Fds -> PeerStates] /\ stalled' \subseteq open'
        /\ \A fd \in Fds : peer'[fd] = "none" <=> fd \notin open'
    BY <1>0, <1>1 DEF PeerMoves, PeerStates
  <1> QED
    BY <1>1, <1>2, <1>3 DEF PeerMoves

\* Neither a callback nor a client changes the other server's variables; the
\* http ones keep their types, and a slot is a POST only after one came.
LEMMA HttpNext ==
  ASSUME TypeOK, LoopInv, PostsRecorded, [Next]_vars
  PROVE  /\ method' \in [Fds -> {"GET", "POST"}]
         /\ resource' \subseteq Fds /\ formatted' \subseteq Fds /\ posted' \subseteq Fds
         /\ PostsRecorded'
  <1> DEFINE Goal == /\ method' \in [Fds -> {"GET", "POST"}]
                     /\ resource' \subseteq Fds /\ formatted' \subseteq Fds /\ posted' \subseteq Fds
                     /\ PostsRecorded'
  <1>0. /\ method \in [Fds -> {"GET", "POST"}]
        /\ resource \subseteq Fds /\ formatted \subseteq Fds /\ posted \subseteq Fds
        /\ PostsRecorded
    BY DEF TypeOK, HttpTypeOK
  <1>1. ASSUME UNCHANGED <<method, resource, formatted, posted>> PROVE Goal
    BY <1>0, <1>1 DEF PostsRecorded
  <1>2. ASSUME NEW fd \in Fds, NEW kind, nty_http_request(fd, kind), UNCHANGED formatted
        PROVE  Goal
    BY <1>0, <1>2 DEF nty_http_request, PostsRecorded
  <1>3. ASSUME NEW fd \in Fds, nty_http_response(fd), UNCHANGED <<method, resource, posted>>
        PROVE  Goal
    BY <1>0, <1>3 DEF nty_http_response, PostsRecorded
  <1>4. CASE http_run
    BY <1>1, <1>2, <1>3, <1>4
    DEF http_run, http_recv_cb, http_send_cb, HttpRecvChunk, HttpRecvEnd, HttpRecvError,
        SendHeader, HttpSendFails, HttpSendKills, SendBody, BodyKills, httpVars
  <1>5. CASE UNCHANGED httpVars
    BY <1>1, <1>5 DEF httpVars
  <1> QED
    BY <1>4, <1>5 DEF Next, ntyreactor_run, Clients, serverFrame, vars

\* The websocket server's variables keep their types.
LEMMA WsNext ==
  ASSUME TypeOK, LoopInv, [Next]_vars
  PROVE  WsTypeOK'
  <1>0. /\ wsstatus \in [Fds -> {"handshark", "tranmission"}]
        /\ sec_accept \in [Fds -> Nat] /\ gen \in [Fds -> Nat]
        /\ first \in [Fds -> Kinds \cup {"none"}] /\ told \in [Fds -> SUBSET Nat]
        /\ inbox \in [Fds -> Seq(Kinds)]
    BY DEF TypeOK, WsTypeOK, ReactorTypeOK, SocketsTypeOK
  <1>1. ASSUME UNCHANGED wsVars PROVE WsTypeOK'
    BY <1>0, <1>1 DEF wsVars, WsTypeOK
  <1>2. ASSUME NEW fd \in Fds, NEW kind, ws_request(fd, kind)
        PROVE  /\ wsstatus' \in [Fds -> {"handshark", "tranmission"}]
               /\ sec_accept' \in [Fds -> Nat]
    BY <1>0, <1>2 DEF ws_request
  <1>3. ASSUME NEW fd \in Fds, WsRecvChunk(fd) PROVE WsTypeOK'
    <2>1. Head(inbox[fd]) \in Kinds
      BY <1>0, <1>3, ChunkTyped DEF WsRecvChunk
    <2>2. first' \in [Fds -> Kinds \cup {"none"}] /\ told' = told
      BY <1>0, <1>3, <2>1 DEF WsRecvChunk
    <2>3. \E kind : ws_request(fd, kind)
      BY <1>3 DEF WsRecvChunk
    <2> QED
      BY <1>0, <1>2, <2>2, <2>3 DEF WsTypeOK
  <1>4. ASSUME NEW fd \in Fds, Forget(fd) PROVE WsTypeOK'
    BY <1>0, <1>4 DEF Forget, WsTypeOK
  <1>5. ASSUME NEW fd \in Fds, Send101(fd) PROVE WsTypeOK'
    <2>1. told' \in [Fds -> SUBSET Nat]
      BY <1>0, <1>5 DEF Send101
    <2> QED
      BY <1>0, <1>5, <2>1 DEF Send101, WsTypeOK
  <1>6. ASSUME NEW fd \in Fds, WsSendKills(fd) PROVE WsTypeOK'
    BY <1>1, <1>6 DEF WsSendKills, wsVars
  <1>7. CASE ws_run
    BY <1>1, <1>3, <1>4, <1>5, <1>6, <1>7
    DEF ws_run, ws_recv_cb, ws_send_cb, WsRecvEnd, WsRecvError, WsSendFails
  <1> QED
    BY <1>1, <1>7 DEF Next, ntyreactor_run, Clients, serverFrame, vars

\* Both servers begin in the invariant.
LEMMA RInvInit == Init => RInv
  <1> SUFFICES ASSUME Init PROVE RInv
    OBVIOUS
  <1>0. EmptySlot \in SlotType /\ EmptySlot.kernel = "none"
    BY DEF EmptySlot, SlotType
  <1>1. TypeOK
    <2>1. ReactorTypeOK
      <3>1. inbox \in [Fds -> Seq(Kinds)] /\ peer \in [Fds -> PeerStates]
        BY DEF Init, ReactorInit, SocketsInit, PeerStates
      <3>2. ev \in [Fds -> SlotType]
        BY <1>0 DEF Init, ReactorInit
      <3>3. SocketsTypeOK
        BY <3>1 DEF Init, ReactorInit, SocketsInit, SocketsTypeOK
      <3> QED
        BY <3>2, <3>3 DEF Init, ReactorInit, SocketsInit, ReactorTypeOK, SlotType
    <2>2. HttpTypeOK
      BY DEF Init, HttpInit, HttpTypeOK
    <2>3. WsTypeOK
      BY DEF Init, WsInit, WsTypeOK
    <2> QED
      BY <2>1, <2>2, <2>3 DEF Init, TypeOK
  <1>2. LoopInv
    BY DEF Init, ReactorInit, SocketsInit, HttpInit, EmptySlot, LoopInv, SlotsMatchKernel,
           LiveClientsWatched, NoStaleEvent, EntriesAreCurrent, OneAnswerPerChunk,
           SendfileIsAlone
  <1> QED
    BY <1>1, <1>2 DEF Init, HttpInit, RInv, PostsRecorded

\* Every step of the loop, of a callback and of a client keeps it.
LEMMA RInvNext == RInv /\ [Next]_vars => RInv'
  <1> SUFFICES ASSUME RInv, [Next]_vars PROVE RInv'
    OBVIOUS
  <1>1. TypeOK /\ LoopInv /\ PostsRecorded
    BY DEF RInv
  <1>2. ReactorTypeOK' /\ program' \in {"http", "websocket"} /\ LoopInv'
    BY <1>1, LoopNext, SocketsNext DEF ReactorTypeOK, SocketsTypeOK, SlotType
  <1>3. HttpTypeOK' /\ PostsRecorded'
    BY <1>1, LoopNext, HttpNext DEF HttpTypeOK
  <1>4. WsTypeOK'
    BY <1>1, WsNext
  <1> QED
    BY <1>2, <1>3, <1>4 DEF RInv, TypeOK

\* The inductive invariant holds in every reachable state.
THEOREM ReactorInductive == Spec => []RInv
  BY RInvInit, RInvNext, PTL DEF Spec

\* Lines 93-128 and 423-472: with any number of descriptors, in either server, a
\* slot's status says whether the kernel watches the descriptor and what for, a
\* closed descriptor's slot is free, and no live client is forgotten.
THEOREM SlotsCorrect == Spec => []SlotInv
  <1>1. RInv => SlotInv
    BY DEF RInv, LoopInv, SlotInv
  <1> QED
    BY <1>1, ReactorInductive, PTL

\* Lines 562-573: an entry of epoll_wait is handled for the connection and the
\* direction it was reported for, although callbacks before it in the batch
\* close descriptors and accept gives them out again.
THEOREM EntriesNeverStale == Spec => []NoStaleEvent
  <1>1. RInv => NoStaleEvent
    BY DEF RInv, LoopInv
  <1> QED
    BY <1>1, ReactorInductive, PTL

\* Lines 264-267 and 299-329: a descriptor owes an answer exactly while it waits
\* for EPOLLOUT, and never more than one.
THEOREM AnswersMatchChunks == Spec => []OneAnswerPerChunk
  <1>1. RInv => OneAnswerPerChunk
    BY DEF RInv, LoopInv
  <1> QED
    BY <1>1, ReactorInductive, PTL
-----------------------------------------------------------------------------
(* Hanging up *)

\* The server closes a live client only in HttpSendFails, with nothing to send.
LEMMA HangUpNext ==
  ASSUME RInv, [Next]_vars, program = "http"
  PROVE  HangUpIsAfterPost
  <1>0. /\ method \in [Fds -> {"GET", "POST"}] /\ PostsRecorded
        /\ open \subseteq Fds /\ peer \in [Fds -> PeerStates]
    BY TypesGive DEF RInv, TypeOK, HttpTypeOK
  <1> SUFFICES ASSUME NEW fd \in open \ open', peer[fd] = "up"
               PROVE  fd \in posted /\ fd \notin formatted
    BY DEF HangUpIsAfterPost
  <1>1. ASSUME NEW f \in Fds, HttpSendFails(f) PROVE fd \in posted /\ fd \notin formatted
    <2>1. fd = f
      BY <1>1 DEF HttpSendFails, ForgetAndClose, Closed
    <2>2. fd \notin formatted'
      BY <1>1, <2>1 DEF HttpSendFails
    <2>3. method[fd] # "GET" /\ fd \notin formatted
      BY <1>1, <2>1, <2>2 DEF HttpSendFails, nty_http_response
    <2> QED
      BY <1>0, <2>3 DEF PostsRecorded
  <1>2. ASSUME NEW f \in Fds, HttpRecvEnd(f) PROVE FALSE
    <2>1. fd = f
      BY <1>2 DEF HttpRecvEnd, ForgetAndClose, Closed
    <2> QED
      BY <1>2, <2>1 DEF HttpRecvEnd
  <1>3. CASE http_run
    <2>1. \E f \in Fds : HttpSendFails(f) \/ HttpRecvEnd(f)
      BY <1>3
      DEF http_run, epoll_wait, AcceptFails, accept_cb, Accepted, http_recv_cb, http_send_cb,
          HttpRecvChunk, HttpRecvError, ForgetOnly, SendHeader, HttpSendKills, SendBody,
          BodyKills, sockVars
    <2> QED
      BY <1>1, <1>2, <2>1
  <1>4. CASE Clients \/ UNCHANGED vars
    BY <1>4 DEF Clients, serverFrame, clientFrame, vars, sockVars
  <1> QED
    BY <1>3, <1>4 DEF Next, ntyreactor_run

\* Lines 235-242 and 301-335 of the http reactor: the server hangs up on a
\* client that is there only if a POST came on its descriptor and no GET was
\* ever answered on it.
THEOREM HangsUpAfterPost == Spec => HangsUpOnlyAfterPost
  <1>1. RInv /\ [Next]_vars => [program = "http" => HangUpIsAfterPost]_vars
    BY HangUpNext
  <1> QED
    BY <1>1, ReactorInductive, PTL DEF Spec, HangsUpOnlyAfterPost
-----------------------------------------------------------------------------
(* The accept keys of the websocket reactor *)

\* What a slot's handshake state says about the connections it has served.  Only
\* a descriptor's first connection finds the slot in WS_HANDSHARK; from its first
\* chunk on the slot's key does not change, and it is all a client is told.
KeyKept(fd) ==
  /\ program = "http" => wsstatus[fd] = "handshark" /\ first[fd] = "none" /\ told[fd] = {}
  /\ fd \notin open => first[fd] = "none" /\ told[fd] = {}
  /\ gen[fd] = 0 => fd \notin open /\ wsstatus[fd] = "handshark"
  /\ gen[fd] = 1 /\ fd \in open /\ first[fd] = "none" => wsstatus[fd] = "handshark"
  /\ program = "websocket" /\ ev[fd].kernel = "out" => first[fd] # "none"
  /\ first[fd] # "none" => wsstatus[fd] = "tranmission"
  /\ told[fd] # {} => first[fd] # "none"
  /\ told[fd] \subseteq {sec_accept[fd]}
  /\ gen[fd] = 1 /\ first[fd] = "key" => sec_accept[fd] = 1

KeyLedger == \A fd \in Fds : KeyKept(fd)

\* What a step may do to a slot's keys: nothing, and then the slot may have been
\* given to the next connection; a chunk came; an answer went out; it is closed.
KeysQuiet ==
  /\ UNCHANGED <<program, open, gen, wsVars>>
  /\ program = "websocket" =>
       \A fd \in Fds : ev'[fd].kernel = "out" => ev[fd].kernel = "out"
KeysAdmit(fd) ==
  /\ fd \in Fds \ open /\ open' = open \cup {fd}
  /\ gen' = [gen EXCEPT ![fd] = @ + 1]
  /\ \A other \in Fds : ev'[other].kernel = "out" => ev[other].kernel = "out"
  /\ UNCHANGED <<program, wsVars>>
HttpCloses ==
  /\ program = "http" /\ open' \subseteq open /\ UNCHANGED <<program, gen, wsVars>>
KeysArrive(fd) ==
  /\ fd \in open /\ program = "websocket"
  /\ \E kind : ws_request(fd, kind) /\ (Head(inbox[fd]) = "key" => kind = "key")
  /\ Head(inbox[fd]) \in Kinds
  /\ first' = [first EXCEPT ![fd] = IF @ = "none" THEN Head(inbox[fd]) ELSE @]
  /\ \A other \in Fds \ {fd} : ev'[other] = ev[other]
  /\ UNCHANGED <<program, open, gen, told>>
KeysTold(fd) ==
  /\ fd \in open /\ program = "websocket" /\ ev[fd].kernel = "out"
  /\ told' = [told EXCEPT ![fd] = @ \cup {sec_accept[fd]}]
  /\ \A other \in Fds : ev'[other].kernel = "out" => ev[other].kernel = "out"
  /\ UNCHANGED <<program, open, gen, first, wsstatus, sec_accept>>
KeysClose(fd) ==
  /\ program = "websocket" /\ open' = open \ {fd} /\ ev'[fd].kernel = "none"
  /\ first' = [first EXCEPT ![fd] = "none"] /\ told' = [told EXCEPT ![fd] = {}]
  /\ \A other \in Fds \ {fd} : ev'[other] = ev[other]
  /\ UNCHANGED <<program, gen, wsstatus, sec_accept>>

\* Turning one slot leaves the others as they are.
LEMMA TurnToOne ==
  ASSUME RInv, NEW fd \in Fds, NEW mask \in Masks, TurnTo(fd, mask)
  PROVE  ev'[fd].kernel = mask /\ \A other \in Fds \ {fd} : ev'[other] = ev[other]
  <1>1. ev \in [Fds -> SlotType] /\ Matches(ev[fd])
    BY TypesGive, SlotsMatch DEF RInv, LoopInv
  <1>2. ev' = [ev EXCEPT ![fd] = Turned(@, mask)]
    BY TurnToTurns
  <1>3. Turned(ev[fd], mask).kernel = mask
    BY <1>1, TurnedMatches
  <1> QED
    BY <1>1, <1>2, <1>3

\* Every step does one of these.
LEMMA KeysEffect ==
  ASSUME RInv, [Next]_vars
  PROVE  \/ KeysQuiet \/ HttpCloses
         \/ \E fd \in Fds : KeysAdmit(fd) \/ KeysArrive(fd) \/ KeysTold(fd) \/ KeysClose(fd)
  <1>0. /\ TypeOK /\ LoopInv /\ ev \in [Fds -> SlotType] /\ open \subseteq Fds
        /\ \A fd \in Fds : Matches(ev[fd]) /\ (fd \notin open => ev[fd].status = 0)
        /\ inbox \in [Fds -> Seq(Kinds)] /\ "in" \in Masks /\ "out" \in Masks
    BY TypesGive, SlotsMatch
    DEF RInv, LoopInv, TypeOK, ReactorTypeOK, SocketsTypeOK, Masks
  <1>1. ASSUME UNCHANGED <<program, open, gen, ev, wsVars>> PROVE KeysQuiet
    BY <1>1 DEF KeysQuiet
  <1>2. ASSUME accept_cb, UNCHANGED wsVars PROVE \E fd \in Fds : KeysAdmit(fd)
    <2>1. PICK fd \in Fds : /\ Accepted(fd)
                            /\ ev' = [ev EXCEPT ![fd] = Admitted(@)]
      BY <1>2 DEF accept_cb, Admitted
    <2>2. fd \notin open /\ ev[fd].status = 0
      BY <1>0, <2>1 DEF Accepted
    <2>3. Admitted(ev[fd]).kernel = "in"
      BY <1>0, <2>2, AdmittedMatches
    <2>4. KeysAdmit(fd)
      BY <1>0, <1>2, <2>1, <2>2, <2>3 DEF accept_cb, Accepted, KeysAdmit
    <2> QED
      BY <2>4
  <1>3. CASE program = "http" /\ http_run /\ UNCHANGED wsVars
    <2>1. CASE accept_cb
      BY <1>2, <1>3, <2>1
    <2>2. CASE ~accept_cb
      <3>1. open' \subseteq open /\ UNCHANGED <<program, gen>>
        BY <1>3, <2>2
        DEF http_run, epoll_wait, AcceptFails, http_recv_cb, http_send_cb, HttpRecvChunk,
            HttpRecvEnd, HttpRecvError, ForgetAndClose, Closed, ForgetOnly, SendHeader,
            HttpSendFails, HttpSendKills, SendBody, BodyKills, sockVars, slotVars
      <3> QED
        BY <1>3, <3>1 DEF HttpCloses
    <2> QED
      BY <2>1, <2>2
  <1>4. ASSUME NEW fd \in Fds, Forget(fd), program = "websocket" PROVE KeysClose(fd)
    <2>1. Forgotten(ev[fd]).kernel = "none"
      BY <1>0, ForgottenMatches
    <2>2. ev' = [ev EXCEPT ![fd] = Forgotten(@)]
      BY <1>4 DEF Forget, ForgetAndClose, Forgotten
    <2> QED
      BY <1>0, <1>4, <2>1, <2>2 DEF Forget, ForgetAndClose, Closed, KeysClose
  <1>5. ASSUME NEW fd \in Fds, WsRecvChunk(fd), program = "websocket" PROVE KeysArrive(fd)
    <2>1. fd \in open
      BY <1>0, <1>5, DispatchedOnce DEF WsRecvChunk, LastEntry
    <2>2. \A other \in Fds \ {fd} : ev'[other] = ev[other]
      BY <1>0, <1>5, TurnToOne DEF WsRecvChunk
    <2>3. Head(inbox[fd]) \in Kinds /\ Head(inbox[fd]) = inbox[fd][1]
      BY <1>0, <1>5, ChunkTyped DEF WsRecvChunk
    <2>4. \E kind : ws_request(fd, kind) /\ (Head(inbox[fd]) = "key" => kind = "key")
      <3>1. CASE ws_request(fd, Head(inbox[fd]))
        BY <3>1
      <3>2. CASE \E i \in DOMAIN inbox[fd] : /\ Head(inbox[fd]) = "key" => i = 1
                                             /\ ws_request(fd, inbox[fd][i])
        BY <2>3, <3>2
      <3> QED
        BY <1>5, <3>1, <3>2 DEF WsRecvChunk
    <2> QED
      BY <1>5, <2>1, <2>2, <2>3, <2>4 DEF WsRecvChunk, KeysArrive
  <1>6. ASSUME NEW fd \in Fds, Send101(fd), program = "websocket" PROVE KeysTold(fd)
    <2>1. fd \in open /\ ev[fd].kernel = "out"
      BY <1>0, <1>6, DispatchedOnce DEF Send101, LastEntry
    <2>2. ev'[fd].kernel = "in" /\ \A other \in Fds \ {fd} : ev'[other] = ev[other]
      BY <1>0, <1>6, TurnToOne DEF Send101
    <2> QED
      BY <1>6, <2>1, <2>2 DEF Send101, KeysTold
  <1>7. ASSUME NEW fd \in Fds, WsRecvError(fd) PROVE KeysQuiet
    <2>1. nty_event_del(ev[fd]).kernel = "none"
      BY <1>0, DelMatches
    <2> QED
      BY <1>0, <1>7, <2>1 DEF WsRecvError, ForgetOnly, KeysQuiet
  <1>8. CASE program = "websocket" /\ ws_run
    BY <1>1, <1>2, <1>4, <1>5, <1>6, <1>7, <1>8
    DEF ws_run, epoll_wait, AcceptFails, ws_recv_cb, ws_send_cb, WsRecvEnd, WsSendFails,
        WsSendKills, wsVars, sockVars
  <1>9. CASE Clients \/ UNCHANGED vars
    BY <1>1, <1>9 DEF Clients, serverFrame, clientFrame, vars, sockVars, slotVars
  <1> QED
    BY <1>3, <1>8, <1>9 DEF Next, ntyreactor_run

\* Every step keeps the ledger of keys.
LEMMA KeyNext == RInv /\ KeyLedger /\ [Next]_vars => KeyLedger'
  <1> SUFFICES ASSUME RInv, KeyLedger, [Next]_vars, NEW fd \in Fds PROVE KeyKept(fd)'
    BY DEF KeyLedger
  <1>0. /\ wsstatus \in [Fds -> {"handshark", "tranmission"}]
        /\ sec_accept \in [Fds -> Nat] /\ gen \in [Fds -> Nat]
        /\ first \in [Fds -> Kinds \cup {"none"}] /\ told \in [Fds -> SUBSET Nat]
        /\ program \in {"http", "websocket"} /\ KeyKept(fd) /\ "none" \notin Kinds
    BY ReactorsAssumption
    DEF RInv, TypeOK, WsTypeOK, ReactorTypeOK, SocketsTypeOK, KeyLedger
  <1>1. CASE KeysQuiet
    BY <1>0, <1>1 DEF KeysQuiet, KeyKept, wsVars
  <1>2. CASE HttpCloses
    BY <1>0, <1>2 DEF HttpCloses, KeyKept, wsVars
  <1>3. ASSUME NEW f \in Fds, KeysAdmit(f) PROVE KeyKept(fd)'
    BY <1>0, <1>3 DEF KeysAdmit, KeyKept, wsVars
  <1>4. ASSUME NEW f \in Fds, KeysTold(f) PROVE KeyKept(fd)'
    BY <1>0, <1>4 DEF KeysTold, KeyKept
  <1>5. ASSUME NEW f \in Fds, KeysClose(f) PROVE KeyKept(fd)'
    BY <1>0, <1>5 DEF KeysClose, KeyKept
  <1>6. ASSUME NEW f \in Fds, KeysArrive(f) PROVE KeyKept(fd)'
    <2>1. PICK kind : ws_request(f, kind) /\ (Head(inbox[f]) = "key" => kind = "key")
      BY <1>6 DEF KeysArrive
    <2>2. CASE f # fd
      <3>1. UNCHANGED <<wsstatus[fd], sec_accept[fd], first[fd], ev[fd]>>
        BY <1>0, <1>6, <2>1, <2>2 DEF KeysArrive, ws_request
      <3> QED
        BY <1>0, <1>6, <3>1 DEF KeysArrive, KeyKept
    <2>3. CASE f = fd /\ first[fd] # "none"
      <3>1. UNCHANGED <<wsstatus, sec_accept>> /\ first'[fd] = first[fd]
        BY <1>0, <1>6, <2>1, <2>3 DEF KeysArrive, KeyKept, ws_request
      <3> QED
        BY <1>0, <1>6, <2>3, <3>1 DEF KeysArrive, KeyKept
    <2>4. CASE f = fd /\ first[fd] = "none"
      <3>1. /\ first'[fd] = Head(inbox[fd]) /\ first'[fd] # "none"
            /\ wsstatus'[fd] = "tranmission"
        BY <1>0, <1>6, <2>1, <2>4 DEF KeysArrive, ws_request
      <3>2. gen[fd] = 1 /\ first'[fd] = "key" => sec_accept'[fd] = 1
        BY <1>0, <1>6, <2>1, <2>4, <3>1 DEF KeysArrive, KeyKept, ws_request
      <3> QED
        BY <1>0, <1>6, <2>4, <3>1, <3>2 DEF KeysArrive, KeyKept
    <2> QED
      BY <2>2, <2>3, <2>4
  <1> QED
    BY <1>1, <1>2, <1>3, <1>4, <1>5, <1>6, KeysEffect

\* Lines 253-270 of the websocket reactor: with any number of clients, each is
\* told one accept key as long as it is connected, and a descriptor's first
\* client that begins with its key is told its own.
THEOREM FirstClientServed == Spec => []FirstClientGetsItsKey
  <1>1. Init => KeyLedger
    BY DEF Init, ReactorInit, SocketsInit, WsInit, KeyLedger, KeyKept, EmptySlot
  <1>2. RInv /\ KeyLedger => FirstClientGetsItsKey
    <2> SUFFICES ASSUME RInv, KeyLedger, NEW fd \in open
                 PROVE  /\ Cardinality(told[fd]) <= 1
                        /\ gen[fd] = 1 /\ first[fd] = "key" => told[fd] \subseteq {1}
      BY DEF FirstClientGetsItsKey
    <2>1. KeyKept(fd)
      BY TypesGive DEF RInv, KeyLedger
    <2>2. Cardinality(told[fd]) <= 1
      <3>1. told[fd] = {} \/ told[fd] = {sec_accept[fd]}
        BY <2>1 DEF KeyKept
      <3>2. Cardinality({}) = 0
        BY FS_EmptySet
      <3>3. Cardinality({sec_accept[fd]}) = 1
        BY FS_Singleton
      <3> QED
        BY <3>1, <3>2, <3>3
    <2> QED
      BY <2>1, <2>2 DEF KeyKept
  <1> QED
    BY <1>1, <1>2, KeyNext, ReactorInductive, PTL DEF Spec
=============================================================================
