------------------------- MODULE EchoServers_proofs -------------------------
(***************************************************************************)
(* What is proved of the eight echo servers, for any number of descriptors,*)
(* connections and chunks and any size of buffer: ItemInv, EchoesInOrder   *)
(* and NoLostEdge.                                                         *)
(*                                                                         *)
(* EchoInv is inductive, in two layers.  LoopInv is about items, kernel    *)
(* and entries: an entry is current because its descriptor is turned only  *)
(* while it is handled and has no other entry.  PiecesInv, beside it, is   *)
(* about what was received and sent: what is pending is in a buffer that   *)
(* no other connection is received into, but for server3.c's, whose losses *)
(* are recorded.  Each layer is proved against the few things that a step  *)
(* of any of the eight programs may do to it.                              *)
(***************************************************************************)
EXTENDS EchoServers, SequenceTheorems, FiniteSetTheorems, TLAPS

Io == Blocking \cup {ET}

\* Only the servers of zero_threadpool/io are ever in the middle of a
\* connection, and they never wait for EPOLLOUT.
BusyInIo ==
  /\ busy # 0 => program \in Io
  /\ program \in Io => \A fd \in Fds : ev[fd].kernel # "out"
  /\ program \in Blocking /\ busy # 0 => ev[busy].kernel = "in"

\* A closed descriptor has nothing of its connection, and a connection has not
\* given more pieces than clients have sent chunks.
Histories ==
  /\ chunks <= MaxChunks
  /\ \A fd \in Fds :
       /\ fd \notin open => inbox[fd] = << >> /\ got[fd] = << >> /\ sent[fd] = << >>
       /\ Len(got[fd]) + Len(inbox[fd]) <= chunks

\* What the pieces of a connection hold.
Held(pieces) == UNION {Range(pieces[i]) : i \in DOMAIN pieces}

\* A buffer that is overwritten in place keeps its length, and one that is a
\* connection's own holds only what that connection gave.
Buffers ==
  /\ program \in C1000k => \A fd \in open : Len(buffer[BufferOf(fd)]) = BUFFER_LENGTH
  /\ program \in {"server3", "server_selete"} => Len(buffer[0]) = BUFFER_LENGTH
  /\ program \in {"server", "server2"} =>
       \A fd \in open : Range(buffer[fd]) \subseteq {0} \cup Held(got[fd])
-----------------------------------------------------------------------------
(* The items, the kernel's list and the entries in hand *)

ItemType == [events : Masks \cup {"none"}, kernel : Masks \cup {"none"}]

\* TypeOK without what is counted, sent and buffered.
LoopTypes ==
  /\ program \in Programs /\ blkcnt \in Nat /\ open \subseteq Fds /\ gen \in [Fds -> Nat]
  /\ batch \subseteq [fd : Fds \cup {0}, mask : Masks, gen : Nat]
  /\ peer \in [Fds -> PeerStates] /\ \A fd \in Fds : peer[fd] = "none" <=> fd \notin open
  /\ ev \in [Fds -> ItemType] /\ busy \in open \cup {0}

Blocks == program = "server" => \A fd \in open : fd \div BlockSize < blkcnt

LoopInv == LoopTypes /\ ItemsMatchKernel /\ EntriesAreCurrent /\ BusyInIo /\ Blocks

PeersKept ==
  /\ peer' \in [Fds -> PeerStates]
  /\ \A fd \in Fds : peer'[fd] = "none" <=> peer[fd] = "none"

\* No item changes; entries may be given up.
Quiet ==
  /\ UNCHANGED <<program, ev, blkcnt, open, gen, busy>>
  /\ batch' \subseteq batch /\ PeersKept

Waits ==
  /\ batch = {} /\ batch' \subseteq Ready
  /\ UNCHANGED <<program, ev, blkcnt, open, gen, busy, peer>>

\* accept: the descriptor is watched, or is the one the thread is busy with.
Opens(fd) ==
  /\ fd \in Fds \ open /\ batch' \subseteq batch
  /\ open' = open \cup {fd}
  /\ gen' = [gen EXCEPT ![fd] = @ + 1] /\ peer' = [peer EXCEPT ![fd] = "up"]
  /\ IF program = "server" THEN BlocksFor(fd) ELSE UNCHANGED blkcnt
  /\ \/ /\ ev' = [ev EXCEPT ![fd] = [events |-> IF program = "server_reactor" THEN "in" ELSE @.events,
                                     kernel |-> "in"]]
        /\ UNCHANGED busy
     \/ program = ET /\ busy = 0 /\ busy' = fd /\ UNCHANGED ev
  /\ UNCHANGED program

\* No entry of the descriptor is left.
LastEntry(fd) == fd \in open /\ batch' \subseteq batch /\ \A e \in batch' : e.fd # fd

\* The descriptor is watched for something else.
Turns(fd, mask) ==
  /\ LastEntry(fd) /\ busy = 0 /\ ev[fd].kernel # "none" /\ PeersKept
  /\ mask = "out" => program \notin Io
  /\ ev' = [ev EXCEPT ![fd] = [events |-> IF program = "server_reactor" THEN mask ELSE @.events,
                               kernel |-> mask]]
  /\ UNCHANGED <<program, blkcnt, open, gen, busy>>

Closes(fd) ==
  /\ LastEntry(fd) /\ busy = 0
  /\ open' = open \ {fd} /\ peer' = [peer EXCEPT ![fd] = "none"]
  /\ ev' = [ev EXCEPT ![fd] = [events |-> IF program = "server_reactor" THEN "none" ELSE @.events,
                               kernel |-> "none"]]
  /\ UNCHANGED <<program, blkcnt, gen, busy>>

\* The thread turns to a connection, and from it; its descriptor is watched
\* before and after.
Begins(fd) ==
  /\ LastEntry(fd) /\ busy = 0 /\ busy' = fd /\ ev[fd].kernel = "in" /\ program \in Io
  /\ PeersKept /\ UNCHANGED <<program, ev, blkcnt, open, gen>>

Leaves(fd) ==
  /\ busy = fd /\ busy' = 0 /\ fd \in Fds /\ program \in Io /\ PeersKept
  /\ batch' \subseteq batch
  /\ ev[fd].kernel = "none" => program = ET
  /\ ev' = [ev EXCEPT ![fd] = [events |-> @.events, kernel |-> "in"]]
  /\ UNCHANGED <<program, blkcnt, open, gen>>

\* The shapes of the programs' names and of the entries.
LEMMA TypesGive ==
  ASSUME LoopTypes
  PROVE  /\ Fds \subseteq Nat \ {0} /\ program \in Programs
         /\ \A e \in batch : e.fd \in Fds \cup {0} /\ e.mask \in Masks /\ e.gen \in Nat
         /\ \A fd \in Fds : /\ ev[fd].kernel \in {"in", "out", "none"}
                            /\ ev[fd] = [events |-> ev[fd].events, kernel |-> ev[fd].kernel]
  BY KernelAssumption DEF LoopTypes, ItemType, Masks

\* An entry that is handled is its connection's only one, and the kernel watches
\* the descriptor for it.
LEMMA HandledOnce ==
  ASSUME LoopInv, NEW fd \in Fds, NEW mask, Handle(fd, mask)
  PROVE  LastEntry(fd) /\ ev[fd].kernel = mask /\ mask \in Masks
  <1>1. PICK e \in batch : e.fd = fd /\ e.mask = mask /\ batch' = batch \ {e}
    BY DEF Handle
  <1>2. /\ batch \subseteq [fd : Fds \cup {0}, mask : Masks, gen : Nat]
        /\ Fds \subseteq Nat \ {0}
    BY TypesGive DEF LoopInv, LoopTypes
  <1>3. \A f \in batch : f.fd = fd => /\ fd \in open /\ f.gen = gen[fd]
                                      /\ f.mask = ev[fd].kernel
    BY <1>2 DEF LoopInv, EntriesAreCurrent, Listener
  <1>4. \A f \in batch : f.fd = fd => f = e
    BY <1>1, <1>2, <1>3
  <1> QED
    BY <1>1, <1>2, <1>3, <1>4 DEF LastEntry

\* What server_reactor.c's item and the kernel's list become together.
LEMMA ItemsTurn ==
  ASSUME LoopInv, program = "server_reactor", NEW fd \in Fds
  PROVE  /\ \A mask \in Masks :
              /\ fd \notin open \/ ev[fd].kernel # mask =>
                   nreactor_set_event(ev[fd], mask) = [events |-> mask, kernel |-> mask]
              /\ ev[fd].kernel = mask => nreactor_set_event(ev[fd], mask) = ev[fd]
         /\ NoItem = [events |-> "none", kernel |-> "none"]
  <1>1. /\ ev[fd].events = ev[fd].kernel
        /\ fd \notin open => ev[fd].kernel = "none"
        /\ ev[fd].kernel \in {"in", "out", "none"}
    BY TypesGive DEF LoopInv, ItemsMatchKernel
  <1> QED
    BY <1>1 DEF nreactor_set_event, NoItem, Masks

\* An error that is reported, or none, leaves who has a client.
LEMMA PeersStay ==
  ASSUME LoopTypes, NEW fd \in open, UNCHANGED peer \/ Reported(fd)
  PROVE  PeersKept
  <1>1. fd \in Fds /\ peer \in [Fds -> PeerStates] /\ peer[fd] # "none"
    BY DEF LoopTypes
  <1> QED
    BY <1>1 DEF PeersKept, Reported, PeerStates

\* What server_reactor.c does to the items.
LEMMA ReactorEffect ==
  ASSUME LoopInv, program = "server_reactor", reactor_loop
  PROVE  \/ Quiet \/ Waits
         \/ \E fd \in Fds : Opens(fd) \/ Closes(fd) \/ \E mask \in Masks : Turns(fd, mask)
  <1>0. /\ LoopTypes /\ "in" \in Masks /\ "out" \in Masks /\ busy = 0 /\ program \notin Io
        /\ program # "server" /\ program # ET
    BY DEF LoopInv, BusyInIo, Masks, Io, Blocking, ET
  <1>1. CASE epoll_wait /\ UNCHANGED echoVars
    BY <1>1 DEF epoll_wait, Waits, sockVars, echoVars
  <1>2. CASE accept_callback
    <2>1. CASE open = Fds /\ UNCHANGED <<ev, sockVars>>
      BY <1>0, <1>2, <2>1 DEF accept_callback, Quiet, PeersKept, sockVars, echoVars, LoopTypes
    <2>2. CASE \E fd \in Fds :
                 Accepted(fd) /\ ev' = [ev EXCEPT ![fd] = nreactor_set_event(@, "in")]
      <3>1. PICK fd \in Fds :
              Accepted(fd) /\ ev' = [ev EXCEPT ![fd] = nreactor_set_event(@, "in")]
        BY <2>2
      <3>2. fd \in Fds \ open
        BY <3>1 DEF Accepted
      <3>3. nreactor_set_event(ev[fd], "in") = [events |-> "in", kernel |-> "in"]
        BY <1>0, <3>2, ItemsTurn
      <3>4. Opens(fd)
        BY <1>0, <1>2, <3>1, <3>2, <3>3 DEF accept_callback, Accepted, Opens, echoVars
      <3> QED
        BY <3>4
    <2> QED
      BY <1>2, <2>1, <2>2 DEF accept_callback
  <1>3. ASSUME NEW fd \in Fds, read_callback(fd)
        PROVE  Quiet \/ Closes(fd) \/ Turns(fd, "out")
    <2>0. LastEntry(fd) /\ ev[fd].kernel = "in" /\ fd \in open
      <3>1. Handle(fd, "in")
        BY <1>3 DEF read_callback, ReadSome, ReadEnd, ReadError
      <3> QED
        BY <3>1, HandledOnce DEF LastEntry
    <2>1. CASE ReadSome(fd)
      <3>1. nreactor_set_event(ev[fd], "out") = [events |-> "out", kernel |-> "out"]
        BY <1>0, <2>0, ItemsTurn
      <3>2. PeersKept
        BY <1>0, <2>0, <2>1, PeersStay DEF ReadSome
      <3> QED
        BY <1>0, <2>0, <2>1, <3>1, <3>2 DEF ReadSome, Turns, frame, ioVars
    <2>2. CASE ReadEnd(fd)
      BY <1>0, <2>0, <2>2 DEF ReadEnd, Closes, Hangup, Closed, nreactor_del_event, NoItem
    <2>3. CASE ReadError(fd)
      <3>1. PeersKept
        BY <1>0, <2>0, <2>3, PeersStay DEF ReadError
      <3> QED
        BY <2>0, <2>3, <3>1 DEF ReadError, Quiet, frame, echoVars, LastEntry
    <2> QED
      BY <1>3, <2>1, <2>2, <2>3 DEF read_callback
  <1>4. ASSUME NEW fd \in Fds, write_callback(fd)
        PROVE  Quiet \/ Turns(fd, "in")
    <2>0. LastEntry(fd) /\ ev[fd].kernel = "out" /\ fd \in open
      <3>1. Handle(fd, "out")
        BY <1>4 DEF write_callback, WriteAll, WriteFails, WriteKills
      <3> QED
        BY <3>1, HandledOnce DEF LastEntry
    <2>1. CASE WriteAll(fd)
      <3>1. nreactor_set_event(ev[fd], "in") = [events |-> "in", kernel |-> "in"]
        BY <1>0, <2>0, ItemsTurn
      <3>2. PeersKept
        BY <1>0, <2>0, <2>1, PeersStay DEF WriteAll
      <3> QED
        BY <1>0, <2>0, <2>1, <3>1, <3>2 DEF WriteAll, Turns, frame, ioVars
    <2>2. CASE WriteFails(fd)
      <3>1. nreactor_set_event(ev[fd], "out") = ev[fd] /\ ev \in [Fds -> ItemType]
        BY <1>0, <2>0, ItemsTurn DEF LoopTypes
      <3>2. ev' = ev
        BY <2>2, <3>1 DEF WriteFails
      <3>3. PeersKept
        BY <1>0, <2>0, <2>2, PeersStay DEF WriteFails
      <3> QED
        BY <2>0, <2>2, <3>2, <3>3 DEF WriteFails, Quiet, frame, echoVars, LastEntry
    <2>3. CASE WriteKills(fd)
      <3>1. PeersKept
        BY <1>0, <2>0, <2>3, PeersStay DEF WriteKills, Ends
      <3> QED
        BY <2>0, <2>3, <3>1 DEF WriteKills, Ends, Quiet, frame, echoVars, LastEntry
    <2> QED
      BY <1>4, <2>1, <2>2, <2>3 DEF write_callback
  <1> QED
    BY <1>0, <1>1, <1>2, <1>3, <1>4 DEF reactor_loop

\* What an update of the kernel's interest does to an item, for the servers
\* that keep no record of it.
LEMMA KernelTurn ==
  ASSUME LoopTypes, program # "server_reactor", NEW fd \in Fds, NEW mask \in Masks \cup {"none"},
         ev' = [ev EXCEPT ![fd].kernel = mask]
  PROVE  ev' = [ev EXCEPT ![fd] =
                  [events |-> IF program = "server_reactor" THEN mask ELSE @.events,
                   kernel |-> mask]]
  <1>1. ev[fd] \in ItemType
    BY DEF LoopTypes
  <1>2. [ev[fd] EXCEPT !.kernel = mask] = [events |-> ev[fd].events, kernel |-> mask]
    BY <1>1 DEF ItemType
  <1> QED
    BY <1>2

\* What the c1000k servers do to the items.
LEMMA C1000kEffect ==
  ASSUME LoopInv, program \in C1000k, c1000k_loop
  PROVE  \/ Quiet \/ Waits
         \/ \E fd \in Fds : Opens(fd) \/ Closes(fd) \/ \E mask \in Masks : Turns(fd, mask)
  <1>0. /\ LoopTypes /\ "in" \in Masks /\ "out" \in Masks /\ busy = 0 /\ program \notin Io
        /\ program # "server_reactor" /\ program # ET
    BY DEF LoopInv, BusyInIo, Masks, Io, Blocking, ET, C1000k
  <1>a. UNCHANGED peer => PeersKept
    BY <1>0 DEF PeersKept, LoopTypes
  <1>1. CASE epoll_wait /\ UNCHANGED echoVars
    BY <1>1 DEF epoll_wait, Waits, sockVars, echoVars
  <1>2. CASE AcceptConn
    <2>1. PICK fd \in Fds : /\ Accepted(fd) /\ ItemOf(fd)
                            /\ ev' = [ev EXCEPT ![fd].kernel = "in"]
      BY <1>2 DEF AcceptConn
    <2>2. Opens(fd)
      BY <1>0, <1>2, <2>1, KernelTurn DEF AcceptConn, Accepted, Opens, ItemOf, ioVars
    <2> QED
      BY <2>2
  <1>3. CASE AcceptCrashes
    BY <1>a, <1>3 DEF AcceptCrashes, Ends, Quiet, frame, echoVars
  <1>4. CASE AcceptBreaks
    BY <1>a, <1>4 DEF AcceptBreaks, Quiet, sockVars, echoVars
  <1>5. ASSUME NEW fd \in Fds, InReceives(fd) PROVE Turns(fd, "out")
    <2>1. LastEntry(fd) /\ ev[fd].kernel = "in"
      BY <1>5, HandledOnce DEF InReceives
    <2> QED
      BY <1>0, <1>a, <1>5, <2>1, KernelTurn DEF InReceives, Turns, frame
  <1>6. ASSUME NEW fd \in Fds, InEnds(fd) PROVE Closes(fd)
    <2>1. LastEntry(fd) /\ ev[fd].kernel = "in"
      BY <1>6, HandledOnce DEF InEnds
    <2>2. ev' = [ev EXCEPT ![fd].kernel = "none"]
      BY <1>6 DEF InEnds, CloseSlot
    <2> QED
      BY <1>0, <1>6, <2>1, <2>2, KernelTurn DEF InEnds, Closes, Hangup, Closed
  <1>7. ASSUME NEW fd \in Fds, InIgnored(fd) PROVE Quiet
    <2>1. LastEntry(fd)
      BY <1>7, HandledOnce DEF InIgnored
    <2>2. PeersKept
      BY <1>0, <1>7, <2>1, PeersStay DEF InIgnored, LastEntry
    <2> QED
      BY <1>7, <2>1, <2>2 DEF InIgnored, Quiet, LastEntry, frame, echoVars
  <1>8. ASSUME NEW fd \in Fds, Out(fd) PROVE Turns(fd, "in")
    <2>1. LastEntry(fd) /\ ev[fd].kernel = "out"
      BY <1>8, HandledOnce DEF Out
    <2>2. PeersKept
      BY <1>0, <1>8, <2>1, PeersStay DEF Out, LastEntry
    <2> QED
      BY <1>0, <1>8, <2>1, <2>2, KernelTurn DEF Out, Turns, frame, ioVars
  <1>9. ASSUME NEW fd \in Fds, OutKills(fd) PROVE Quiet
    BY <1>a, <1>9 DEF OutKills, Handle, Ends, Quiet, frame, echoVars
  <1> QED
    BY <1>0, <1>1, <1>2, <1>3, <1>4, <1>5, <1>6, <1>7, <1>8, <1>9 DEF c1000k_loop

\* What the servers of zero_threadpool/io do to the items.
LEMMA IoEffect ==
  ASSUME LoopInv, program \in Io, io_loop
  PROVE  \/ Quiet \/ Waits
         \/ \E fd \in Fds : Opens(fd) \/ Closes(fd) \/ Begins(fd) \/ Leaves(fd)
  <1>0. /\ LoopTypes /\ "in" \in Masks /\ program \notin {"server_reactor", "server"}
        /\ ET \notin Blocking /\ ET \in Io /\ Blocking \subseteq Io
    BY DEF LoopInv, Masks, Io, Blocking, ET
  <1>a. UNCHANGED peer => PeersKept
    BY <1>0 DEF PeersKept, LoopTypes
  <1>1. CASE IoWait \/ EtWait
    BY <1>1 DEF IoWait, EtWait, epoll_wait, Waits, sockVars, echoVars
  <1>2. CASE IoAccept
    <2>1. PICK fd \in Fds : Accepted(fd) /\ ev' = [ev EXCEPT ![fd].kernel = "in"]
      BY <1>2 DEF IoAccept
    <2>2. Opens(fd)
      BY <1>0, <1>2, <2>1, KernelTurn DEF IoAccept, Accepted, Opens, echoVars
    <2> QED
      BY <2>2
  <1>3. CASE EtAccept
    <2>1. PICK fd \in Fds : Accepted(fd) /\ busy' = fd
      BY <1>3 DEF EtAccept
    <2>2. Opens(fd)
      BY <1>0, <1>3, <2>1 DEF EtAccept, Accepted, Opens
    <2> QED
      BY <2>2
  <1>4. CASE AcceptExits
    BY <1>a, <1>4 DEF AcceptExits, Ends, Quiet, frame, echoVars
  <1>5. ASSUME NEW fd \in Fds, IoRecv(fd) PROVE Begins(fd)
    <2>1. LastEntry(fd) /\ ev[fd].kernel = "in"
      BY <1>5, HandledOnce DEF IoRecv
    <2> QED
      BY <1>0, <1>a, <1>5, <2>1 DEF IoRecv, Begins, frame
  <1>6. ASSUME NEW fd \in Fds, IoSend(fd) PROVE Leaves(fd)
    <2>1. fd \in open /\ ev[fd].kernel = "in" /\ fd # 0
      BY <1>0, <1>6, TypesGive DEF IoSend, LoopInv, LoopTypes, BusyInIo
    <2>2. PeersKept
      BY <1>0, <1>6, <2>1, PeersStay DEF IoSend
    <2>3. ev' = [ev EXCEPT ![fd] = [events |-> @.events, kernel |-> "in"]]
      BY <1>0, <1>6, <2>1, TypesGive DEF IoSend, LoopTypes
    <2> QED
      BY <1>0, <1>6, <2>1, <2>2, <2>3 DEF IoSend, Leaves, frame
  <1>7. ASSUME NEW fd \in Fds, IoSendKills(fd) PROVE Quiet
    BY <1>a, <1>7 DEF IoSendKills, Ends, Quiet, frame, echoVars
  <1>8. ASSUME NEW fd \in Fds, IoEnd(fd) PROVE Closes(fd)
    <2>1. LastEntry(fd) /\ ev[fd].kernel = "in"
      BY <1>8, HandledOnce DEF IoEnd
    <2> QED
      BY <1>0, <1>8, <2>1, KernelTurn DEF IoEnd, Closes, Hangup, Closed
  <1>9. ASSUME NEW fd \in Fds, IoError(fd) PROVE Quiet
    <2>1. LastEntry(fd)
      BY <1>9, HandledOnce DEF IoError
    <2>2. PeersKept
      BY <1>0, <1>9, <2>1, PeersStay DEF IoError, LastEntry, Ends
    <2> QED
      BY <1>9, <2>1, <2>2 DEF IoError, Ends, Quiet, LastEntry, frame, echoVars
  <1>10. ASSUME NEW fd \in Fds, EtAdd(fd) PROVE Leaves(fd)
    BY <1>0, <1>a, <1>10, KernelTurn DEF EtAdd, Leaves, sockVars
  <1>11. ASSUME NEW fd \in Fds, EtBegin(fd) PROVE Begins(fd)
    <2>1. LastEntry(fd) /\ ev[fd].kernel = "in"
      BY <1>11, HandledOnce DEF EtBegin
    <2> QED
      BY <1>0, <1>a, <1>11, <2>1 DEF EtBegin, Begins, sockVars
  <1>12. ASSUME NEW fd \in Fds, EtEcho(fd) PROVE Quiet
    <2>1. fd \in open
      BY <1>0, <1>12, TypesGive DEF EtEcho, Draining, LoopTypes
    <2>2. PeersKept
      BY <1>0, <1>12, <2>1, PeersStay DEF EtEcho, EtEchoes
    <2> QED
      BY <1>12, <2>2 DEF EtEcho, EtEchoes, Quiet, frame
  <1>13. ASSUME NEW fd \in Fds, EtEchoKills(fd) \/ EtExits(fd) PROVE Quiet
    BY <1>a, <1>13 DEF EtEchoKills, EtExits, Ends, Quiet, frame, echoVars
  <1>14. ASSUME NEW fd \in Fds, EtAgain(fd) PROVE Leaves(fd)
    <2>1. ev' = [ev EXCEPT ![fd] = [events |-> @.events, kernel |-> "in"]]
      BY <1>0, <1>14, TypesGive DEF EtAgain, Draining, LoopTypes
    <2> QED
      BY <1>0, <1>a, <1>14, <2>1 DEF EtAgain, Draining, Leaves, sockVars
  <1> QED
    BY <1>1, <1>2, <1>3, <1>4, <1>5, <1>6, <1>7, <1>8, <1>9, <1>10, <1>11, <1>12, <1>13, <1>14
    DEF io_loop

\* Every step does one of these to the items.
LEMMA LoopEffect ==
  ASSUME LoopInv, [Next]_vars
  PROVE  \/ Quiet \/ Waits
         \/ \E fd \in Fds :
              \/ Opens(fd) \/ Closes(fd) \/ Begins(fd) \/ Leaves(fd)
              \/ \E mask \in Masks : Turns(fd, mask)
  <1>1. CASE Clients
    <2>1. UNCHANGED <<program, ev, blkcnt, batch, open, gen, busy>>
      BY <1>1 DEF Clients, serverFrame, clientFrame, slotVars
    <2>2. PeersKept
      BY <1>1 DEF Clients, Connect, GiveUp, SendChunk, Leave, Drain, PeersKept, PeerStates,
                  LoopInv, LoopTypes
    <2> QED
      BY <2>1, <2>2 DEF Quiet
  <1>2. CASE UNCHANGED vars
    BY <1>2 DEF vars, slotVars, sockVars, echoVars, Quiet, PeersKept, LoopInv, LoopTypes
  <1> QED
    BY <1>1, <1>2, ReactorEffect, C1000kEffect, IoEffect DEF Next, loop, Io
-----------------------------------------------------------------------------
(* LoopInv is inductive *)

\* The shape of LoopInv that the effects are proved against, and what they
\* leave of it.
LEMMA QuietKeeps ==
  ASSUME LoopInv, Quiet
  PROVE  LoopInv'
  BY DEF LoopInv, LoopTypes, ItemsMatchKernel, EntriesAreCurrent, BusyInIo, Blocks, Quiet,
         PeersKept, Listener, Io, Programs, ET, Blocking, C1000k

\* Waiting finds entries of watched descriptors, which are open.
LEMMA WaitsKeeps ==
  ASSUME LoopInv, Waits
  PROVE  LoopInv'
  <1>0. /\ LoopTypes /\ ItemsMatchKernel /\ BusyInIo /\ Blocks /\ Fds \subseteq Nat \ {0}
    BY TypesGive DEF LoopInv
  <1>1. UNCHANGED <<program, ev, blkcnt, open, gen, busy, peer>> /\ batch' \subseteq Ready
    BY DEF Waits
  <1>2. \A e \in Ready : e = Listener \/
          (e.fd \in Fds /\ e.gen = gen[e.fd] /\ e.mask = ev[e.fd].kernel /\ e.mask \in {"in", "out"}
           /\ e = [fd |-> e.fd, mask |-> e.mask, gen |-> gen[e.fd]])
    BY DEF Ready
  <1>3. \A fd \in Fds : ev[fd].kernel # "none" => fd \in open
    BY <1>0 DEF ItemsMatchKernel
  <1>4. EntriesAreCurrent'
    BY <1>1, <1>2, <1>3 DEF EntriesAreCurrent
  <1>5. Ready \subseteq [fd : Fds \cup {0}, mask : Masks, gen : Nat]
    BY <1>0, <1>2 DEF LoopTypes, Listener, Masks
  <1>6. LoopTypes'
    BY <1>0, <1>1, <1>5 DEF LoopTypes
  <1>7. ItemsMatchKernel' /\ BusyInIo' /\ Blocks'
    BY <1>0, <1>1 DEF ItemsMatchKernel, BusyInIo, Blocks
  <1> QED
    BY <1>4, <1>6, <1>7 DEF LoopInv

\* A descriptor that accept returns was closed: no entry is its own, and it is
\* watched from now on, unless the thread is busy adding it.
LEMMA OpensKeeps ==
  ASSUME LoopInv, NEW fd \in Fds, Opens(fd)
  PROVE  LoopInv'
  <1>0. /\ LoopTypes /\ ItemsMatchKernel /\ BusyInIo /\ Blocks /\ EntriesAreCurrent
        /\ Fds \subseteq Nat \ {0} /\ fd \notin open /\ ev[fd] \in ItemType
        /\ ev[fd].kernel = "none" /\ busy # fd /\ fd # 0 /\ program' = program
        /\ "in" \in Masks
    BY TypesGive DEF LoopInv, Opens, LoopTypes, ItemsMatchKernel, Masks
  <1>1. blkcnt' \in Nat /\ Blocks'
    <2>1. CASE program = "server"
      <3>1. /\ blkcnt' = IF fd \div BlockSize >= blkcnt THEN fd \div BlockSize + 1 ELSE blkcnt
            /\ blkcnt \in Nat /\ \A f \in open : f \div BlockSize < blkcnt /\ f \in Fds
            /\ open' = open \cup {fd}
        BY <1>0, <2>1 DEF Opens, BlocksFor, LoopTypes, Blocks
      <3>2. \A f \in Fds : f \div BlockSize \in Nat
        BY <1>0, KernelAssumption
      <3> QED
        BY <3>1, <3>2 DEF Blocks
    <2>2. CASE program # "server"
      BY <1>0, <2>2 DEF Opens, Blocks, LoopTypes
    <2> QED
      BY <2>1, <2>2
  <1>2. /\ peer' \in [Fds -> PeerStates] /\ \A f \in Fds : peer'[f] = "none" <=> f \notin open'
        /\ open' \subseteq Fds /\ gen' \in [Fds -> Nat]
        /\ \A f \in Fds \ {fd} : gen'[f] = gen[f]
    BY <1>0 DEF Opens, LoopTypes, PeerStates
  <1>3. /\ ev' \in [Fds -> ItemType] /\ \A f \in Fds \ {fd} : ev'[f] = ev[f]
        /\ \/ ev'[fd].kernel = "in" /\ busy' = busy
              /\ (program = "server_reactor" => ev'[fd].events = "in")
           \/ program = ET /\ ev'[fd] = ev[fd] /\ busy' = fd /\ busy = 0
    BY <1>0 DEF Opens, LoopTypes, ItemType
  <1>4. EntriesAreCurrent'
    <2>1. \A e \in batch' : e \in batch
      BY DEF Opens
    <2>2. \A e \in batch' : e = Listener
             \/ (e.fd \in open /\ e.gen = gen[e.fd] /\ e.mask = ev[e.fd].kernel)
      BY <1>0, <2>1 DEF EntriesAreCurrent
    <2>3. open \subseteq Fds \ {fd} /\ open \subseteq open'
      BY <1>0 DEF LoopTypes, Opens
    <2>4. \A e \in batch' : e = Listener \/
             (e.fd \in open' /\ e.gen = gen'[e.fd] /\ e.mask = ev'[e.fd].kernel)
      BY <1>2, <1>3, <2>2, <2>3
    <2> QED
      BY <2>4 DEF EntriesAreCurrent
  <1>5. LoopTypes'
    BY <1>0, <1>1, <1>2, <1>3 DEF LoopTypes, Opens
  <1>6. ItemsMatchKernel'
    <2>1. ASSUME NEW f \in Fds
          PROVE  /\ f \in open' <=> ev'[f].kernel # "none" \/ busy' = f
                 /\ program' = "server_reactor" => ev'[f].events = ev'[f].kernel
      <3>1. CASE f = fd
        BY <1>0, <1>3, <3>1 DEF Opens, ET
      <3>2. CASE f # fd
        BY <1>0, <1>3, <3>2 DEF Opens, ItemsMatchKernel
      <3> QED
        BY <3>1, <3>2
    <2> QED
      BY <2>1 DEF ItemsMatchKernel
  <1>7. BusyInIo'
    BY <1>0, <1>3 DEF BusyInIo, LoopTypes, Io, ET, Blocking
  <1> QED
    BY <1>1, <1>4, <1>5, <1>6, <1>7 DEF LoopInv

\* A descriptor is turned, or left alone, after its only entry is taken.
LEMMA TurnsKeeps ==
  ASSUME LoopInv, NEW fd \in Fds, NEW mask \in Masks, Turns(fd, mask)
  PROVE  LoopInv'
  <1>0. /\ LoopTypes /\ ItemsMatchKernel /\ BusyInIo /\ EntriesAreCurrent /\ Blocks
        /\ Fds \subseteq Nat \ {0} /\ mask # "none" /\ fd \in open
        /\ UNCHANGED <<program, blkcnt, open, gen, busy>> /\ busy = 0
        /\ open \subseteq Fds
    BY TypesGive DEF LoopInv, Turns, LastEntry, LoopTypes, Masks
  <1>1. /\ ev' \in [Fds -> ItemType] /\ \A f \in Fds \ {fd} : ev'[f] = ev[f]
        /\ ev'[fd].kernel = mask /\ (program = "server_reactor" => ev'[fd].events = mask)
    BY <1>0 DEF Turns, LoopTypes, ItemType
  <1>2. LoopTypes' /\ Blocks'
    BY <1>0, <1>1 DEF LoopTypes, Turns, PeersKept, LastEntry, Blocks
  <1>3. EntriesAreCurrent'
    <2>1. \A e \in batch' : e \in batch /\ e.fd # fd
      BY DEF Turns, LastEntry
    <2>2. \A e \in batch' : e = Listener
             \/ (e.fd \in open /\ e.fd # fd /\ e.gen = gen[e.fd] /\ e.mask = ev[e.fd].kernel)
      BY <1>0, <2>1 DEF EntriesAreCurrent
    <2> QED
      BY <1>0, <1>1, <2>2 DEF EntriesAreCurrent
  <1>4. ItemsMatchKernel'
    BY <1>0, <1>1 DEF ItemsMatchKernel
  <1>5. BusyInIo'
    <2>1. program \in Io => mask # "out"
      BY DEF Turns
    <2> QED
      BY <1>0, <1>1, <2>1 DEF BusyInIo
  <1> QED
    BY <1>2, <1>3, <1>4, <1>5 DEF LoopInv

\* A closed descriptor has no entry and is not watched.
LEMMA ClosesKeeps ==
  ASSUME LoopInv, NEW fd \in Fds, Closes(fd)
  PROVE  LoopInv'
  <1>0. /\ LoopTypes /\ ItemsMatchKernel /\ BusyInIo /\ EntriesAreCurrent /\ Blocks
        /\ Fds \subseteq Nat \ {0} /\ fd \in open
        /\ UNCHANGED <<program, blkcnt, gen, busy>> /\ busy = 0
        /\ open \subseteq Fds /\ open' = open \ {fd}
    BY TypesGive DEF LoopInv, Closes, LastEntry, LoopTypes
  <1>1. /\ ev' \in [Fds -> ItemType] /\ \A f \in Fds \ {fd} : ev'[f] = ev[f]
        /\ ev'[fd].kernel = "none" /\ (program = "server_reactor" => ev'[fd].events = "none")
    BY <1>0 DEF Closes, LoopTypes, ItemType
  <1>2. LoopTypes' /\ Blocks'
    BY <1>0, <1>1 DEF LoopTypes, Closes, LastEntry, Blocks, PeerStates
  <1>3. EntriesAreCurrent'
    <2>1. \A e \in batch' : e \in batch /\ e.fd # fd
      BY DEF Closes, LastEntry
    <2>2. \A e \in batch' : e = Listener
             \/ (e.fd \in open /\ e.fd # fd /\ e.gen = gen[e.fd] /\ e.mask = ev[e.fd].kernel)
      BY <1>0, <2>1 DEF EntriesAreCurrent
    <2> QED
      BY <1>0, <1>1, <2>2 DEF EntriesAreCurrent
  <1>4. ItemsMatchKernel'
    BY <1>0, <1>1 DEF ItemsMatchKernel
  <1>5. BusyInIo'
    BY <1>0, <1>1 DEF BusyInIo
  <1> QED
    BY <1>2, <1>3, <1>4, <1>5 DEF LoopInv

\* The thread turns to a connection that is watched.
LEMMA BeginsKeeps ==
  ASSUME LoopInv, NEW fd \in Fds, Begins(fd)
  PROVE  LoopInv'
  <1>0. /\ LoopTypes /\ ItemsMatchKernel /\ BusyInIo /\ EntriesAreCurrent /\ Blocks
        /\ UNCHANGED <<program, ev, blkcnt, open, gen>> /\ busy = 0 /\ busy' = fd
        /\ fd \in open /\ ev[fd].kernel = "in" /\ program \in Io /\ batch' \subseteq batch
        /\ open \subseteq Fds /\ 0 \notin Fds
    BY TypesGive DEF LoopInv, Begins, LastEntry, LoopTypes
  <1>1. LoopTypes' /\ Blocks'
    BY <1>0 DEF LoopTypes, Begins, Blocks, PeersKept
  <1>2. EntriesAreCurrent'
    BY <1>0 DEF EntriesAreCurrent
  <1>3. ItemsMatchKernel'
    BY <1>0 DEF ItemsMatchKernel
  <1>4. BusyInIo'
    BY <1>0 DEF BusyInIo
  <1> QED
    BY <1>1, <1>2, <1>3, <1>4 DEF LoopInv

\* The thread leaves a connection watched, whether it was before or not.
LEMMA LeavesKeeps ==
  ASSUME LoopInv, NEW fd \in Fds, Leaves(fd)
  PROVE  LoopInv'
  <1>0. /\ LoopTypes /\ ItemsMatchKernel /\ BusyInIo /\ EntriesAreCurrent /\ Blocks
        /\ UNCHANGED <<program, blkcnt, open, gen>> /\ busy = fd /\ busy' = 0
        /\ program \in Io /\ program \notin {"server_reactor"} /\ batch' \subseteq batch
        /\ open \subseteq Fds /\ Fds \subseteq Nat \ {0} /\ fd # 0 /\ fd \in open
    BY TypesGive DEF LoopInv, Leaves, LoopTypes, Io, Blocking, ET
  <1>1. /\ ev' \in [Fds -> ItemType] /\ \A f \in Fds \ {fd} : ev'[f] = ev[f]
        /\ ev'[fd].kernel = "in"
    BY <1>0 DEF Leaves, LoopTypes, ItemType, Masks
  <1>2. LoopTypes' /\ Blocks'
    BY <1>0, <1>1 DEF LoopTypes, Leaves, Blocks, PeersKept
  <1>3. EntriesAreCurrent'
    <2>1. \A e \in batch : e.mask \in {"in", "out"}
      BY <1>0, TypesGive DEF Masks
    <2>2. \A e \in batch : e = Listener
             \/ (e.fd \in open /\ e.gen = gen[e.fd] /\ e.mask = ev[e.fd].kernel)
      BY <1>0 DEF EntriesAreCurrent
    <2>3. ev[fd].kernel \in {"in", "none"}
      BY <1>0, TypesGive DEF BusyInIo
    <2>4. \A e \in batch : e = Listener
             \/ (e.fd \in open /\ e.gen = gen[e.fd] /\ e.mask = ev'[e.fd].kernel)
      BY <1>0, <1>1, <2>1, <2>2, <2>3
    <2> QED
      BY <1>0, <2>4 DEF EntriesAreCurrent
  <1>4. ItemsMatchKernel'
    BY <1>0, <1>1 DEF ItemsMatchKernel
  <1>5. BusyInIo'
    BY <1>0, <1>1 DEF BusyInIo
  <1> QED
    BY <1>2, <1>3, <1>4, <1>5 DEF LoopInv

\* Whatever the step, LoopInv holds after it.
LEMMA LoopNext ==
  ASSUME LoopInv, [Next]_vars
  PROVE  LoopInv'
  BY LoopEffect, QuietKeeps, WaitsKeeps, OpensKeeps, TurnsKeeps, ClosesKeeps, BeginsKeeps,
     LeavesKeeps

\* No descriptor is open at first.
LEMMA LoopInit ==
  ASSUME Init
  PROVE  LoopInv
  <1>1. /\ program \in Programs /\ blkcnt \in {0, 1}
    BY DEF Init, init_reactor, ServerMain, Server1Main, Server2Main, Server3Main, EpollMain,
           SeleteMain, Epoll2Main, Programs, C1000k, Blocking, ET
  <1>2. /\ batch = {} /\ open = {} /\ gen = [fd \in Fds |-> 0] /\ busy = 0
        /\ peer = [fd \in Fds |-> "none"] /\ ev = [fd \in Fds |-> NoItem]
    BY DEF Init, EchoInit, SocketsInit
  <1>3. 0 \notin Fds
    BY KernelAssumption
  <1>4. LoopTypes
    BY <1>1, <1>2 DEF LoopTypes, PeerStates, ItemType, NoItem
  <1> QED
    BY <1>2, <1>3, <1>4 DEF LoopInv, ItemsMatchKernel, EntriesAreCurrent, BusyInIo, Blocks, NoItem
-----------------------------------------------------------------------------
(* Pieces and buffers *)

Stuff == Kinds \cup {0}

\* A piece is a sequence no longer than a buffer.
LEMMA PieceIs ==
  ASSUME NEW s
  PROVE  s \in Pieces <=> s \in Seq(Stuff) /\ Len(s) <= BUFFER_LENGTH
  <1>0. BUFFER_LENGTH \in Nat
    BY EchoAssumption
  <1>1. Pieces = UNION {[1 .. m -> Stuff] : m \in 0 .. BUFFER_LENGTH}
    BY DEF Pieces, BoundedSeq, SeqOf, Stuff
  <1>2. ASSUME s \in Pieces PROVE s \in Seq(Stuff) /\ Len(s) <= BUFFER_LENGTH
    <2>1. PICK m \in 0 .. BUFFER_LENGTH : s \in [1 .. m -> Stuff]
      BY <1>1, <1>2
    <2>2. s \in Seq(Stuff)
      BY <1>0, <2>1, SeqDef
    <2>3. Len(s) = m
      <3>1. DOMAIN s = 1 .. m /\ DOMAIN s = 1 .. Len(s) /\ Len(s) \in Nat
        BY <2>1, <2>2, LenProperties
      <3> QED
        BY <1>0, <3>1
    <2> QED
      BY <1>0, <2>2, <2>3
  <1>3. ASSUME s \in Seq(Stuff), Len(s) <= BUFFER_LENGTH PROVE s \in Pieces
    BY <1>0, <1>1, <1>3, LenProperties
  <1> QED
    BY <1>2, <1>3

\* No piece at all is one too.
LEMMA NoPiece == << >> \in Pieces
  <1>1. << >> \in Seq(Stuff)
    BY EmptySeq
  <1>2. Len(<< >>) = 0 /\ BUFFER_LENGTH \in Nat
    BY EmptySeq, EchoAssumption
  <1>3. Len(<< >>) <= BUFFER_LENGTH
    BY <1>2
  <1> QED
    BY ONLY <1>1, <1>3, PieceIs

\* A prefix agrees element by element.
LEMMA PrefixIs ==
  ASSUME NEW S, NEW s \in Seq(S), NEW t \in Seq(S)
  PROVE  IsPrefix(s, t) <=> Len(s) <= Len(t) /\ \A i \in 1 .. Len(s) : s[i] = t[i]
  <1>1. SubSeq(s, 1, Len(s)) = s
    BY SubSeqFull
  <1>2. ASSUME Len(s) <= Len(t)
        PROVE  /\ SubSeq(t, 1, Len(s)) \in Seq(S) /\ Len(SubSeq(t, 1, Len(s))) = Len(s)
               /\ \A i \in 1 .. Len(s) : SubSeq(t, 1, Len(s))[i] = t[i]
    <2>1. Len(s) \in Nat /\ Len(t) \in Nat /\ \A i \in 1 .. Len(s) : t[i] \in S
      BY <1>2, LenProperties, ElementOfSeq
    <2> QED
      BY <2>1, SubSeqProperties, LenProperties
  <1>3. ASSUME Len(s) <= Len(t), \A i \in 1 .. Len(s) : s[i] = t[i]
        PROVE  SubSeq(t, 1, Len(s)) = s
    <2>1. /\ SubSeq(t, 1, Len(s)) \in Seq(S) /\ Len(SubSeq(t, 1, Len(s))) = Len(s)
          /\ \A i \in 1 .. Len(s) : SubSeq(t, 1, Len(s))[i] = s[i]
      BY <1>2, <1>3
    <2> QED
      BY <2>1, SeqEqual
  <1> QED
    BY <1>1, <1>2, <1>3 DEF IsPrefix

\* Something is received, and what is received and what is left were sent.
LEMMA ReceivedIs ==
  ASSUME NEW in \in Seq(Kinds), NEW ret \in {SubSeq(in, 1, n) : n \in 1 .. Len(in)},
         Len(ret) <= BUFFER_LENGTH
  PROVE  /\ ret \in Pieces /\ Len(ret) >= 1 /\ Len(ret) \in Nat
         /\ SubSeq(in, Len(ret) + 1, Len(in)) \in Seq(Kinds)
         /\ Len(ret) + Len(SubSeq(in, Len(ret) + 1, Len(in))) = Len(in)
  <1>1. PICK n \in 1 .. Len(in) : ret = SubSeq(in, 1, n)
    OBVIOUS
  <1>2. Len(in) \in Nat /\ \A i \in 1 .. Len(in) : in[i] \in Kinds
    BY LenProperties, ElementOfSeq
  <1>3. ret \in Seq(Kinds) /\ Len(ret) = n
    BY <1>1, <1>2
  <1>4. ret \in Seq(Stuff)
    BY <1>3, SeqMonotonic DEF Stuff
  <1>5. /\ SubSeq(in, n + 1, Len(in)) \in Seq(Kinds)
        /\ Len(SubSeq(in, n + 1, Len(in))) = Len(in) - n
    BY <1>2
  <1> QED
    BY <1>2, <1>3, <1>4, <1>5, PieceIs

\* Over the first bytes goes what was received: the length stays, what was
\* received comes first, and nothing else is new.
LEMMA OverwriteIs ==
  ASSUME NEW old \in Pieces, Len(old) = BUFFER_LENGTH, NEW ret \in Pieces
  PROVE  /\ Overwrite(old, ret) \in Pieces /\ Len(Overwrite(old, ret)) = BUFFER_LENGTH
         /\ IsPrefix(ret, Overwrite(old, ret))
         /\ Range(Overwrite(old, ret)) \subseteq Range(old) \cup Range(ret)
  <1> DEFINE rest == SubSeq(old, Len(ret) + 1, Len(old))
  <1>0. /\ old \in Seq(Stuff) /\ ret \in Seq(Stuff) /\ BUFFER_LENGTH \in Nat
        /\ Len(ret) \in Nat /\ Len(ret) <= BUFFER_LENGTH
    BY PieceIs, EchoAssumption, LenProperties
  <1>1. \A i \in Len(ret) + 1 .. Len(old) : old[i] \in Stuff
    BY <1>0, ElementOfSeq
  <1>2. /\ rest \in Seq(Stuff) /\ Len(rest) = BUFFER_LENGTH - Len(ret)
        /\ \A i \in 1 .. BUFFER_LENGTH - Len(ret) : rest[i] = old[Len(ret) + i]
    BY <1>0, <1>1, SubSeqProperties
  <1> HIDE DEF rest
  <1>3. Overwrite(old, ret) = ret \o rest
    BY DEF Overwrite, rest
  <1>4. /\ ret \o rest \in Seq(Stuff) /\ Len(ret \o rest) = BUFFER_LENGTH
        /\ \A i \in 1 .. BUFFER_LENGTH :
             (ret \o rest)[i] = IF i <= Len(ret) THEN ret[i] ELSE rest[i - Len(ret)]
    BY <1>0, <1>2, ConcatProperties
  <1>5. IsPrefix(ret, ret \o rest)
    <2>1. Len(ret) <= BUFFER_LENGTH /\ \A i \in 1 .. Len(ret) : ret[i] = (ret \o rest)[i]
      BY <1>0, <1>4
    <2> QED
      BY ONLY <1>0, <1>4, <2>1, PrefixIs
  <1>6. Range(ret \o rest) \subseteq Range(old) \cup Range(ret)
    <2>1. ASSUME NEW i \in 1 .. BUFFER_LENGTH
          PROVE  (ret \o rest)[i] \in Range(old) \cup Range(ret)
      <3>1. CASE i <= Len(ret)
        BY <1>0, <1>4, <3>1, LenProperties DEF Range
      <3>2. CASE ~(i <= Len(ret))
        <4>1. (ret \o rest)[i] = rest[i - Len(ret)] /\ i - Len(ret) \in 1 .. BUFFER_LENGTH - Len(ret)
          BY <1>0, <1>4, <3>2
        <4>2. (ret \o rest)[i] = old[i] /\ i \in DOMAIN old
          BY <1>0, <1>2, <4>1, LenProperties
        <4> QED
          BY <4>2 DEF Range
      <3> QED
        BY <3>1, <3>2
    <2> QED
      BY <1>4, <2>1, LenProperties DEF Range
  <1> QED
    BY <1>0, <1>3, <1>4, <1>5, <1>6, PieceIs

\* Any first part of a buffer is a piece.
LEMMA PartPiece ==
  ASSUME NEW buf \in Pieces, Len(buf) = BUFFER_LENGTH, NEW n \in 0 .. BUFFER_LENGTH
  PROVE  SubSeq(buf, 1, n) \in Pieces
  <1>0. buf \in Seq(Stuff) /\ BUFFER_LENGTH \in Nat
    BY PieceIs, EchoAssumption
  <1>1. \A i \in 1 .. n : buf[i] \in Stuff
    BY <1>0, ElementOfSeq
  <1>2. SubSeq(buf, 1, n) \in Seq(Stuff) /\ Len(SubSeq(buf, 1, n)) = n
    BY <1>0, <1>1, SubSeqProperties
  <1>3. n <= BUFFER_LENGTH
    BY <1>0
  <1> QED
    BY ONLY <1>2, <1>3, PieceIs

\* Any part of the buffer that a piece and nothing shorter is in begins with
\* the piece.
LEMMA PartIs ==
  ASSUME NEW buf \in Pieces, Len(buf) = BUFFER_LENGTH, NEW piece \in Pieces,
         IsPrefix(piece, buf), NEW n \in Len(piece) .. BUFFER_LENGTH
  PROVE  SubSeq(buf, 1, n) \in Pieces /\ IsPrefix(piece, SubSeq(buf, 1, n))
  <1>0. /\ buf \in Seq(Stuff) /\ piece \in Seq(Stuff) /\ BUFFER_LENGTH \in Nat
        /\ Len(piece) \in Nat
    BY PieceIs, EchoAssumption, LenProperties
  <1>1. \A i \in 1 .. n : buf[i] \in Stuff
    BY <1>0, ElementOfSeq
  <1>2. /\ SubSeq(buf, 1, n) \in Seq(Stuff) /\ Len(SubSeq(buf, 1, n)) = n
        /\ \A i \in 1 .. n : SubSeq(buf, 1, n)[i] = buf[i]
    BY <1>0, <1>1, SubSeqProperties
  <1>3. \A i \in 1 .. Len(piece) : piece[i] = buf[i]
    BY ONLY IsPrefix(piece, buf), <1>0, PrefixIs
  <1>4. \A i \in 1 .. Len(piece) : piece[i] = SubSeq(buf, 1, n)[i]
    BY <1>0, <1>2, <1>3
  <1>5. Len(piece) <= n /\ n <= BUFFER_LENGTH
    BY <1>0
  <1>6. IsPrefix(piece, SubSeq(buf, 1, n))
    BY ONLY <1>0, <1>2, <1>4, <1>5, PrefixIs
  <1> QED
    BY <1>2, <1>5, <1>6, PieceIs

\* The zeroes of calloc fill a buffer.
LEMMA ZeroesIs == Zeroes \in Pieces /\ Len(Zeroes) = BUFFER_LENGTH /\ Range(Zeroes) \subseteq {0}
  <1>0. BUFFER_LENGTH \in Nat
    BY EchoAssumption
  <1>1. Zeroes \in [1 .. BUFFER_LENGTH -> Stuff]
    BY DEF Zeroes, Stuff
  <1>2. Zeroes \in Seq(Stuff)
    BY <1>0, <1>1, SeqDef
  <1>3. Len(Zeroes) = BUFFER_LENGTH
    <2>1. /\ DOMAIN Zeroes = 1 .. BUFFER_LENGTH
          /\ DOMAIN Zeroes = 1 .. Len(Zeroes) /\ Len(Zeroes) \in Nat
      BY <1>1, <1>2, LenProperties
    <2> QED
      BY <1>0, <2>1
  <1> QED
    BY <1>0, <1>2, <1>3, PieceIs DEF Zeroes, Range
-----------------------------------------------------------------------------
(* One connection's pieces, gave and sent *)

\* Answers, said of the connection's data.
Fits(p, dead, gave, piece, answer) ==
  \/ answer = piece
  \/ answer = << >> /\ (dead \/ p = ET)
  \/ /\ p \in C1000k \cup {"server_selete"} /\ IsPrefix(piece, answer)
     /\ p \in {"server", "server2"} => Range(answer) \subseteq {0} \cup gave

\* EchoesInOrder for one connection: what it gave, what it was sent, the buffer
\* its last piece goes through, whether that piece is not sent yet, and which
\* pieces have been lost.
InOrder(p, dead, gave, given, buf, pending, lost) ==
  /\ Len(gave) = Len(given) + (IF pending THEN 1 ELSE 0)
  /\ \A i \in DOMAIN gave :
       i \notin lost =>
         Fits(p, dead, Held(gave), gave[i], IF i \in DOMAIN given THEN given[i] ELSE buf)

\* A new connection has given nothing and been sent nothing.
LEMMA NothingYet ==
  ASSUME NEW p, NEW dead, NEW buf, NEW lost
  PROVE  InOrder(p, dead, << >>, << >>, buf, FALSE, lost)
  BY DEF InOrder

\* An error, or a piece that is lost, asks less.
LEMMA MoreIsLost ==
  ASSUME NEW p, NEW dead, NEW dead2, dead => dead2, NEW gave, NEW given, NEW buf,
         NEW pending \in BOOLEAN, NEW lost, NEW lost2, lost \subseteq lost2,
         InOrder(p, dead, gave, given, buf, pending, lost)
  PROVE  InOrder(p, dead2, gave, given, buf, pending, lost2)
  BY DEF InOrder, Fits

\* Sequences of pieces, one longer.
LEMMA OneMore ==
  ASSUME NEW S, NEW s \in Seq(S), NEW e \in S
  PROVE  /\ Append(s, e) \in Seq(S) /\ Len(s) \in Nat /\ Len(Append(s, e)) = Len(s) + 1
         /\ DOMAIN s = 1 .. Len(s) /\ DOMAIN Append(s, e) = 1 .. Len(s) + 1
         /\ \A i \in 1 .. Len(s) : Append(s, e)[i] = s[i]
         /\ Append(s, e)[Len(s) + 1] = e
  BY LenProperties

\* What was held is held, and so is the new piece.
LEMMA HeldGrows ==
  ASSUME NEW gave \in Seq(Pieces), NEW ret \in Pieces
  PROVE  Held(gave) \cup Range(ret) = Held(Append(gave, ret))
  <1>1. /\ DOMAIN gave = 1 .. Len(gave) /\ Len(gave) \in Nat
        /\ DOMAIN Append(gave, ret) = 1 .. Len(gave) + 1
        /\ \A i \in 1 .. Len(gave) : Append(gave, ret)[i] = gave[i]
        /\ Append(gave, ret)[Len(gave) + 1] = ret
    BY OneMore
  <1>2. ASSUME NEW x \in Held(gave) \cup Range(ret) PROVE x \in Held(Append(gave, ret))
    <2>1. CASE x \in Held(gave)
      <3>1. PICK i \in 1 .. Len(gave) : x \in Range(gave[i])
        BY <1>1, <2>1 DEF Held
      <3>2. i \in DOMAIN Append(gave, ret) /\ x \in Range(Append(gave, ret)[i])
        BY <1>1, <3>1
      <3> QED
        BY <3>2 DEF Held
    <2>2. CASE x \in Range(ret)
      <3>1. Len(gave) + 1 \in DOMAIN Append(gave, ret)
        BY <1>1
      <3> QED
        BY <1>1, <2>2, <3>1 DEF Held
    <2> QED
      BY <1>2, <2>1, <2>2
  <1>3. ASSUME NEW x \in Held(Append(gave, ret)) PROVE x \in Held(gave) \cup Range(ret)
    <2>1. PICK i \in 1 .. Len(gave) + 1 : x \in Range(Append(gave, ret)[i])
      BY <1>1, <1>3 DEF Held
    <2>2. CASE i = Len(gave) + 1
      BY <1>1, <2>1, <2>2
    <2>3. CASE i \in 1 .. Len(gave)
      BY <1>1, <2>1, <2>3 DEF Held
    <2> QED
      BY <1>1, <2>2, <2>3
  <1> QED
    BY <1>2, <1>3

\* Nothing was pending and a piece is received: it waits in the buffer.
LEMMA OrderTakes ==
  ASSUME NEW p, NEW dead, NEW gave \in Seq(Pieces), NEW given \in Seq(Pieces), NEW buf, NEW buf2,
         NEW lost, NEW ret \in Pieces,
         InOrder(p, dead, gave, given, buf, FALSE, lost),
         Fits(p, dead, Held(Append(gave, ret)), ret, buf2)
  PROVE  InOrder(p, dead, Append(gave, ret), given, buf2, TRUE, lost)
  <1>1. /\ DOMAIN gave = 1 .. Len(gave) /\ Len(gave) \in Nat /\ Len(Append(gave, ret)) = Len(gave) + 1
        /\ DOMAIN Append(gave, ret) = 1 .. Len(gave) + 1
        /\ \A i \in 1 .. Len(gave) : Append(gave, ret)[i] = gave[i]
        /\ Append(gave, ret)[Len(gave) + 1] = ret
        /\ DOMAIN given = 1 .. Len(gave) /\ Len(given) = Len(gave)
    BY OneMore, LenProperties DEF InOrder
  <1>2. Held(gave) \subseteq Held(Append(gave, ret))
    BY HeldGrows
  <1>3. ASSUME NEW i \in 1 .. Len(gave), i \notin lost
        PROVE  Fits(p, dead, Held(Append(gave, ret)), gave[i], given[i])
    BY <1>1, <1>2, <1>3 DEF InOrder, Fits
  <1>4. ASSUME NEW i \in DOMAIN Append(gave, ret), i \notin lost
        PROVE  Fits(p, dead, Held(Append(gave, ret)), Append(gave, ret)[i],
                    IF i \in DOMAIN given THEN given[i] ELSE buf2)
    <2>1. CASE i \in 1 .. Len(gave)
      BY <1>1, <1>3, <1>4, <2>1
    <2>2. CASE i = Len(gave) + 1
      <3>1. i \notin DOMAIN given
        BY <1>1, <2>2
      <3> QED
        BY <1>1, <2>2, <3>1
    <2> QED
      BY <1>1, <2>1, <2>2
  <1> QED
    BY <1>1, <1>4 DEF InOrder

\* The piece that was pending is answered.
LEMMA OrderSends ==
  ASSUME NEW p, NEW dead, NEW gave \in Seq(Pieces), NEW given \in Seq(Pieces), NEW buf, NEW buf2,
         NEW lost, NEW piece \in Pieces,
         InOrder(p, dead, gave, given, buf, TRUE, lost),
         Len(gave) \notin lost => Fits(p, dead, Held(gave), gave[Len(gave)], piece)
  PROVE  InOrder(p, dead, gave, Append(given, piece), buf2, FALSE, lost)
  <1>1. /\ DOMAIN given = 1 .. Len(given) /\ Len(given) \in Nat
        /\ DOMAIN Append(given, piece) = 1 .. Len(given) + 1
        /\ \A i \in 1 .. Len(given) : Append(given, piece)[i] = given[i]
        /\ Append(given, piece)[Len(given) + 1] = piece
        /\ DOMAIN gave = 1 .. Len(given) + 1 /\ Len(gave) = Len(given) + 1
        /\ Len(Append(given, piece)) = Len(given) + 1
    BY OneMore, LenProperties DEF InOrder
  <1>2. ASSUME NEW i \in DOMAIN gave, i \notin lost
        PROVE  Fits(p, dead, Held(gave), gave[i],
                    IF i \in DOMAIN Append(given, piece) THEN Append(given, piece)[i] ELSE buf2)
    <2>1. CASE i \in 1 .. Len(given)
      BY <1>1, <1>2, <2>1 DEF InOrder
    <2>2. CASE i = Len(given) + 1
      BY <1>1, <1>2, <2>2
    <2> QED
      BY <1>1, <2>1, <2>2
  <1> QED
    BY <1>1, <1>2 DEF InOrder

\* A buffer matters only to the piece that is pending.
LEMMA OtherBuffer ==
  ASSUME NEW p, NEW dead, NEW gave \in Seq(Pieces), NEW given \in Seq(Pieces), NEW buf, NEW buf2,
         NEW pending \in BOOLEAN, NEW lost, pending => Len(gave) \in lost,
         InOrder(p, dead, gave, given, buf, pending, lost)
  PROVE  InOrder(p, dead, gave, given, buf2, pending, lost)
  <1>1. /\ DOMAIN given = 1 .. Len(given) /\ Len(given) \in Nat /\ Len(gave) \in Nat
        /\ DOMAIN gave = 1 .. Len(gave)
        /\ Len(gave) = Len(given) + (IF pending THEN 1 ELSE 0)
    BY LenProperties DEF InOrder
  <1>2. ASSUME NEW i \in DOMAIN gave, i \notin lost PROVE i \in DOMAIN given
    BY <1>1, <1>2
  <1> QED
    BY <1>1, <1>2 DEF InOrder

\* Received and answered in one step.
LEMMA OrderEchoes ==
  ASSUME NEW p, NEW dead, NEW gave \in Seq(Pieces), NEW given \in Seq(Pieces), NEW buf, NEW buf2,
         NEW lost, NEW ret \in Pieces, NEW piece \in Pieces,
         InOrder(p, dead, gave, given, buf, FALSE, lost),
         Fits(p, dead, Held(Append(gave, ret)), ret, piece)
  PROVE  InOrder(p, dead, Append(gave, ret), Append(given, piece), buf2, FALSE, lost)
  <1>1. InOrder(p, dead, Append(gave, ret), given, piece, TRUE, lost)
    BY OrderTakes
  <1>2. /\ Append(gave, ret) \in Seq(Pieces)
        /\ Append(gave, ret)[Len(Append(gave, ret))] = ret
    BY OneMore
  <1> QED
    BY <1>1, <1>2, OrderSends
-----------------------------------------------------------------------------
(* What a step may do to the connections' pieces *)

\* The buffer that a connection's piece goes through.
Through(fd) == IF program \in Blocking THEN 0 ELSE BufferOf(fd)

Steady(fd) == (Pending(fd)' <=> Pending(fd)) /\ (Dead(fd) => Dead(fd)')

\* No piece moves.
Stays ==
  /\ UNCHANGED <<program, open, inbox, got, sent, buffer, overtaken, chunks>>
  /\ \A f \in open : Steady(f)

\* A client sends a chunk.
Comes(fd) ==
  /\ fd \in open /\ chunks < MaxChunks /\ chunks' = chunks + 1
  /\ inbox' = [inbox EXCEPT ![fd] = Append(@, chunks + 1)]
  /\ UNCHANGED <<program, open, got, sent, buffer, overtaken>>
  /\ \A f \in open : Steady(f)

\* A connection begins.
Starts(fd) ==
  /\ fd \in Fds \ open /\ open' = open \cup {fd} /\ ~Pending(fd)'
  /\ buffer' = IF program \in C1000k THEN NewBuffers(fd) ELSE buffer
  /\ UNCHANGED <<program, inbox, got, sent, overtaken, chunks>>
  /\ \A f \in open : Steady(f)

\* A piece is received into a buffer that no other piece is in, or that is
\* server3.c's.
Takes(fd, ret) ==
  /\ fd \in open /\ ~Pending(fd) /\ Pending(fd)' /\ program # ET
  /\ ret \in Received(fd) /\ Receives(fd, ret)
  /\ buffer' = [buffer EXCEPT ![Through(fd)] =
                  IF program \in C1000k \cup {"server_selete"} THEN Overwrite(@, ret) ELSE ret]
  /\ program \in Blocking => \A f \in open : ~Pending(f)
  /\ Overtakes(fd)
  /\ UNCHANGED <<program, open, sent, chunks>>
  /\ \A f \in open \ {fd} : Steady(f)
  /\ Dead(fd) => Dead(fd)'

\* The piece that is pending is answered.
Puts(fd, piece) ==
  /\ fd \in open /\ Pending(fd) /\ ~Pending(fd)' /\ Sends(fd, piece)
  /\ \/ piece = buffer[Through(fd)]
     \/ piece = << >> /\ Dead(fd)
     \/ program = "server_selete" /\ piece \in Given(fd)
  /\ UNCHANGED <<program, open, inbox, got, buffer, overtaken, chunks>>
  /\ \A f \in open \ {fd} : Steady(f)
  /\ Dead(fd) => Dead(fd)'

\* A piece is received and sent on, or dropped.
Echoes(fd, ret) ==
  /\ fd \in open /\ program = ET /\ ret \in Received(fd) /\ Receives(fd, ret)
  /\ Sends(fd, ret) \/ Sends(fd, << >>)
  /\ UNCHANGED <<program, open, buffer, overtaken, chunks>>
  /\ \A f \in open : Steady(f)

\* A connection ends.
Stops(fd) ==
  /\ fd \in open /\ open' = open \ {fd}
  /\ inbox' = [inbox EXCEPT ![fd] = << >>]
  /\ got' = [got EXCEPT ![fd] = << >>] /\ sent' = [sent EXCEPT ![fd] = << >>]
  /\ buffer' = IF program = "server" THEN [buffer EXCEPT ![fd] = << >>] ELSE buffer
  /\ UNCHANGED <<program, overtaken, chunks>>
  /\ \A f \in open \ {fd} : Steady(f)

\* An error that is reported goes on being one.
LEMMA ErrorsStay ==
  ASSUME LoopTypes, NEW fd \in open, UNCHANGED peer \/ Reported(fd)
  PROVE  \A f \in open : Dead(f) => Dead(f)'
  BY DEF LoopTypes, Reported, Dead

\* The program ends, or nothing at all happens to the pieces.
LEMMA EndsStays ==
  ASSUME LoopTypes, Ends
  PROVE  Stays
  BY DEF Ends, Stays, Steady, Pending, Dead, frame, echoVars

\* What server_reactor.c does to the pieces.
LEMMA ReactorPieces ==
  ASSUME LoopInv, program = "server_reactor", reactor_loop
  PROVE  \/ Stays
         \/ \E fd \in Fds : \/ Starts(fd) \/ Stops(fd)
                            \/ \E ret : Takes(fd, ret)
                            \/ \E piece : Puts(fd, piece)
  <1>0. /\ LoopTypes /\ busy = 0 /\ program \notin Blocking /\ program \notin C1000k
        /\ program # ET /\ ItemsMatchKernel /\ ev \in [Fds -> ItemType] /\ open \subseteq Fds
        /\ "in" \in Masks /\ "out" \in Masks /\ "server_selete" \notin {program}
    BY DEF LoopInv, BusyInIo, Io, Blocking, ET, C1000k, LoopTypes, Masks
  <1>a. \A f : Through(f) = f
    BY <1>0 DEF Through, BufferOf
  <1>1. CASE epoll_wait /\ UNCHANGED echoVars
    BY <1>1 DEF epoll_wait, Stays, Steady, Pending, Dead, sockVars, echoVars
  <1>2. CASE accept_callback
    <2>1. CASE open = Fds /\ UNCHANGED <<ev, sockVars>>
      BY <1>2, <2>1 DEF accept_callback, Stays, Steady, Pending, Dead, sockVars, echoVars
    <2>2. CASE \E fd \in Fds :
                 Accepted(fd) /\ ev' = [ev EXCEPT ![fd] = nreactor_set_event(@, "in")]
      <3>1. PICK fd \in Fds :
              Accepted(fd) /\ ev' = [ev EXCEPT ![fd] = nreactor_set_event(@, "in")]
        BY <2>2
      <3>2. fd \in Fds \ open
        BY <3>1 DEF Accepted
      <3>3. nreactor_set_event(ev[fd], "in") = [events |-> "in", kernel |-> "in"]
        BY <1>0, <3>2, ItemsTurn
      <3>4. \A f \in Fds \ {fd} : ev'[f] = ev[f] /\ peer'[f] = peer[f]
        BY <1>0, <3>1 DEF Accepted, LoopTypes
      <3>5. ~Pending(fd)' /\ \A f \in open : Steady(f)
        BY <1>0, <1>2, <3>1, <3>2, <3>3, <3>4 DEF accept_callback, Steady, Pending, Dead, echoVars
      <3>6. Starts(fd)
        BY <1>0, <1>2, <3>1, <3>2, <3>5 DEF accept_callback, Accepted, Starts, echoVars
      <3> QED
        BY <3>6
    <2> QED
      BY <1>2, <2>1, <2>2 DEF accept_callback
  <1>3. ASSUME NEW fd \in Fds, read_callback(fd)
        PROVE  Stays \/ Stops(fd) \/ \E ret : Takes(fd, ret)
    <2>0. ev[fd].kernel = "in" /\ fd \in open
      <3>1. Handle(fd, "in")
        BY <1>3 DEF read_callback, ReadSome, ReadEnd, ReadError
      <3> QED
        BY <3>1, HandledOnce DEF LastEntry
    <2>1. CASE ReadSome(fd)
      <3>1. nreactor_set_event(ev[fd], "out") = [events |-> "out", kernel |-> "out"]
        BY <1>0, <2>0, ItemsTurn
      <3>2. PICK ret \in Received(fd) : Receives(fd, ret) /\ buffer' = [buffer EXCEPT ![fd] = ret]
        BY <2>1 DEF ReadSome
      <3>3. ev'[fd].kernel = "out" /\ \A f \in Fds \ {fd} : ev'[f] = ev[f]
        BY <1>0, <2>1, <3>1 DEF ReadSome
      <3>4. ~Pending(fd) /\ Pending(fd)' /\ \A f \in open \ {fd} : Steady(f)
        BY <1>0, <2>0, <2>1, <3>3 DEF ReadSome, Steady, Pending, Dead, frame, ioVars
      <3>5. Takes(fd, ret)
        BY <1>0, <1>a, <2>0, <2>1, <3>2, <3>4
        DEF ReadSome, Takes, Overtakes, Dead, frame, ioVars
      <3> QED
        BY <3>5
    <2>2. CASE ReadEnd(fd)
      <3>1. \A f \in Fds \ {fd} : ev'[f] = ev[f] /\ peer'[f] = peer[f]
        BY <1>0, <2>2 DEF ReadEnd, Hangup, Closed, LoopTypes
      <3>2. \A f \in open \ {fd} : Steady(f)
        BY <1>0, <2>2, <3>1 DEF ReadEnd, Steady, Pending, Dead
      <3> QED
        BY <1>0, <2>0, <2>2, <3>2 DEF ReadEnd, Stops, Hangup, Closed
    <2>3. CASE ReadError(fd)
      BY <1>0, <2>0, <2>3, ErrorsStay
      DEF ReadError, Stays, Steady, Pending, frame, echoVars
    <2> QED
      BY <1>3, <2>1, <2>2, <2>3 DEF read_callback
  <1>4. ASSUME NEW fd \in Fds, write_callback(fd)
        PROVE  Stays \/ \E piece : Puts(fd, piece)
    <2>0. ev[fd].kernel = "out" /\ fd \in open
      <3>1. Handle(fd, "out")
        BY <1>4 DEF write_callback, WriteAll, WriteFails, WriteKills
      <3> QED
        BY <3>1, HandledOnce DEF LastEntry
    <2>1. CASE WriteAll(fd)
      <3>1. nreactor_set_event(ev[fd], "in") = [events |-> "in", kernel |-> "in"]
        BY <1>0, <2>0, ItemsTurn
      <3>2. ev'[fd].kernel = "in" /\ \A f \in Fds \ {fd} : ev'[f] = ev[f]
        BY <1>0, <2>1, <3>1 DEF WriteAll
      <3>3. Pending(fd) /\ ~Pending(fd)' /\ \A f \in open \ {fd} : Steady(f)
        BY <1>0, <2>0, <2>1, <3>2 DEF WriteAll, Steady, Pending, Dead, frame, ioVars
      <3>4. Puts(fd, buffer[fd])
        BY <1>0, <1>a, <2>0, <2>1, <3>3 DEF WriteAll, Puts, Dead, frame, ioVars
      <3> QED
        BY <3>4
    <2>2. CASE WriteFails(fd)
      <3>1. nreactor_set_event(ev[fd], "out") = ev[fd]
        BY <1>0, <2>0, ItemsTurn
      <3>2. ev' = ev
        BY <1>0, <2>2, <3>1 DEF WriteFails
      <3> QED
        BY <1>0, <2>0, <2>2, <3>2, ErrorsStay
        DEF WriteFails, Stays, Steady, Pending, frame, echoVars
    <2>3. CASE WriteKills(fd)
      BY <1>0, <2>3, EndsStays DEF WriteKills
    <2> QED
      BY <1>4, <2>1, <2>2, <2>3 DEF write_callback
  <1> QED
    BY <1>1, <1>2, <1>3, <1>4 DEF reactor_loop

\* What the c1000k servers do to the pieces.
LEMMA C1000kPieces ==
  ASSUME LoopInv, program \in C1000k, c1000k_loop
  PROVE  \/ Stays
         \/ \E fd \in Fds : \/ Starts(fd) \/ Stops(fd)
                            \/ \E ret : Takes(fd, ret)
                            \/ \E piece : Puts(fd, piece)
  <1>0. /\ LoopTypes /\ busy = 0 /\ program \notin Blocking /\ program # ET
        /\ ItemsMatchKernel /\ ev \in [Fds -> ItemType] /\ open \subseteq Fds
    BY DEF LoopInv, BusyInIo, Io, Blocking, ET, C1000k, LoopTypes
  <1>a. \A f : Through(f) = BufferOf(f)
    BY <1>0 DEF Through
  <1>1. CASE epoll_wait /\ UNCHANGED echoVars
    BY <1>1 DEF epoll_wait, Stays, Steady, Pending, Dead, sockVars, echoVars
  <1>2. CASE AcceptConn
    <2>1. PICK fd \in Fds : /\ Accepted(fd) /\ ItemOf(fd)
                            /\ ev' = [ev EXCEPT ![fd].kernel = "in"] /\ buffer' = NewBuffers(fd)
      BY <1>2 DEF AcceptConn
    <2>2. /\ fd \in Fds \ open /\ ev'[fd].kernel = "in"
          /\ \A f \in Fds \ {fd} : ev'[f] = ev[f] /\ peer'[f] = peer[f]
      BY <1>0, <2>1 DEF Accepted, LoopTypes, ItemType
    <2>3. ~Pending(fd)' /\ \A f \in open : Steady(f)
      BY <1>0, <1>2, <2>2 DEF AcceptConn, Steady, Pending, Dead, ioVars
    <2>4. Starts(fd)
      BY <1>0, <1>2, <2>1, <2>2, <2>3 DEF AcceptConn, Accepted, Starts, ioVars
    <2> QED
      BY <2>4
  <1>3. CASE AcceptCrashes
    BY <1>0, <1>3, EndsStays DEF AcceptCrashes
  <1>4. CASE AcceptBreaks
    BY <1>4 DEF AcceptBreaks, Stays, Steady, Pending, Dead, sockVars, echoVars
  <1>5. ASSUME NEW fd \in Fds, InReceives(fd) PROVE \E ret : Takes(fd, ret)
    <2>1. fd \in open /\ ev[fd].kernel = "in"
      BY <1>5, HandledOnce DEF InReceives, LastEntry
    <2>2. PICK ret \in Received(fd) :
            /\ Receives(fd, ret)
            /\ buffer' = [buffer EXCEPT ![BufferOf(fd)] = Overwrite(@, ret)]
      BY <1>5 DEF InReceives
    <2>3. ev'[fd].kernel = "out" /\ \A f \in Fds \ {fd} : ev'[f] = ev[f]
      BY <1>0, <1>5 DEF InReceives, ItemType
    <2>4. ~Pending(fd) /\ Pending(fd)' /\ \A f \in open \ {fd} : Steady(f)
      BY <1>0, <1>5, <2>1, <2>3 DEF InReceives, Steady, Pending, Dead, frame
    <2>5. Takes(fd, ret)
      BY <1>0, <1>a, <1>5, <2>1, <2>2, <2>4 DEF InReceives, Takes, Dead, frame
    <2> QED
      BY <2>5
  <1>6. ASSUME NEW fd \in Fds, InEnds(fd) PROVE Stops(fd)
    <2>1. fd \in open
      BY <1>6, HandledOnce DEF InEnds, LastEntry
    <2>2. \A f \in Fds \ {fd} : ev'[f] = ev[f] /\ peer'[f] = peer[f]
      BY <1>0, <1>6 DEF InEnds, Hangup, Closed, LoopTypes
    <2>3. \A f \in open \ {fd} : Steady(f)
      BY <1>0, <1>6, <2>2 DEF InEnds, Steady, Pending, Dead
    <2> QED
      BY <1>6, <2>1, <2>3 DEF InEnds, Stops, Hangup, Closed
  <1>7. ASSUME NEW fd \in Fds, InIgnored(fd) PROVE Stays
    <2>1. fd \in open
      BY <1>7, HandledOnce DEF InIgnored, LastEntry
    <2>2. \A f \in open : Dead(f) => Dead(f)'
      BY <1>0, <1>7, <2>1, ErrorsStay DEF InIgnored
    <2> QED
      BY <1>7, <2>2 DEF InIgnored, Stays, Steady, Pending, frame, echoVars
  <1>8. ASSUME NEW fd \in Fds, Out(fd) PROVE \E piece : Puts(fd, piece)
    <2>1. fd \in open /\ ev[fd].kernel = "out"
      BY <1>8, HandledOnce DEF Out, LastEntry
    <2>2. \A f \in open : Dead(f) => Dead(f)'
      BY <1>0, <1>8, <2>1, ErrorsStay DEF Out
    <2>3. ev'[fd].kernel = "in" /\ \A f \in Fds \ {fd} : ev'[f] = ev[f]
      BY <1>0, <1>8 DEF Out, ItemType
    <2>4. Pending(fd) /\ ~Pending(fd)' /\ \A f \in open \ {fd} : Steady(f)
      BY <1>0, <1>8, <2>1, <2>2, <2>3 DEF Out, Steady, Pending, frame, ioVars
    <2>5. CASE ~Dead(fd) /\ Sends(fd, buffer[BufferOf(fd)])
      <3>1. Puts(fd, buffer[BufferOf(fd)])
        BY <1>0, <1>a, <1>8, <2>1, <2>2, <2>4, <2>5 DEF Out, Puts, frame, ioVars
      <3> QED
        BY <3>1
    <2>6. CASE SendFails(fd) /\ Sends(fd, << >>)
      <3>1. Puts(fd, << >>)
        BY <1>0, <1>8, <2>1, <2>2, <2>4, <2>6 DEF Out, Puts, SendFails, Dead, frame, ioVars
      <3> QED
        BY <3>1
    <2> QED
      BY <1>8, <2>5, <2>6 DEF Out
  <1>9. ASSUME NEW fd \in Fds, OutKills(fd) PROVE Stays
    BY <1>0, <1>9, EndsStays DEF OutKills
  <1> QED
    BY <1>1, <1>2, <1>3, <1>4, <1>5, <1>6, <1>7, <1>8, <1>9 DEF c1000k_loop

\* What the servers of zero_threadpool/io do to the pieces.
LEMMA IoPieces ==
  ASSUME LoopInv, program \in Io, io_loop
  PROVE  \/ Stays
         \/ \E fd \in Fds : \/ Starts(fd) \/ Stops(fd)
                            \/ \E ret : Takes(fd, ret) \/ Echoes(fd, ret)
                            \/ \E piece : Puts(fd, piece)
  <1>0. /\ LoopTypes /\ program \notin {"server_reactor", "server", "server3"}
        /\ program \notin C1000k
        /\ ET \notin Blocking /\ ET \in Io /\ Blocking \subseteq Io /\ ET # "server_selete"
        /\ ev \in [Fds -> ItemType] /\ open \subseteq Fds /\ 0 \notin Fds
        /\ \A fd \in Fds : ev[fd].kernel # "out"
    BY TypesGive DEF LoopInv, Io, Blocking, ET, C1000k, LoopTypes, BusyInIo
  <1>a. program \in Blocking => \A f : Through(f) = 0
    BY DEF Through
  <1>1. ASSUME IoWait \/ EtWait PROVE Stays
    BY <1>1 DEF IoWait, EtWait, epoll_wait, Stays, Steady, Pending, Dead, sockVars, echoVars
  <1>2. ASSUME NEW fd \in Fds, Accepted(fd),
               \/ ev' = [ev EXCEPT ![fd].kernel = "in"] /\ busy = 0 /\ busy' = 0
               \/ UNCHANGED ev /\ busy = 0 /\ program = ET,
               UNCHANGED <<program, buffer, got, sent, overtaken>>
        PROVE  Starts(fd)
    <2>1. /\ fd \in Fds \ open /\ ev'[fd].kernel # "out"
          /\ \A f \in Fds \ {fd} : ev'[f] = ev[f] /\ peer'[f] = peer[f]
      BY <1>0, <1>2 DEF Accepted, LoopTypes, ItemType
    <2>2. ~Pending(fd)' /\ \A f \in open : Steady(f)
      BY <1>0, <1>2, <2>1 DEF Steady, Pending, Dead
    <2> QED
      BY <1>0, <1>2, <2>1, <2>2 DEF Accepted, Starts
  <1>3. ASSUME IoAccept PROVE \E fd \in Fds : Starts(fd)
    <2>1. PICK fd \in Fds : Accepted(fd) /\ ev' = [ev EXCEPT ![fd].kernel = "in"]
      BY <1>3 DEF IoAccept
    <2>2. Starts(fd)
      BY <1>2, <1>3, <2>1 DEF IoAccept, echoVars
    <2> QED
      BY <2>2
  <1>4. ASSUME EtAccept PROVE \E fd \in Fds : Starts(fd)
    <2>1. PICK fd \in Fds : Accepted(fd) /\ busy' = fd
      BY <1>4 DEF EtAccept
    <2>2. Starts(fd)
      BY <1>2, <1>4, <2>1 DEF EtAccept
    <2> QED
      BY <2>2
  <1>5. ASSUME NEW fd \in Fds, IoRecv(fd) PROVE \E ret : Takes(fd, ret)
    <2>1. fd \in open /\ ev[fd].kernel = "in" /\ program \in Blocking /\ busy = 0 /\ busy' = fd
      BY <1>5, HandledOnce DEF IoRecv, LastEntry
    <2>2. PICK ret \in Received(fd) :
            /\ Receives(fd, ret)
            /\ buffer' = [buffer EXCEPT ![0] =
                            IF program = "server_epoll" THEN ret
                            ELSE ret \o SubSeq(@, Len(ret) + 1, Len(@))]
      BY <1>5 DEF IoRecv
    <2>3. buffer' = [buffer EXCEPT ![Through(fd)] =
                       IF program \in C1000k \cup {"server_selete"} THEN Overwrite(@, ret) ELSE ret]
      BY <1>0, <1>a, <2>1, <2>2 DEF Overwrite, Blocking
    <2>4. /\ ~Pending(fd) /\ Pending(fd)' /\ \A f \in open : ~Pending(f)
          /\ \A f \in open \ {fd} : Steady(f)
      BY <1>0, <1>5, <2>1 DEF IoRecv, Steady, Pending, Dead, frame
    <2>5. Takes(fd, ret)
      BY <1>0, <1>5, <2>1, <2>2, <2>3, <2>4 DEF IoRecv, Takes, Overtakes, Dead, frame
    <2> QED
      BY <2>5
  <1>6. ASSUME NEW fd \in Fds, IoSend(fd) PROVE \E piece : Puts(fd, piece)
    <2>1. fd \in open /\ program \in Blocking /\ busy = fd /\ busy' = 0
      BY <1>0, <1>6, TypesGive DEF IoSend, LoopTypes
    <2>2. \A f \in open : Dead(f) => Dead(f)'
      BY <1>0, <1>6, <2>1, ErrorsStay DEF IoSend
    <2>3. Pending(fd) /\ ~Pending(fd)' /\ \A f \in open \ {fd} : Steady(f)
      BY <1>0, <1>6, <2>1, <2>2 DEF IoSend, Steady, Pending, frame
    <2>4. ASSUME NEW piece \in Given(fd), Sends(fd, piece) PROVE Puts(fd, piece)
      <3>1. piece = buffer[0] \/ program = "server_selete"
        BY <2>1, <2>4 DEF Given, Blocking
      <3> QED
        BY <1>a, <1>6, <2>1, <2>2, <2>3, <2>4, <3>1 DEF IoSend, Puts, frame
    <2>5. CASE SendFails(fd) /\ Sends(fd, << >>)
      <3>1. Puts(fd, << >>)
        BY <1>6, <2>1, <2>2, <2>3, <2>5 DEF IoSend, Puts, SendFails, Dead, frame
      <3> QED
        BY <3>1
    <2> QED
      BY <1>6, <2>4, <2>5 DEF IoSend
  <1>7. ASSUME NEW fd \in Fds, IoSendKills(fd) \/ EtEchoKills(fd) \/ EtExits(fd)
        PROVE  Stays
    BY <1>0, <1>7, EndsStays DEF IoSendKills, EtEchoKills, EtExits
  <1>8. ASSUME NEW fd \in Fds, IoEnd(fd) PROVE Stops(fd)
    <2>1. fd \in open
      BY <1>8, HandledOnce DEF IoEnd, LastEntry
    <2>2. \A f \in Fds \ {fd} : ev'[f] = ev[f] /\ peer'[f] = peer[f]
      BY <1>0, <1>8 DEF IoEnd, Hangup, Closed, LoopTypes
    <2>3. \A f \in open \ {fd} : Steady(f)
      BY <1>0, <1>8, <2>2 DEF IoEnd, Steady, Pending, Dead
    <2> QED
      BY <1>0, <1>8, <2>1, <2>3 DEF IoEnd, Stops, Hangup, Closed
  <1>9. ASSUME NEW fd \in Fds, IoError(fd) PROVE Stays
    <2>1. fd \in open
      BY <1>9, HandledOnce DEF IoError, LastEntry
    <2>2. CASE Reported(fd) /\ UNCHANGED <<ev, frame, inbox, stalled, killed, echoVars>>
      BY <1>0, <2>1, <2>2, ErrorsStay DEF Stays, Steady, Pending, frame, echoVars
    <2> QED
      BY <1>0, <1>9, <2>2, EndsStays DEF IoError
  <1>10. ASSUME NEW fd \in Fds, EtAdd(fd) \/ EtBegin(fd) \/ EtAgain(fd) PROVE Stays
    <2>1. program = ET /\ \A f \in Fds : ev'[f].kernel # "out"
      BY <1>0, <1>10 DEF EtAdd, EtBegin, EtAgain, Draining, ItemType
    <2> QED
      BY <1>0, <1>10, <2>1
      DEF EtAdd, EtBegin, EtAgain, Stays, Steady, Pending, Dead, sockVars
  <1>11. ASSUME NEW fd \in Fds, EtEcho(fd) PROVE \E ret : Echoes(fd, ret)
    <2>1. fd \in open /\ program = ET
      BY <1>0, <1>11, TypesGive DEF EtEcho, Draining, LoopTypes
    <2>2. \A f \in open : Dead(f) => Dead(f)'
      BY <1>0, <1>11, <2>1, ErrorsStay DEF EtEcho, EtEchoes
    <2>3. PICK ret \in Received(fd) : Receives(fd, ret) /\ (Sends(fd, ret) \/ Sends(fd, << >>))
      BY <1>11 DEF EtEcho, EtEchoes
    <2>4. Echoes(fd, ret)
      BY <1>0, <1>11, <2>1, <2>2, <2>3 DEF EtEcho, EtEchoes, Echoes, Steady, Pending, frame
    <2> QED
      BY <2>4
  <1>12. ASSUME AcceptExits PROVE Stays
    BY <1>0, <1>12, EndsStays DEF AcceptExits
  <1> DEFINE Effect(fd) ==
               \/ Starts(fd) \/ Stops(fd)
               \/ \E ret : Takes(fd, ret) \/ Echoes(fd, ret)
               \/ \E piece : Puts(fd, piece)
  <1>13. ASSUME NEW fd \in Fds, IoRecv(fd) \/ EtEcho(fd) PROVE Effect(fd)
    <2>1. CASE IoRecv(fd)
      BY <1>5, <2>1
    <2>2. CASE EtEcho(fd)
      BY <1>11, <2>2
    <2> QED
      BY <1>13, <2>1, <2>2
  <1>14. ASSUME NEW fd \in Fds, IoSend(fd) \/ IoEnd(fd) PROVE Effect(fd)
    BY <1>6, <1>8, <1>14
  <1> HIDE DEF Effect
  <1>15. Stays \/ \E fd \in Fds : Effect(fd)
    <2>1. (\E fd \in Fds : Starts(fd)) => \E fd \in Fds : Effect(fd)
      BY DEF Effect
    <2> QED
      BY <1>1, <1>3, <1>4, <1>7, <1>9, <1>10, <1>12, <1>13, <1>14, <2>1 DEF io_loop
  <1> QED
    BY <1>15 DEF Effect

\* What the clients do to the pieces.
LEMMA ClientPieces ==
  ASSUME LoopInv, Clients
  PROVE  Stays \/ \E fd \in Fds : Comes(fd)
  <1>1. UNCHANGED <<program, ev, open, busy, got, sent, buffer, overtaken>>
    BY DEF Clients, serverFrame, clientFrame, slotVars
  <1>2. \A f \in open : Dead(f) => Dead(f)'
    BY DEF Clients, Connect, GiveUp, SendChunk, Leave, Drain, Dead, LoopInv, LoopTypes
  <1>3. \A f \in open : Steady(f)
    BY <1>1, <1>2 DEF Steady, Pending
  <1>4. ASSUME NEW fd \in Fds, SendChunk(fd, chunks + 1) PROVE Comes(fd)
    <2>1. fd \in open
      BY <1>4 DEF SendChunk, LoopInv, LoopTypes
    <2> QED
      BY <1>1, <1>3, <1>4, <2>1 DEF SendChunk, Comes
  <1>5. CASE UNCHANGED <<inbox, chunks>>
    BY <1>1, <1>3, <1>5 DEF Stays
  <1> QED
    BY <1>4, <1>5 DEF Clients, Connect, GiveUp, Leave, Drain

\* Every step does one of these to the pieces.
LEMMA PiecesEffect ==
  ASSUME LoopInv, [Next]_vars
  PROVE  \/ Stays
         \/ \E fd \in Fds : \/ Comes(fd) \/ Starts(fd) \/ Stops(fd)
                            \/ \E ret : Takes(fd, ret) \/ Echoes(fd, ret)
                            \/ \E piece : Puts(fd, piece)
  <1>1. CASE UNCHANGED vars
    BY <1>1 DEF vars, slotVars, sockVars, echoVars, Stays, Steady, Pending, Dead
  <1> QED
    BY <1>1, ReactorPieces, C1000kPieces, IoPieces, ClientPieces DEF Next, loop, Io
-----------------------------------------------------------------------------
(* PiecesInv is inductive beside LoopInv *)

PieceTypes ==
  /\ inbox \in [Fds -> Seq(Kinds)] /\ chunks \in Nat
  /\ got \in [Fds -> Seq(Pieces)] /\ sent \in [Fds -> Seq(Pieces)]
  /\ buffer \in [Fds \cup {0} -> Pieces]
  /\ overtaken \subseteq Fds \X (1 .. MaxChunks)

\* server.c frees the buffers of a connection that ends.
Freed == program = "server" => \A fd \in Fds \ open : buffer[fd] = << >>

PiecesInv == PieceTypes /\ Histories /\ Buffers /\ Freed /\ EchoesInOrder

\* The pieces of a connection that a shared buffer lost.
Lost(fd) == {i \in Nat : <<fd, i>> \in overtaken}

\* EchoesInOrder, of one connection.
FdInOrder(fd) ==
  InOrder(program, Dead(fd), got[fd], sent[fd], buffer[Through(fd)], Pending(fd), Lost(fd))

\* EchoesInOrder, connection by connection.
LEMMA OrderIs ==
  ASSUME PieceTypes, open \subseteq Fds
  PROVE  EchoesInOrder <=> \A fd \in open : FdInOrder(fd)
  <1>1. ASSUME NEW fd \in open
        PROVE  /\ DOMAIN got[fd] \subseteq Nat
               /\ \A piece, answer : Answers(fd, piece, answer)
                     <=> Fits(program, Dead(fd), Held(got[fd]), piece, answer)
    <2>1. got[fd] \in Seq(Pieces)
      BY DEF PieceTypes
    <2>2. DOMAIN got[fd] = 1 .. Len(got[fd])
      BY <2>1, LenProperties
    <2> QED
      BY <2>2 DEF Answers, Fits, Held
  <1>2. ASSUME NEW fd \in open
        PROVE  \A i \in DOMAIN got[fd] : i \notin Lost(fd) <=> <<fd, i>> \notin overtaken
    BY <1>1 DEF Lost
  <1> QED
    BY <1>1, <1>2 DEF EchoesInOrder, FdInOrder, InOrder, Through

\* A connection whose pieces, buffer and state stay is in order if it was.
LEMMA Unmoved ==
  ASSUME NEW f, FdInOrder(f), Steady(f), program' = program, got'[f] = got[f], sent'[f] = sent[f],
         buffer'[Through(f)] = buffer[Through(f)], overtaken \subseteq overtaken'
  PROVE  FdInOrder(f)'
  <1> DEFINE buf == buffer[Through(f)]
  <1>1. Through(f)' = Through(f) /\ buffer'[Through(f)'] = buf
    BY DEF Through, BufferOf
  <1>2. Pending(f) \in BOOLEAN /\ Pending(f)' = Pending(f) /\ Lost(f) \subseteq Lost(f)'
        /\ (Dead(f) => Dead(f)')
    BY DEF Pending, Steady, Lost
  <1>3. InOrder(program, Dead(f), got[f], sent[f], buf, Pending(f), Lost(f))
    BY DEF FdInOrder
  <1> HIDE DEF buf
  <1>4. InOrder(program, Dead(f)', got[f], sent[f], buf, Pending(f), Lost(f)')
    BY <1>2, <1>3, MoreIsLost
  <1> QED
    BY <1>1, <1>2, <1>4 DEF FdInOrder

\* OrderIs, after a step.
LEMMA OrderIsNext ==
  ASSUME PieceTypes', LoopInv', \A fd \in open' : FdInOrder(fd)'
  PROVE  EchoesInOrder'
  <1>1. (PieceTypes /\ open \subseteq Fds => (EchoesInOrder <=> \A fd \in open : FdInOrder(fd)))'
    BY OrderIs, PTL
  <1> QED
    BY <1>1 DEF LoopInv, LoopTypes

\* What PiecesInv says of a connection.
LEMMA PiecesGive ==
  ASSUME LoopInv, PiecesInv
  PROVE  /\ open \subseteq Fds /\ 0 \notin Fds /\ program \in Programs
         /\ inbox \in [Fds -> Seq(Kinds)] /\ chunks \in Nat
         /\ got \in [Fds -> Seq(Pieces)] /\ sent \in [Fds -> Seq(Pieces)]
         /\ buffer \in [Fds \cup {0} -> Pieces]
         /\ overtaken \subseteq Fds \X (1 .. MaxChunks)
         /\ \A fd \in open : FdInOrder(fd)
         /\ Histories /\ Buffers /\ Freed
         /\ \A fd \in Fds : Through(fd) \in Fds \cup {0} /\ BufferOf(fd) \in Fds \cup {0}
         /\ \A fd \in Fds : Len(got[fd]) \in Nat /\ Len(inbox[fd]) \in Nat /\ Len(sent[fd]) \in Nat
  <1>1. PieceTypes /\ open \subseteq Fds /\ 0 \notin Fds /\ program \in Programs
    BY TypesGive DEF PiecesInv, LoopInv, LoopTypes
  <1>2. \A fd \in open : FdInOrder(fd)
    BY <1>1, OrderIs DEF PiecesInv
  <1>3. \A fd \in Fds : Len(got[fd]) \in Nat /\ Len(inbox[fd]) \in Nat /\ Len(sent[fd]) \in Nat
    BY <1>1, LenProperties DEF PieceTypes
  <1> QED
    BY <1>1, <1>2, <1>3 DEF PiecesInv, PieceTypes, Through, BufferOf

\* No piece moves, and nothing is asked of what was not open.
LEMMA StaysKeeps ==
  ASSUME LoopInv, LoopInv', PiecesInv, Stays
  PROVE  PiecesInv'
  <1>1. PieceTypes'
    BY DEF Stays, PiecesInv, PieceTypes
  <1>2. Histories' /\ Freed'
    BY DEF Stays, PiecesInv, Histories, Freed
  <1>3. Buffers'
    BY DEF Stays, PiecesInv, Buffers, BufferOf
  <1>4. \A fd \in open' : FdInOrder(fd)'
    BY PiecesGive, Unmoved DEF Stays
  <1> QED
    BY <1>1, <1>2, <1>3, <1>4, OrderIsNext DEF PiecesInv

\* A chunk waits to be received.
LEMMA ComesKeeps ==
  ASSUME LoopInv, LoopInv', PiecesInv, NEW fd \in Fds, Comes(fd)
  PROVE  PiecesInv'
  <1>0. /\ inbox \in [Fds -> Seq(Kinds)] /\ chunks \in Nat /\ MaxChunks \in Nat
        /\ chunks + 1 \in Kinds /\ fd \in open /\ Histories
        /\ inbox' = [inbox EXCEPT ![fd] = Append(@, chunks + 1)] /\ chunks' = chunks + 1
        /\ \A f \in Fds : Len(got[f]) \in Nat /\ Len(inbox[f]) \in Nat
        /\ chunks < MaxChunks /\ UNCHANGED <<got, sent, open>>
    BY PiecesGive, KernelAssumption, EchoAssumption DEF Comes
  <1>1. inbox' \in [Fds -> Seq(Kinds)] /\ Len(inbox'[fd]) = Len(inbox[fd]) + 1
        /\ \A f \in Fds \ {fd} : inbox'[f] = inbox[f]
    BY <1>0, LenProperties
  <1>2. PieceTypes'
    BY <1>0, <1>1 DEF Comes, PiecesInv, PieceTypes
  <1>3. Histories'
    <2>1. ASSUME NEW f \in Fds PROVE Len(got'[f]) + Len(inbox'[f]) <= chunks'
      <3>1. Len(got[f]) + Len(inbox[f]) <= chunks /\ Len(got[f]) \in Nat /\ Len(inbox[f]) \in Nat
        BY <1>0 DEF Histories
      <3>2. Len(inbox'[f]) <= Len(inbox[f]) + 1 /\ Len(inbox'[f]) \in Nat
        <4>1. CASE f = fd
          BY <1>1, <3>1, <4>1
        <4>2. CASE f # fd
          <5>1. inbox'[f] = inbox[f]
            BY <1>1, <4>2
          <5> QED
            BY <3>1, <5>1
        <4> QED
          BY <4>1, <4>2
      <3>3. Len(got'[f]) = Len(got[f]) /\ chunks' = chunks + 1 /\ chunks \in Nat
        BY <1>0
      <3>4. Len(got[f]) + Len(inbox'[f]) <= chunks + 1
        <4>1. \A g, i, j, c \in Nat : g + i <= c /\ j <= i + 1 => g + j <= c + 1
          OBVIOUS
        <4> QED
          BY ONLY <3>1, <3>2, <3>3, <4>1
      <3> QED
        BY ONLY <3>3, <3>4
    <2>2. chunks' <= MaxChunks
      BY <1>0
    <2>3. \A f \in Fds \ open : inbox'[f] = << >> /\ got[f] = << >> /\ sent[f] = << >>
      BY <1>0, <1>1 DEF Histories
    <2> QED
      BY <1>0, <2>1, <2>2, <2>3 DEF Histories
  <1>4. Freed'
    BY DEF Comes, PiecesInv, Freed
  <1>5. Buffers'
    BY DEF Comes, PiecesInv, Buffers, BufferOf
  <1>6. \A f \in open' : FdInOrder(f)'
    BY PiecesGive, Unmoved DEF Comes
  <1> QED
    BY <1>2, <1>3, <1>4, <1>5, <1>6, OrderIsNext DEF PiecesInv

\* A new connection starts with nothing, and its buffer with zeroes.
LEMMA StartsKeeps ==
  ASSUME LoopInv, LoopInv', PiecesInv, NEW fd \in Fds, Starts(fd)
  PROVE  PiecesInv'
  <1>0. /\ fd \notin open /\ open' = open \cup {fd} /\ fd # 0 /\ program' = program
        /\ UNCHANGED <<inbox, got, sent, overtaken, chunks>> /\ Histories /\ Buffers /\ Freed
        /\ inbox[fd] = << >> /\ got[fd] = << >> /\ sent[fd] = << >>
        /\ buffer \in [Fds \cup {0} -> Pieces] /\ program \in Programs /\ open \subseteq Fds
        /\ 0 \notin Fds
    BY PiecesGive DEF Starts, Histories
  <1>1. /\ buffer' = IF program \in C1000k /\ program # "server3" THEN [buffer EXCEPT ![fd] = Zeroes]
                     ELSE buffer
    BY DEF Starts, NewBuffers
  <1>2. /\ buffer' \in [Fds \cup {0} -> Pieces] /\ \A f \in (Fds \cup {0}) \ {fd} : buffer'[f] = buffer[f]
        /\ program \in C1000k /\ program # "server3" =>
             Len(buffer'[fd]) = BUFFER_LENGTH /\ Range(buffer'[fd]) \subseteq {0}
    BY <1>0, <1>1, ZeroesIs
  <1>3. PieceTypes'
    BY <1>0, <1>2 DEF PiecesInv, PieceTypes
  <1>4. Histories' /\ Freed'
    BY <1>0, <1>2 DEF Histories, Freed
  <1>5. Buffers'
    <2>1. program \in C1000k => \A f \in open' : Len(buffer'[BufferOf(f)]) = BUFFER_LENGTH
      BY <1>0, <1>2 DEF Buffers, BufferOf, C1000k
    <2>2. program \in {"server", "server2"} =>
            \A f \in open' : Range(buffer'[f]) \subseteq {0} \cup Held(got[f])
      BY <1>0, <1>2 DEF Buffers, C1000k
    <2>3. program \in {"server3", "server_selete"} => Len(buffer'[0]) = BUFFER_LENGTH
      BY <1>0, <1>2 DEF Buffers
    <2> QED
      BY <1>0, <2>1, <2>2, <2>3 DEF Buffers, BufferOf
  <1>6. ASSUME NEW f \in open' PROVE FdInOrder(f)'
    <2>1. CASE f = fd
      <3>1. InOrder(program', Dead(f)', << >>, << >>, buffer'[Through(f)'], FALSE, Lost(f)')
        BY NothingYet
      <3>2. Pending(f)' = FALSE
        BY <2>1 DEF Starts, Pending
      <3> QED
        BY <1>0, <2>1, <3>1, <3>2 DEF FdInOrder
    <2>2. CASE f \in open /\ f # fd
      <3>1. Through(f) # fd /\ Through(f) \in Fds \cup {0}
        BY <1>0, <2>2 DEF Through, BufferOf
      <3> QED
        BY <1>0, <1>2, <2>2, <3>1, PiecesGive, Unmoved DEF Starts
    <2> QED
      BY <1>0, <2>1, <2>2
  <1> QED
    BY <1>3, <1>4, <1>5, <1>6, OrderIsNext DEF PiecesInv

\* A connection that ends leaves nothing.
LEMMA StopsKeeps ==
  ASSUME LoopInv, LoopInv', PiecesInv, NEW fd \in Fds, Stops(fd)
  PROVE  PiecesInv'
  <1>0. /\ fd \in open /\ open' = open \ {fd} /\ fd # 0 /\ program' = program
        /\ UNCHANGED <<overtaken, chunks>> /\ Histories /\ Buffers /\ Freed /\ 0 \notin Fds
        /\ inbox' = [inbox EXCEPT ![fd] = << >>] /\ open \subseteq Fds
        /\ got' = [got EXCEPT ![fd] = << >>] /\ sent' = [sent EXCEPT ![fd] = << >>]
        /\ inbox \in [Fds -> Seq(Kinds)] /\ got \in [Fds -> Seq(Pieces)]
        /\ sent \in [Fds -> Seq(Pieces)] /\ buffer \in [Fds \cup {0} -> Pieces]
    BY PiecesGive DEF Stops
  <1>1. << >> \in Pieces
    BY NoPiece
  <1>2. /\ buffer' \in [Fds \cup {0} -> Pieces] /\ \A f \in (Fds \cup {0}) \ {fd} : buffer'[f] = buffer[f]
        /\ program = "server" => buffer'[fd] = << >>
    BY <1>0, <1>1 DEF Stops
  <1>3. /\ inbox' \in [Fds -> Seq(Kinds)] /\ got' \in [Fds -> Seq(Pieces)]
        /\ sent' \in [Fds -> Seq(Pieces)]
        /\ inbox'[fd] = << >> /\ got'[fd] = << >> /\ sent'[fd] = << >>
        /\ \A f \in Fds \ {fd} : inbox'[f] = inbox[f] /\ got'[f] = got[f] /\ sent'[f] = sent[f]
    BY <1>0
  <1>4. PieceTypes'
    BY <1>0, <1>2, <1>3 DEF PiecesInv, PieceTypes
  <1>5. Histories'
    <2>1. Len(<< >>) + Len(<< >>) = 0 /\ chunks \in Nat
      BY PiecesGive
    <2> QED
      BY <1>0, <1>3, <2>1 DEF Histories
  <1>6. Freed'
    BY <1>0, <1>2 DEF Freed
  <1>7. Buffers'
    <2>1. \A f \in open' : BufferOf(f) \in (Fds \cup {0}) \ {fd} /\ f \in Fds \ {fd} /\ f \in open
      BY <1>0 DEF BufferOf
    <2>2. program \in C1000k => \A f \in open' : Len(buffer'[BufferOf(f)]) = BUFFER_LENGTH
      BY <1>0, <1>2, <2>1 DEF Buffers
    <2>3. program \in {"server", "server2"} =>
            \A f \in open' : Range(buffer'[f]) \subseteq {0} \cup Held(got'[f])
      BY <1>0, <1>2, <1>3, <2>1 DEF Buffers
    <2>4. program \in {"server3", "server_selete"} => Len(buffer'[0]) = BUFFER_LENGTH
      BY <1>0, <1>2 DEF Buffers
    <2> QED
      BY <1>0, <2>2, <2>3, <2>4 DEF Buffers, BufferOf
  <1>8. ASSUME NEW f \in open' PROVE FdInOrder(f)'
    <2>1. f \in open /\ f # fd /\ Through(f) # fd /\ Through(f) \in Fds \cup {0}
      BY <1>0 DEF Through, BufferOf
    <2> QED
      BY <1>0, <1>2, <1>3, <2>1, PiecesGive, Unmoved DEF Stops
  <1> QED
    BY <1>4, <1>5, <1>6, <1>7, <1>8, OrderIsNext DEF PiecesInv

\* What is received, and what is left: the connection has given one more piece.
LEMMA ReceivesGives ==
  ASSUME LoopInv, PiecesInv, NEW fd \in open, NEW ret \in Received(fd), Receives(fd, ret),
         UNCHANGED <<open, chunks>>
  PROVE  /\ ret \in Pieces
         /\ inbox' \in [Fds -> Seq(Kinds)] /\ got' \in [Fds -> Seq(Pieces)]
         /\ got'[fd] = Append(got[fd], ret)
         /\ \A f \in Fds \ {fd} : inbox'[f] = inbox[f] /\ got'[f] = got[f]
         /\ (\A f \in Fds \ open : sent'[f] = sent[f]) => Histories'
  <1>0. /\ inbox \in [Fds -> Seq(Kinds)] /\ got \in [Fds -> Seq(Pieces)] /\ fd \in Fds
        /\ inbox' = [inbox EXCEPT ![fd] = SubSeq(@, Len(ret) + 1, Len(@))]
        /\ got' = [got EXCEPT ![fd] = Append(@, ret)] /\ Len(ret) <= BUFFER_LENGTH
        /\ Histories /\ chunks \in Nat
    BY PiecesGive DEF Receives
  <1> DEFINE in == inbox[fd]
             rest == SubSeq(in, Len(ret) + 1, Len(in))
  <1>1. in \in Seq(Kinds) /\ ret \in {SubSeq(in, 1, n) : n \in 1 .. Len(in)}
    BY <1>0 DEF Received
  <1>2. /\ ret \in Pieces /\ Len(ret) >= 1 /\ Len(ret) \in Nat /\ rest \in Seq(Kinds)
        /\ Len(ret) + Len(rest) = Len(in)
    BY <1>0, <1>1, ReceivedIs
  <1> HIDE DEF rest
  <1>3. inbox'[fd] = rest /\ inbox' = [inbox EXCEPT ![fd] = rest]
    BY <1>0 DEF rest
  <1>4. got[fd] \in Seq(Pieces)
    BY <1>0
  <1>5. /\ Append(got[fd], ret) \in Seq(Pieces) /\ Len(Append(got[fd], ret)) = Len(got[fd]) + 1
        /\ Len(got[fd]) \in Nat
    BY <1>2, <1>4, OneMore
  <1>6. /\ inbox' \in [Fds -> Seq(Kinds)] /\ got' \in [Fds -> Seq(Pieces)]
        /\ got'[fd] = Append(got[fd], ret)
        /\ \A f \in Fds \ {fd} : inbox'[f] = inbox[f] /\ got'[f] = got[f]
    BY <1>0, <1>2, <1>3, <1>5
  <1>7. Len(got'[fd]) + Len(inbox'[fd]) <= chunks
    <2>1. \A g, r, l, k, c \in Nat : g + l <= c /\ r + k = l /\ r >= 1 => g + 1 + k <= c
      OBVIOUS
    <2>2. Len(got[fd]) + Len(in) <= chunks /\ Len(in) \in Nat /\ Len(rest) \in Nat
      BY <1>0, <1>1, <1>2, LenProperties DEF Histories
    <2>3. Len(got[fd]) + 1 + Len(rest) <= chunks
      BY ONLY <1>0, <1>2, <1>5, <2>1, <2>2
    <2> QED
      BY <1>3, <1>5, <1>6, <2>3
  <1>8. ASSUME \A f \in Fds \ open : sent'[f] = sent[f] PROVE Histories'
    <2>1. ASSUME NEW f \in Fds PROVE Len(got'[f]) + Len(inbox'[f]) <= chunks
      BY <1>0, <1>6, <1>7 DEF Histories
    <2>2. \A f \in Fds \ open : inbox'[f] = << >> /\ got'[f] = << >> /\ sent'[f] = << >>
      BY <1>0, <1>6, <1>8 DEF Histories
    <2> QED
      BY <1>0, <2>1, <2>2 DEF Histories
  <1> QED
    BY <1>2, <1>6, <1>8

\* A piece is received: it is in the connection's buffer, and what it takes
\* from another connection there is lost.
LEMMA TakesKeeps ==
  ASSUME LoopInv, LoopInv', PiecesInv, NEW fd \in Fds, NEW ret, Takes(fd, ret)
  PROVE  PiecesInv'
  <1> DEFINE b   == Through(fd)
             old == buffer[b]
             new == IF program \in C1000k \cup {"server_selete"} THEN Overwrite(old, ret) ELSE ret
  <1>0. /\ fd \in open /\ program' = program /\ open' = open /\ UNCHANGED <<sent, chunks>>
        /\ ~Pending(fd) /\ Pending(fd)' /\ ret \in Received(fd) /\ Receives(fd, ret)
        /\ buffer' = [buffer EXCEPT ![b] = new] /\ open \subseteq Fds /\ 0 \notin Fds
        /\ sent \in [Fds -> Seq(Pieces)] /\ got \in [Fds -> Seq(Pieces)]
        /\ buffer \in [Fds \cup {0} -> Pieces] /\ b \in Fds \cup {0} /\ Buffers /\ Freed
        /\ overtaken \subseteq Fds \X (1 .. MaxChunks) /\ program \in Programs
        /\ Histories /\ chunks \in Nat /\ MaxChunks \in Nat
    BY PiecesGive, KernelAssumption DEF Takes
  <1>1. /\ ret \in Pieces
        /\ inbox' \in [Fds -> Seq(Kinds)] /\ got' \in [Fds -> Seq(Pieces)]
        /\ got'[fd] = Append(got[fd], ret)
        /\ \A f \in Fds \ {fd} : inbox'[f] = inbox[f] /\ got'[f] = got[f]
        /\ Histories'
    BY <1>0, ReceivesGives
  <1>2. program \in C1000k => b = BufferOf(fd)
    BY DEF Through, C1000k, Blocking
  <1>3. program \in C1000k \cup {"server_selete"} => Len(old) = BUFFER_LENGTH
    BY <1>0, <1>2 DEF Buffers, Through, Blocking
  <1>4. /\ new \in Pieces
        /\ program \in C1000k \cup {"server_selete"} =>
             /\ Len(new) = BUFFER_LENGTH /\ IsPrefix(ret, new)
             /\ Range(new) \subseteq Range(old) \cup Range(ret)
    BY <1>0, <1>1, <1>3, OverwriteIs
  <1>5. Held(got[fd]) \cup Range(ret) = Held(Append(got[fd], ret))
    BY <1>0, <1>1, HeldGrows
  <1>6. program \in {"server", "server2"} =>
          b = fd /\ Range(new) \subseteq {0} \cup Held(Append(got[fd], ret))
    <2>1. program \in {"server", "server2"} => b = fd /\ program \in C1000k
      BY DEF Through, Blocking, BufferOf, C1000k
    <2> QED
      BY <1>0, <1>4, <1>5, <2>1 DEF Buffers
  <1>7. Fits(program, Dead(fd), Held(Append(got[fd], ret)), ret, new)
    BY <1>4, <1>6 DEF Fits
  <1> HIDE DEF new
  <1>8. buffer' \in [Fds \cup {0} -> Pieces] /\ buffer'[b] = new
        /\ \A f \in (Fds \cup {0}) \ {b} : buffer'[f] = buffer[f]
    BY <1>0, <1>4
  <1>9. overtaken \subseteq overtaken' /\ overtaken' \subseteq Fds \X (1 .. MaxChunks)
    <2>1. ASSUME NEW f \in open, ev[f].kernel = "out" PROVE Len(got[f]) \in 1 .. MaxChunks
      <3>1. Pending(f)
        BY <2>1 DEF Pending
      <3>2. Len(got[f]) = Len(sent[f]) + 1
        BY <3>1, PiecesGive DEF FdInOrder, InOrder
      <3>3. /\ Len(got[f]) + Len(inbox[f]) <= chunks /\ chunks <= MaxChunks
            /\ Len(sent[f]) \in Nat /\ Len(inbox[f]) \in Nat
        BY <1>0, PiecesGive DEF Histories
      <3>4. \A s, i, c, m \in Nat : s + 1 + i <= c /\ c <= m => s + 1 \in 1 .. m
        OBVIOUS
      <3>5. chunks \in Nat /\ MaxChunks \in Nat /\ Len(sent[f]) + 1 + Len(inbox[f]) <= chunks
        BY <1>0, <3>2, <3>3
      <3>6. Len(sent[f]) + 1 \in 1 .. MaxChunks
        BY ONLY <3>3, <3>4, <3>5
      <3> QED
        BY ONLY <3>2, <3>6
    <2> QED
      BY <1>0, <2>1 DEF Takes, Overtakes
  <1>10. PieceTypes'
    BY <1>0, <1>1, <1>8, <1>9 DEF PiecesInv, PieceTypes
  <1>11. Freed'
    BY <1>0, <1>6, <1>8 DEF Freed
  <1>12. Buffers'
    <2>1. program \in C1000k => \A f \in open : Len(buffer'[BufferOf(f)]) = BUFFER_LENGTH
      BY <1>0, <1>4, <1>8 DEF Buffers, BufferOf
    <2>2. program \in {"server", "server2"} =>
            \A f \in open : Range(buffer'[f]) \subseteq {0} \cup Held(got'[f])
      BY <1>0, <1>1, <1>6, <1>8 DEF Buffers
    <2>3. program \in {"server3", "server_selete"} => Len(buffer'[0]) = BUFFER_LENGTH
      BY <1>0, <1>4, <1>8 DEF Buffers, C1000k
    <2> QED
      BY <1>0, <2>1, <2>2, <2>3 DEF Buffers, BufferOf
  <1>13. ASSUME NEW f \in open' PROVE FdInOrder(f)'
    <2>1. Lost(f) \subseteq Lost(f)' /\ Through(f)' = Through(f) /\ f \in open /\ FdInOrder(f)
      BY <1>0, <1>9, PiecesGive DEF Lost, Through, BufferOf
    <2>2. CASE f = fd
      <3>1. InOrder(program, Dead(f), got[f], sent[f], buffer[b], FALSE, Lost(f))
        BY <1>0, <2>1, <2>2 DEF FdInOrder, Pending
      <3>2. got[f] \in Seq(Pieces) /\ sent[f] \in Seq(Pieces)
        BY <1>0
      <3>3. InOrder(program, Dead(f), Append(got[f], ret), sent[f], new, TRUE, Lost(f))
        BY <1>1, <1>7, <2>2, <3>1, <3>2, OrderTakes
      <3>d. Dead(f) => Dead(f)'
        BY <2>2 DEF Takes
      <3>l. Lost(f) \subseteq Lost(f)'
        BY <2>1
      <3>4. InOrder(program, Dead(f)', Append(got[f], ret), sent[f], new, TRUE, Lost(f)')
        BY <3>d, <3>l, <3>3, MoreIsLost
      <3>5. Pending(f)' = TRUE
        BY <1>0, <2>2 DEF Pending
      <3> QED
        BY <1>0, <1>1, <1>8, <2>1, <2>2, <3>4, <3>5 DEF FdInOrder
    <2>3. CASE f # fd /\ Through(f) # b
      BY <1>0, <1>1, <1>8, <1>9, <2>1, <2>3, PiecesGive, Unmoved DEF Takes
    <2>4. CASE f # fd /\ Through(f) = b
      <3>1. Pending(f)' = Pending(f) /\ Pending(f) \in BOOLEAN /\ (Dead(f) => Dead(f)')
        BY <1>0, <2>1, <2>4 DEF Takes, Steady, Pending
      <3>2. Pending(f) => Len(got[f]) \in Lost(f)'
        <4>1. program \in Blocking \/ program = "server3"
          BY <2>4 DEF Through, BufferOf
        <4>2. CASE program \in Blocking
          BY <1>0, <2>1, <4>2 DEF Takes
        <4>3. CASE program = "server3"
          <5>1. Pending(f) => ev[f].kernel = "out"
            BY <4>3 DEF Pending, Blocking
          <5>2. ev[f].kernel = "out" => <<f, Len(got[f])>> \in overtaken'
            BY <2>1, <4>3 DEF Takes, Overtakes
          <5>3. Len(got[f]) \in Nat
            BY <1>0, <2>1, PiecesGive
          <5> QED
            BY <5>1, <5>2, <5>3 DEF Lost
        <4> QED
          BY <4>1, <4>2, <4>3
      <3>3. InOrder(program, Dead(f), got[f], sent[f], buffer[b], Pending(f), Lost(f))
        BY <2>1, <2>4 DEF FdInOrder
      <3>4. InOrder(program, Dead(f)', got[f], sent[f], buffer[b], Pending(f), Lost(f)')
        BY <2>1, <3>1, <3>3, MoreIsLost
      <3>5. got[f] \in Seq(Pieces) /\ sent[f] \in Seq(Pieces)
        BY <1>0, <2>1
      <3>6. InOrder(program, Dead(f)', got[f], sent[f], new, Pending(f), Lost(f)')
        BY <3>1, <3>2, <3>4, <3>5, OtherBuffer
      <3> QED
        BY <1>0, <1>1, <1>8, <2>1, <2>4, <3>1, <3>6 DEF FdInOrder
    <2> QED
      BY <2>2, <2>3, <2>4
  <1> QED
    BY <1>1, <1>10, <1>11, <1>12, <1>13, OrderIsNext DEF PiecesInv

\* What answers a piece that is pending: the buffer it is in, any first part of
\* it that holds the piece, or after an error nothing.
LEMMA PutsAnswers ==
  ASSUME LoopInv, PiecesInv, NEW fd \in Fds, NEW piece, Puts(fd, piece)
  PROVE  /\ piece \in Pieces
         /\ Len(got[fd]) \notin Lost(fd) =>
              Fits(program, Dead(fd), Held(got[fd]), got[fd][Len(got[fd])], piece)
  <1> DEFINE last == got[fd][Len(got[fd])]
             buf  == buffer[Through(fd)]
  <1>0. /\ fd \in open /\ Pending(fd) /\ FdInOrder(fd) /\ Buffers
        /\ got[fd] \in Seq(Pieces) /\ sent[fd] \in Seq(Pieces) /\ buf \in Pieces
        /\ BUFFER_LENGTH \in Nat \ {0}
    BY PiecesGive, EchoAssumption DEF Puts
  <1>1. /\ Len(got[fd]) = Len(sent[fd]) + 1 /\ Len(sent[fd]) \in Nat
        /\ DOMAIN got[fd] = 1 .. Len(got[fd]) /\ DOMAIN sent[fd] = 1 .. Len(sent[fd])
    BY <1>0, LenProperties DEF FdInOrder, InOrder
  <1>2. last \in Pieces /\ Len(got[fd]) \in DOMAIN got[fd] /\ Len(got[fd]) \notin DOMAIN sent[fd]
    BY <1>0, <1>1, ElementOfSeq
  <1>3. Len(got[fd]) \notin Lost(fd) => Fits(program, Dead(fd), Held(got[fd]), last, buf)
    BY <1>0, <1>2 DEF FdInOrder, InOrder
  <1>4. /\ last \in Seq(Stuff) /\ buf \in Seq(Stuff)
        /\ Len(last) \in Nat /\ Len(last) <= BUFFER_LENGTH
    BY <1>0, <1>2, PieceIs, LenProperties
  <1> HIDE DEF last, buf
  <1>5. CASE piece = buf
    BY <1>0, <1>3, <1>5 DEF last
  <1>6. CASE piece = << >> /\ Dead(fd)
    BY <1>6, NoPiece DEF Fits
  <1>7. CASE program = "server_selete" /\ piece \in Given(fd)
    <2>1. Through(fd) = 0 /\ program \notin {"server_epoll", "server", "server2", ET}
      BY <1>7 DEF Through, Blocking, ET
    <2>2. PICK n \in Len(last) .. BUFFER_LENGTH : piece = SubSeq(buf, 1, n)
      BY <1>7, <2>1 DEF Given, Last, last, buf
    <2>3. Len(buf) = BUFFER_LENGTH /\ n \in 0 .. BUFFER_LENGTH
      BY <1>0, <1>4, <1>7, <2>1 DEF Buffers, buf
    <2>4. piece \in Pieces
      BY <1>0, <2>2, <2>3, PartPiece
    <2>5. ASSUME Fits(program, Dead(fd), Held(got[fd]), last, buf)
          PROVE  Fits(program, Dead(fd), Held(got[fd]), last, piece)
      <3>1. buf # << >>
        BY <1>0, <2>3, EmptySeq
      <3>2. IsPrefix(last, last)
        BY <1>4, PrefixIs
      <3>3. IsPrefix(last, buf)
        BY <2>5, <3>1, <3>2 DEF Fits
      <3>4. IsPrefix(last, piece)
        BY <1>0, <1>2, <2>2, <2>3, <3>3, PartIs DEF last
      <3> QED
        BY <1>7, <2>1, <3>4 DEF Fits
    <2> QED
      BY <1>3, <2>4, <2>5 DEF last
  <1> QED
    BY <1>5, <1>6, <1>7 DEF Puts, buf

\* The piece that is pending is answered, and nothing else moves.
LEMMA PutsKeeps ==
  ASSUME LoopInv, LoopInv', PiecesInv, NEW fd \in Fds, NEW piece, Puts(fd, piece)
  PROVE  PiecesInv'
  <1>0. /\ fd \in open /\ UNCHANGED <<program, open, inbox, got, buffer, overtaken, chunks>>
        /\ Pending(fd) /\ ~Pending(fd)' /\ sent' = [sent EXCEPT ![fd] = Append(@, piece)]
        /\ sent \in [Fds -> Seq(Pieces)] /\ got \in [Fds -> Seq(Pieces)] /\ open \subseteq Fds
        /\ Histories /\ Buffers /\ Freed
    BY PiecesGive DEF Puts, Sends
  <1>1. /\ piece \in Pieces
        /\ Len(got[fd]) \notin Lost(fd) =>
             Fits(program, Dead(fd), Held(got[fd]), got[fd][Len(got[fd])], piece)
    BY PutsAnswers
  <1>2. /\ sent' \in [Fds -> Seq(Pieces)] /\ sent'[fd] = Append(sent[fd], piece)
        /\ \A f \in Fds \ {fd} : sent'[f] = sent[f]
    <2>1. Append(sent[fd], piece) \in Seq(Pieces)
      BY <1>0, <1>1, OneMore
    <2> QED
      BY <1>0, <2>1
  <1>3. PieceTypes'
    BY <1>0, <1>2 DEF PiecesInv, PieceTypes
  <1>4. Histories' /\ Freed'
    BY <1>0, <1>2 DEF Histories, Freed
  <1>5. Buffers'
    BY <1>0 DEF Buffers, BufferOf
  <1>6. ASSUME NEW f \in open' PROVE FdInOrder(f)'
    <2>1. CASE f = fd
      <3>1. InOrder(program, Dead(f), got[f], sent[f], buffer[Through(f)], TRUE, Lost(f))
        BY <1>0, <2>1, PiecesGive DEF FdInOrder, Pending
      <3>2. got[f] \in Seq(Pieces) /\ sent[f] \in Seq(Pieces)
        BY <1>0, <2>1
      <3>3. InOrder(program, Dead(f), got[f], Append(sent[f], piece), buffer[Through(f)], FALSE, Lost(f))
        BY <1>1, <2>1, <3>1, <3>2, OrderSends
      <3>4. (Dead(f) => Dead(f)') /\ Lost(f)' = Lost(f) /\ Through(f)' = Through(f)
        BY <1>0, <2>1 DEF Puts, Lost, Through, BufferOf
      <3>5. InOrder(program, Dead(f)', got[f], Append(sent[f], piece), buffer[Through(f)], FALSE, Lost(f))
        BY <3>3, <3>4, MoreIsLost
      <3>6. Pending(f)' = FALSE
        BY <1>0, <2>1 DEF Pending
      <3> QED
        BY <1>0, <1>2, <2>1, <3>4, <3>5, <3>6 DEF FdInOrder
    <2>2. CASE f # fd
      BY <1>0, <1>2, <2>2, PiecesGive, Unmoved DEF Puts
    <2> QED
      BY <2>1, <2>2
  <1> QED
    BY <1>3, <1>4, <1>5, <1>6, OrderIsNext DEF PiecesInv

\* The edge-triggered server receives and answers in one step.
LEMMA EchoesKeeps ==
  ASSUME LoopInv, LoopInv', PiecesInv, NEW fd \in Fds, NEW ret, Echoes(fd, ret)
  PROVE  PiecesInv'
  <1>0. /\ fd \in open /\ UNCHANGED <<program, open, buffer, overtaken, chunks>>
        /\ program = ET /\ ret \in Received(fd) /\ Receives(fd, ret)
        /\ sent \in [Fds -> Seq(Pieces)] /\ got \in [Fds -> Seq(Pieces)] /\ open \subseteq Fds
        /\ inbox \in [Fds -> Seq(Kinds)]
        /\ Histories /\ Buffers /\ Freed /\ chunks \in Nat
    BY PiecesGive DEF Echoes
  <1>1. PICK piece \in {ret, << >>} : sent' = [sent EXCEPT ![fd] = Append(@, piece)]
    BY DEF Echoes, Sends
  <1>2. /\ ret \in Pieces
        /\ inbox' \in [Fds -> Seq(Kinds)] /\ got' \in [Fds -> Seq(Pieces)]
        /\ got'[fd] = Append(got[fd], ret)
        /\ \A f \in Fds \ {fd} : inbox'[f] = inbox[f] /\ got'[f] = got[f]
        /\ (\A f \in Fds \ open : sent'[f] = sent[f]) => Histories'
    BY <1>0, ReceivesGives
  <1>3. piece \in Pieces
    BY <1>2, NoPiece
  <1>4. /\ sent' \in [Fds -> Seq(Pieces)] /\ sent'[fd] = Append(sent[fd], piece)
        /\ \A f \in Fds \ {fd} : sent'[f] = sent[f]
    <2>1. Append(sent[fd], piece) \in Seq(Pieces)
      BY <1>0, <1>3, OneMore
    <2> QED
      BY <1>0, <1>1, <2>1
  <1>5. PieceTypes'
    BY <1>0, <1>2, <1>4 DEF PiecesInv, PieceTypes
  <1>6. Histories' /\ Freed'
    BY <1>0, <1>2, <1>4 DEF Freed
  <1>7. Buffers'
    BY <1>0 DEF Buffers, ET, C1000k
  <1>8. ASSUME NEW f \in open' PROVE FdInOrder(f)'
    <2>1. CASE f = fd
      <3>1. Pending(f) = FALSE /\ Pending(f)' = FALSE /\ (Dead(f) => Dead(f)')
        BY <1>0, <2>1 DEF Echoes, Steady, Pending, LoopInv, BusyInIo, Io, ET, Blocking
      <3>2. InOrder(program, Dead(f), got[f], sent[f], buffer[Through(f)], FALSE, Lost(f))
        BY <1>0, <2>1, <3>1, PiecesGive DEF FdInOrder
      <3>3. got[f] \in Seq(Pieces) /\ sent[f] \in Seq(Pieces)
        BY <1>0, <2>1
      <3>4. Fits(program, Dead(f), Held(Append(got[f], ret)), ret, piece)
        BY <1>0 DEF Fits
      <3>5. InOrder(program, Dead(f), Append(got[f], ret), Append(sent[f], piece),
                    buffer[Through(f)], FALSE, Lost(f))
        BY <1>2, <1>3, <3>2, <3>3, <3>4, OrderEchoes
      <3>6. InOrder(program, Dead(f)', Append(got[f], ret), Append(sent[f], piece),
                    buffer[Through(f)], FALSE, Lost(f))
        BY <3>1, <3>5, MoreIsLost
      <3>7. Lost(f)' = Lost(f) /\ Through(f)' = Through(f)
        BY <1>0 DEF Lost, Through, BufferOf
      <3> QED
        BY <1>0, <1>2, <1>4, <2>1, <3>1, <3>6, <3>7 DEF FdInOrder
    <2>2. CASE f # fd
      BY <1>0, <1>2, <1>4, <2>2, PiecesGive, Unmoved DEF Echoes
    <2> QED
      BY <2>1, <2>2
  <1> QED
    BY <1>5, <1>6, <1>7, <1>8, OrderIsNext DEF PiecesInv

\* Whatever the step, PiecesInv holds after it.
LEMMA PiecesNext ==
  ASSUME LoopInv, PiecesInv, [Next]_vars
  PROVE  PiecesInv'
  BY LoopNext, PiecesEffect, StaysKeeps, ComesKeeps, StartsKeeps, StopsKeeps, TakesKeeps,
     PutsKeeps, EchoesKeeps

\* There is no connection at first, and every buffer is there or empty.
LEMMA PiecesInit ==
  ASSUME Init
  PROVE  PiecesInv
  <1>1. /\ open = {} /\ inbox = [fd \in Fds |-> << >>] /\ chunks = 0 /\ overtaken = {}
        /\ buffer = [fd \in Fds \cup {0} |-> IF fd = 0 THEN Zeroes ELSE << >>]
        /\ got = [fd \in Fds |-> << >>] /\ sent = [fd \in Fds |-> << >>]
    BY DEF Init, EchoInit, SocketsInit
  <1>2. /\ 0 \notin Fds /\ MaxChunks \in Nat /\ Len(<< >>) + Len(<< >>) <= 0
        /\ << >> \in Seq(Kinds) /\ << >> \in Seq(Pieces)
    BY KernelAssumption
  <1>3. PieceTypes
    BY <1>1, <1>2, NoPiece, ZeroesIs DEF PieceTypes
  <1>4. Histories /\ Freed
    BY <1>1, <1>2 DEF Histories, Freed
  <1>5. Buffers
    BY <1>1, ZeroesIs DEF Buffers
  <1>6. EchoesInOrder
    BY <1>1 DEF EchoesInOrder
  <1> QED
    BY <1>3, <1>4, <1>5, <1>6 DEF PiecesInv
-----------------------------------------------------------------------------
(* What is counted, and the descriptors that wait for room or have an edge *)

CountTypes ==
  /\ backlog \in Nat /\ conns \in Nat /\ killed \in BOOLEAN
  /\ stalled \subseteq open /\ edge \subseteq open

\* Nothing waits that is not open.
LEMMA CountsNext ==
  ASSUME LoopInv, CountTypes, [Next]_vars
  PROVE  CountTypes'
  <1>0. LoopTypes /\ 0 \notin Fds /\ open \subseteq Fds
    BY TypesGive DEF LoopInv, LoopTypes
  <1>1. ASSUME UNCHANGED <<backlog, conns, killed, stalled, edge, open>> PROVE CountTypes'
    BY <1>1 DEF CountTypes
  <1>2. ASSUME Ends PROVE CountTypes'
    BY <1>2 DEF Ends, CountTypes, frame, echoVars
  <1>3. ASSUME NEW fd \in Fds, Accepted(fd), UNCHANGED <<killed, edge>> PROVE CountTypes'
    BY <1>3 DEF Accepted, CountTypes
  <1>4. ASSUME NEW fd \in Fds, Hangup(fd), UNCHANGED killed PROVE CountTypes'
    BY <1>4 DEF Hangup, Closed, CountTypes
  <1>5. ASSUME NEW fd \in open, Filled(fd) \/ UNCHANGED stalled,
               UNCHANGED <<backlog, conns, killed, edge, open>>
        PROVE  CountTypes'
    BY <1>5 DEF Filled, CountTypes
  <1>6. ASSUME epoll_wait, UNCHANGED echoVars PROVE CountTypes'
    BY <1>1, <1>6 DEF epoll_wait, sockVars, echoVars
  <1>7. CASE reactor_loop
    <2>1. CASE accept_callback
      BY <1>1, <1>3, <2>1 DEF accept_callback, sockVars, echoVars
    <2>2. ASSUME NEW fd \in Fds, read_callback(fd) PROVE CountTypes'
      <3>1. CASE ReadSome(fd)
        BY <1>1, <3>1 DEF ReadSome, frame, ioVars
      <3>2. CASE ReadEnd(fd)
        BY <1>4, <3>2 DEF ReadEnd
      <3>3. CASE ReadError(fd)
        BY <1>1, <3>3 DEF ReadError, frame, echoVars
      <3> QED
        BY <2>2, <3>1, <3>2, <3>3 DEF read_callback
    <2>3. ASSUME NEW fd \in Fds, write_callback(fd) PROVE CountTypes'
      <3>1. CASE WriteAll(fd)
        <4>1. fd \in open
          BY <3>1, HandledOnce DEF WriteAll, LastEntry
        <4> QED
          BY <1>5, <3>1, <4>1 DEF WriteAll, frame, ioVars
      <3>2. CASE WriteFails(fd)
        BY <1>1, <3>2 DEF WriteFails, frame, echoVars
      <3>3. CASE WriteKills(fd)
        BY <1>2, <3>3 DEF WriteKills
      <3> QED
        BY <2>3, <3>1, <3>2, <3>3 DEF write_callback
    <2> QED
      BY <1>6, <1>7, <2>1, <2>2, <2>3 DEF reactor_loop
  <1>8. CASE c1000k_loop
    <2>1. CASE AcceptConn
      BY <1>3, <2>1 DEF AcceptConn, ioVars
    <2>2. CASE AcceptCrashes
      BY <1>2, <2>2 DEF AcceptCrashes
    <2>3. CASE AcceptBreaks
      BY <1>1, <2>3 DEF AcceptBreaks, sockVars, echoVars
    <2>4. ASSUME NEW fd \in Fds, InReceives(fd) \/ InIgnored(fd) PROVE CountTypes'
      BY <1>1, <2>4 DEF InReceives, InIgnored, frame, echoVars
    <2>5. ASSUME NEW fd \in Fds, InEnds(fd) PROVE CountTypes'
      BY <1>4, <2>5 DEF InEnds
    <2>6. ASSUME NEW fd \in Fds, Out(fd) PROVE CountTypes'
      <3>1. fd \in open
        BY <2>6, HandledOnce DEF Out, LastEntry
      <3> QED
        BY <1>5, <2>6, <3>1 DEF Out, frame, ioVars
    <2>7. ASSUME NEW fd \in Fds, OutKills(fd) PROVE CountTypes'
      BY <1>2, <2>7 DEF OutKills
    <2> QED
      BY <1>6, <1>8, <2>1, <2>2, <2>3, <2>4, <2>5, <2>6, <2>7 DEF c1000k_loop
  <1>9. CASE io_loop
    <2>1. CASE IoWait \/ EtWait
      BY <2>1 DEF IoWait, EtWait, epoll_wait, sockVars, echoVars, CountTypes
    <2>2. CASE IoAccept \/ EtAccept
      BY <1>3, <2>2 DEF IoAccept, EtAccept, echoVars
    <2>3. CASE AcceptExits
      BY <1>2, <2>3 DEF AcceptExits
    <2>4. ASSUME NEW fd \in Fds, IoRecv(fd) PROVE CountTypes'
      BY <1>1, <2>4 DEF IoRecv, frame
    <2>5. ASSUME NEW fd \in Fds, IoSend(fd) PROVE CountTypes'
      <3>1. fd \in open
        BY <1>0, <2>5 DEF IoSend, LoopTypes
      <3> QED
        BY <1>5, <2>5, <3>1 DEF IoSend, frame
    <2>6. ASSUME NEW fd \in Fds, IoSendKills(fd) \/ EtEchoKills(fd) \/ EtExits(fd) PROVE CountTypes'
      BY <1>2, <2>6 DEF IoSendKills, EtEchoKills, EtExits
    <2>7. ASSUME NEW fd \in Fds, IoEnd(fd) PROVE CountTypes'
      BY <1>4, <2>7 DEF IoEnd
    <2>8. ASSUME NEW fd \in Fds, IoError(fd) PROVE CountTypes'
      BY <1>1, <1>2, <2>8 DEF IoError, frame, echoVars
    <2>9. ASSUME NEW fd \in Fds, EtAdd(fd) PROVE CountTypes'
      <3>1. fd \in open
        BY <1>0, <2>9 DEF EtAdd, LoopTypes
      <3> QED
        BY <2>9, <3>1 DEF EtAdd, sockVars, CountTypes
    <2>10. ASSUME NEW fd \in Fds, EtBegin(fd) \/ EtAgain(fd) PROVE CountTypes'
      BY <1>1, <2>10 DEF EtBegin, EtAgain, sockVars
    <2>11. ASSUME NEW fd \in Fds, EtEcho(fd) PROVE CountTypes'
      <3>1. fd \in open
        BY <1>0, <2>11 DEF EtEcho, Draining, LoopTypes
      <3> QED
        BY <1>5, <2>11, <3>1 DEF EtEcho, EtEchoes, frame
    <2> QED
      BY <1>9, <2>1, <2>2, <2>3, <2>4, <2>5, <2>6, <2>7, <2>8, <2>9, <2>10, <2>11 DEF io_loop
  <1>10. CASE Clients
    <2>1. UNCHANGED <<open, killed>>
      BY <1>10 DEF Clients, serverFrame, clientFrame
    <2>2. backlog' \in Nat /\ conns' \in Nat /\ stalled' \subseteq open
      BY <1>10 DEF Clients, Connect, GiveUp, SendChunk, Leave, Drain, CountTypes
    <2>3. edge' \subseteq open
      <3>1. ASSUME NEW fd \in Fds, ev[fd].kernel = "in" PROVE fd \in open
        BY <3>1 DEF LoopInv, ItemsMatchKernel
      <3> QED
        BY <1>10, <3>1 DEF Clients, Touches, CountTypes
    <2> QED
      BY <2>1, <2>2, <2>3 DEF CountTypes
  <1>11. CASE UNCHANGED vars
    BY <1>1, <1>11 DEF vars, sockVars, echoVars
  <1> QED
    BY <1>7, <1>8, <1>9, <1>10, <1>11 DEF Next, loop
-----------------------------------------------------------------------------
(* NoLostEdge *)

\* What is to be read from a connection is known to the thread or will be.
Noticed(fd) == fd \in edge \/ busy = fd \/ \E e \in batch : e.fd = fd

\* A connection that nothing comes to and the thread is not led away from is
\* still noticed.
LEMMA NoticedStays ==
  ASSUME NEW fd, Readable(fd) => Noticed(fd),
         inbox'[fd] = inbox[fd], peer'[fd] = peer[fd],
         fd \in edge => fd \in edge', busy = fd => busy' = fd,
         \A e \in batch : e.fd = fd => e \in batch'
  PROVE  Readable(fd)' => Noticed(fd)'
  BY DEF Readable, Noticed

\* The edge that a client raises is reported, if the descriptor is watched;
\* otherwise the thread is adding it.
LEMMA ClientsNoticed ==
  ASSUME LoopInv, PiecesInv, NoLostEdge, program = ET, Clients
  PROVE  NoLostEdge'
  <1>0. /\ UNCHANGED <<program, ev, batch, open, busy, killed>> /\ ~killed
        /\ open \subseteq Fds /\ inbox \in [Fds -> Seq(Kinds)] /\ peer \in [Fds -> PeerStates]
        /\ \A f \in open : ev[f].kernel \in {"in", "none"}
        /\ \A f \in open : ev[f].kernel = "none" => busy = f
    BY PiecesGive, TypesGive DEF Clients, serverFrame, clientFrame, slotVars, LoopInv, LoopTypes,
       ItemsMatchKernel, BusyInIo, Io
  <1>1. ASSUME NEW f \in open PROVE Readable(f) => Noticed(f)
    BY <1>0, <1>1 DEF NoLostEdge, Noticed
  <1>2. edge \subseteq edge'
    BY DEF Clients, Touches
  <1>3. ASSUME NEW fd \in Fds, Touches(fd), NEW f \in open,
               f # fd => inbox'[f] = inbox[f] /\ peer'[f] = peer[f]
        PROVE  Readable(f)' => Noticed(f)'
    <2>1. CASE f # fd
      BY <1>0, <1>1, <1>2, <1>3, <2>1, NoticedStays
    <2>2. CASE f = fd
      <3>1. f \in edge' \/ busy' = f
        BY <1>0, <1>3, <2>2 DEF Touches
      <3> QED
        BY <3>1 DEF Noticed
    <2> QED
      BY <2>1, <2>2
  <1>4. ASSUME NEW f \in open PROVE Readable(f)' => Noticed(f)'
    <2>1. CASE UNCHANGED <<inbox, peer>>
      BY <1>0, <1>1, <1>2, <2>1, NoticedStays
    <2>2. ASSUME NEW fd \in Fds, SendChunk(fd, chunks + 1), Touches(fd)
          PROVE  Readable(f)' => Noticed(f)'
      BY <1>0, <1>3, <2>2 DEF SendChunk
    <2>3. ASSUME NEW fd \in Fds, NEW how, Leave(fd, how), Touches(fd)
          PROVE  Readable(f)' => Noticed(f)'
      BY <1>0, <1>3, <2>3 DEF Leave
    <2> QED
      BY <2>1, <2>2, <2>3 DEF Clients, Connect, GiveUp, Drain
  <1> QED
    BY <1>0, <1>4 DEF NoLostEdge, Noticed

\* The thread takes an edge with it, or ends.
LEMMA EtNoticed ==
  ASSUME LoopInv, PiecesInv, NoLostEdge, program = ET, io_loop, ~killed
  PROVE  NoLostEdge'
  <1>0. /\ open \subseteq Fds /\ inbox \in [Fds -> Seq(Kinds)] /\ got \in [Fds -> Seq(Pieces)]
        /\ peer \in [Fds -> PeerStates] /\ 0 \notin Fds /\ program \notin Blocking
        /\ busy \in open \cup {0} /\ \A e \in batch : e = Listener => e.fd = 0
        /\ \A f \in open : ev[f].kernel = "in" \/ busy = f
    BY PiecesGive, TypesGive DEF LoopInv, LoopTypes, ItemsMatchKernel, BusyInIo, Io, ET, Blocking,
       Listener
  <1>1. ASSUME NEW f \in open PROVE Readable(f) => Noticed(f)
    BY <1>1 DEF NoLostEdge, Noticed
  <1>2. ASSUME \A f \in open' : Readable(f)' => Noticed(f)' PROVE NoLostEdge'
    BY <1>2 DEF NoLostEdge, Noticed
  <1>3. ASSUME Ends PROVE NoLostEdge'
    BY <1>3 DEF Ends, NoLostEdge
  <1>4. CASE EtWait
    <2>1. ASSUME NEW f \in open, Readable(f) PROVE \E e \in batch' : e.fd = f
      <3>1. f \in edge /\ ev[f].kernel = "in" /\ f \in Fds
        BY <1>0, <1>1, <1>4, <2>1 DEF EtWait, Noticed
      <3>2. [fd |-> f, mask |-> "in", gen |-> gen[f]] \in Ready
        BY <2>1, <3>1 DEF Ready
      <3> QED
        BY <1>4, <3>1, <3>2 DEF EtWait
    <2> QED
      BY <1>2, <1>4, <2>1 DEF EtWait, Noticed, Readable, sockVars
  <1>5. CASE EtAccept
    <2>1. PICK fd \in Fds : Accepted(fd) /\ busy' = fd
      BY <1>5 DEF EtAccept
    <2>2. /\ open' = open \cup {fd} /\ \A f \in open : peer'[f] = peer[f] /\ f # fd
          /\ UNCHANGED <<inbox, edge>> /\ busy = 0 /\ batch' = batch \ {Listener}
      BY <1>0, <1>5, <2>1 DEF Accepted, EtAccept
    <2>3. ASSUME NEW f \in open PROVE Readable(f)' => Noticed(f)'
      <3>1. busy # f /\ \A e \in batch : e.fd = f => e \in batch'
        BY <1>0, <2>2, <2>3
      <3> QED
        BY <1>1, <2>2, <2>3, <3>1, NoticedStays
    <2>4. Noticed(fd)'
      BY <2>1 DEF Noticed
    <2> QED
      BY <1>2, <2>2, <2>3, <2>4
  <1>6. ASSUME NEW fd \in Fds, EtAdd(fd) PROVE NoLostEdge'
    <2>1. /\ UNCHANGED <<inbox, peer, batch, open>> /\ edge \subseteq edge' /\ busy = fd
          /\ Readable(fd) => fd \in edge'
      BY <1>6 DEF EtAdd, sockVars
    <2>2. ASSUME NEW f \in open PROVE Readable(f)' => Noticed(f)'
      <3>1. CASE f = fd
        BY <2>1, <3>1 DEF Readable, Noticed
      <3>2. CASE f # fd
        BY <1>1, <2>1, <2>2, <3>2, NoticedStays
      <3> QED
        BY <3>1, <3>2
    <2> QED
      BY <1>2, <2>1, <2>2
  <1>7. ASSUME NEW fd \in Fds, EtBegin(fd) PROVE NoLostEdge'
    <2>1. PICK e \in batch : e.fd = fd /\ batch' = batch \ {e}
      BY <1>7 DEF EtBegin, Handle
    <2>2. UNCHANGED <<inbox, peer, open, edge>> /\ busy = 0 /\ busy' = fd
      BY <1>7 DEF EtBegin, sockVars
    <2>3. ASSUME NEW f \in open PROVE Readable(f)' => Noticed(f)'
      <3>1. CASE f = fd
        BY <2>2, <3>1 DEF Noticed
      <3>2. CASE f # fd
        <4>1. busy # f /\ \A d \in batch : d.fd = f => d \in batch'
          BY <1>0, <2>1, <2>2, <2>3, <3>2
        <4> QED
          BY <1>1, <2>2, <2>3, <4>1, NoticedStays
      <3> QED
        BY <3>1, <3>2
    <2> QED
      BY <1>2, <2>2, <2>3
  <1>8. ASSUME NEW fd \in Fds, EtEcho(fd) PROVE NoLostEdge'
    <2>1. UNCHANGED <<batch, open, edge, busy>> /\ busy = fd
      BY <1>8 DEF EtEcho, EtEchoes, Draining, frame
    <2>2. \A f \in Fds \ {fd} : inbox'[f] = inbox[f] /\ peer'[f] = peer[f]
      BY <1>0, <1>8 DEF EtEcho, EtEchoes, Receives, Reported
    <2>3. ASSUME NEW f \in open PROVE Readable(f)' => Noticed(f)'
      <3>1. CASE f = fd
        BY <2>1, <3>1 DEF Noticed
      <3>2. CASE f # fd
        BY <1>0, <1>1, <2>1, <2>2, <2>3, <3>2, NoticedStays
      <3> QED
        BY <3>1, <3>2
    <2> QED
      BY <1>2, <2>1, <2>3
  <1>9. ASSUME NEW fd \in Fds, EtAgain(fd) PROVE NoLostEdge'
    <2>1. UNCHANGED <<inbox, peer, batch, open, edge>> /\ busy = fd /\ ~Readable(fd)
      BY <1>9 DEF EtAgain, Draining, Readable, sockVars
    <2>2. ASSUME NEW f \in open PROVE Readable(f)' => Noticed(f)'
      <3>1. CASE f = fd
        BY <2>1, <3>1 DEF Readable
      <3>2. CASE f # fd
        BY <1>1, <2>1, <2>2, <3>2, NoticedStays
      <3> QED
        BY <3>1, <3>2
    <2> QED
      BY <1>2, <2>1, <2>2
  <1>10. ASSUME AcceptExits \/ \E fd \in Fds : EtEchoKills(fd) \/ EtExits(fd) PROVE NoLostEdge'
    BY <1>3, <1>10 DEF AcceptExits, EtEchoKills, EtExits
  <1>11. /\ ~IoWait /\ ~IoAccept
         /\ \A fd \in Fds : ~IoRecv(fd) /\ ~IoSend(fd) /\ ~IoSendKills(fd) /\ ~IoEnd(fd) /\ ~IoError(fd)
    BY <1>0 DEF IoWait, IoAccept, IoRecv, IoSend, IoSendKills, IoEnd, IoError
  <1> QED
    BY <1>4, <1>5, <1>6, <1>7, <1>8, <1>9, <1>10, <1>11 DEF io_loop

\* Whatever the step, no edge is lost.
LEMMA NoticedNext ==
  ASSUME LoopInv, PiecesInv, NoLostEdge, [Next]_vars
  PROVE  NoLostEdge'
  <1>1. CASE program # ET
    <2>1. program' = program
      BY LoopEffect DEF Quiet, Waits, Opens, Closes, Begins, Leaves, Turns
    <2> QED
      BY <1>1, <2>1 DEF NoLostEdge
  <1>2. CASE program = ET /\ UNCHANGED vars
    BY <1>2 DEF vars, slotVars, sockVars, echoVars, NoLostEdge, Readable
  <1>3. CASE program = ET /\ loop
    <2>1. io_loop /\ ~killed
      BY <1>3 DEF loop, ET, C1000k
    <2> QED
      BY <1>3, <2>1, EtNoticed
  <1>4. CASE program = ET /\ Clients
    BY <1>4, ClientsNoticed
  <1> QED
    BY <1>1, <1>2, <1>3, <1>4 DEF Next
-----------------------------------------------------------------------------
(* The theorems *)

EchoInv == LoopInv /\ PiecesInv /\ CountTypes /\ NoLostEdge

\* What is inductive says what the runs check.
LEMMA EchoInvGives == EchoInv => ItemInv /\ EchoesInOrder /\ NoLostEdge
  <1> SUFFICES ASSUME EchoInv PROVE ItemInv /\ EchoesInOrder /\ NoLostEdge
    OBVIOUS
  <1>1. TypeOK
    BY DEF EchoInv, LoopInv, LoopTypes, PiecesInv, PieceTypes, CountTypes, TypeOK, SocketsTypeOK,
           ItemType
  <1>2. ItemsAllocated
    BY DEF EchoInv, LoopInv, Blocks, PiecesInv, Buffers, Freed, ItemsAllocated, BufferOf, C1000k
  <1> QED
    BY <1>1, <1>2 DEF EchoInv, LoopInv, PiecesInv, ItemInv

\* server_reactor.c, zero_threadpool/reactor/c1000k and zero_threadpool/io: what
\* the proofs call EchoInv holds before and after every callback.
THEOREM EchoInductive == Spec => []EchoInv
  <1>1. ASSUME Init PROVE EchoInv
    <2>1. /\ backlog = 0 /\ conns = 0 /\ stalled = {} /\ open = {} /\ edge = {}
      BY <1>1 DEF Init, EchoInit, SocketsInit
    <2>2. killed \in BOOLEAN
      BY <1>1 DEF Init, EchoInit, SocketsInit
    <2>3. CountTypes /\ NoLostEdge
      BY <2>1, <2>2 DEF CountTypes, NoLostEdge
    <2> QED
      BY <1>1, <2>3, LoopInit, PiecesInit DEF EchoInv
  <1>2. EchoInv /\ [Next]_vars => EchoInv'
    BY LoopNext, PiecesNext, CountsNext, NoticedNext DEF EchoInv
  <1> QED
    BY <1>1, <1>2, PTL DEF Spec

\* server_reactor.c:18, server.c:87-106 and 269-306, server2.c:142-146: items,
\* the kernel's list, the blocks, the buffers and the entries in hand agree.
THEOREM ItemsCorrect == Spec => []ItemInv
  BY EchoInductive, EchoInvGives, PTL

\* server_reactor.c:133-189, server.c:286-321 and their like: a connection is
\* sent what it gave, piece by piece and in order.
THEOREM PiecesEchoed == Spec => []EchoesInOrder
  BY EchoInductive, EchoInvGives, PTL

\* server1_epoll2.c:60 and 68-87: what there is to read has an edge that is yet
\* to be reported, has been reported, or is being read empty.
THEOREM EdgesNoticed == Spec => []NoLostEdge
  BY EchoInductive, EchoInvGives, PTL
=============================================================================
