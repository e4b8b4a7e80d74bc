------------------------------- MODULE Kernel -------------------------------
(***************************************************************************)
(* What the socket servers run on: the kernel's sockets and epoll, and the *)
(* clients.  Sockets are accepted with the lowest free descriptor, so that *)
(* a descriptor is used again by later connections.                        *)
(*                                                                         *)
(* One server thread waits in epoll_wait and handles the entries it        *)
(* returns.  That result is a set, since the kernel promises no order; an  *)
(* entry keeps the connection it was reported for.  The servers that       *)
(* listen on many ports are given one listening socket.                    *)
(***************************************************************************)
EXTENDS Integers, Sequences, FiniteSets

CONSTANTS Fds,       \* the descriptors accept can return
          BlockSize, \* MAX_EPOLL_EVENTS or ITEM_LENGTH: descriptors per block
          Kinds,     \* what a chunk can be
          MaxConns,  \* bound of the model: connections that clients open
          MaxChunks  \* bound of the model: chunks that clients send

ASSUME KernelAssumption ==
  /\ Fds \subseteq Nat \ {0} /\ IsFiniteSet(Fds)
  /\ BlockSize \in Nat \ {0} /\ MaxConns \in Nat /\ MaxChunks \in Nat

VARIABLES
  program,   \* which of the servers runs; it does not change
  ev,        \* per descriptor: the kernel's interest and the server's record of it
  blkcnt,    \* how many blocks of such records are allocated
  batch,     \* the entries of the last epoll_wait that are not handled yet
  open, gen, \* the open descriptors; which connection each one is
  backlog,   \* connections the listening socket has not handed out
  peer,      \* per descriptor: its client, see PeerStates
  inbox,     \* per descriptor: chunks sent and not received
  stalled,   \* descriptors whose send buffer is full: the client has yet to read
  killed,    \* the process has ended: exit, or a signal such as SIGPIPE
  conns, chunks \* history: connections opened, chunks sent

slotVars == <<program, ev, blkcnt, batch>>
sockVars == <<open, gen, backlog, peer, inbox, stalled, conns, chunks>>

\* "rst" and "err": a connection reset, or another error such as ETIMEDOUT,
\* that no call has reported yet; "pipe": an error after the client's end,
\* which recv does not report and send may raise SIGPIPE for; "gone": an error
\* that has been reported, after which recv returns 0 and send raises SIGPIPE.
PeerStates == {"none", "up", "fin", "rst", "err", "pipe", "gone"}
Masks      == {"in", "out"}
Listener   == [fd |-> 0, mask |-> "in", gen |-> 0]

SocketsInit ==
  /\ batch = {} /\ open = {} /\ gen = [fd \in Fds |-> 0] /\ backlog = 0
  /\ peer = [fd \in Fds |-> "none"]
  /\ inbox = [fd \in Fds |-> << >>]
  /\ stalled = {} /\ killed = FALSE /\ conns = 0 /\ chunks = 0
-----------------------------------------------------------------------------
(* Sockets and epoll *)

Dead(fd)     == peer[fd] \in {"rst", "err", "pipe", "gone"}
Readable(fd) == inbox[fd] # << >> \/ peer[fd] # "up"
Writable(fd) == fd \notin stalled \/ Dead(fd)

Ready ==
  {[fd |-> fd, mask |-> "in", gen |-> gen[fd]] :
      fd \in {f \in Fds : ev[f].kernel = "in" /\ Readable(f)}}
  \cup {[fd |-> fd, mask |-> "out", gen |-> gen[fd]] :
      fd \in {f \in Fds : ev[f].kernel = "out" /\ Writable(f)}}
  \cup (IF backlog > 0 THEN {Listener} ELSE {})

epoll_wait ==
  /\ batch = {} /\ Ready # {}
  /\ batch' = Ready
  /\ UNCHANGED <<program, ev, blkcnt, killed>>
  /\ UNCHANGED sockVars

\* The lowest free descriptor is the next connection's.
Accepted(fd) ==
  /\ backlog > 0 /\ fd \in Fds \ open
  /\ \A other \in Fds \ open : fd <= other
  /\ open' = open \cup {fd} /\ backlog' = backlog - 1
  /\ gen' = [gen EXCEPT ![fd] = @ + 1]
  /\ peer' = [peer EXCEPT ![fd] = "up"]
  /\ UNCHANGED <<inbox, stalled, conns, chunks>>

\* What a send leaves: room in the send buffer, or none.
Filled(fd) == stalled' \in {stalled, stalled \cup {fd}}

\* The socket is closed with what was left in it.
Closed(fd) ==
  /\ open' = open \ {fd}
  /\ peer' = [peer EXCEPT ![fd] = "none"]
  /\ inbox' = [inbox EXCEPT ![fd] = << >>]
  /\ stalled' = stalled \ {fd}
  /\ UNCHANGED <<gen, backlog, conns, chunks>>

\* The interest list forgets a closed descriptor; the server's record does not.
CloseSlot(s) == [s EXCEPT !.kernel = "none"]

\* Blocks are allocated up to the descriptor's.
BlocksFor(fd) ==
  blkcnt' = IF fd \div BlockSize >= blkcnt THEN fd \div BlockSize + 1 ELSE blkcnt
-----------------------------------------------------------------------------
(* Clients, as long as there is a server *)

clientFrame == <<slotVars, gen, open, killed>>

Connect ==
  /\ conns < MaxConns
  /\ conns' = conns + 1 /\ backlog' = backlog + 1
  /\ UNCHANGED <<peer, inbox, stalled, chunks>>

GiveUp ==
  /\ backlog > 0
  /\ backlog' = backlog - 1
  /\ UNCHANGED <<peer, inbox, stalled, conns, chunks>>

SendChunk(fd, kind) ==
  /\ peer[fd] = "up" /\ chunks < MaxChunks
  /\ chunks' = chunks + 1
  /\ inbox' = [inbox EXCEPT ![fd] = Append(@, kind)]
  /\ UNCHANGED <<backlog, peer, stalled, conns>>

Leave(fd, how) ==
  /\ \/ peer[fd] = "up" /\ peer' = [peer EXCEPT ![fd] = how]
     \/ peer[fd] = "fin" /\ how # "fin" /\ peer' = [peer EXCEPT ![fd] = "pipe"]
  /\ UNCHANGED <<backlog, inbox, stalled, conns, chunks>>

Drain(fd) ==
  /\ ~killed /\ fd \in stalled
  /\ stalled' = stalled \ {fd}
  /\ UNCHANGED <<backlog, peer, inbox, conns, chunks>>
-----------------------------------------------------------------------------
SocketsTypeOK ==
  /\ blkcnt \in Nat /\ open \subseteq Fds /\ gen \in [Fds -> Nat] /\ backlog \in Nat
  /\ batch \subseteq [fd : Fds \cup {0}, mask : Masks, gen : Nat]
  /\ peer \in [Fds -> PeerStates] /\ inbox \in [Fds -> Seq(Kinds)] /\ stalled \subseteq open
  /\ killed \in BOOLEAN /\ conns \in Nat /\ chunks \in Nat
  /\ \A fd \in Fds : peer[fd] = "none" <=> fd \notin open

\* An entry of epoll_wait is handled for the connection it was reported for,
\* although callbacks before it in the same batch close descriptors and accept
\* gives them out again.
EntriesAreCurrent ==
  \A e \in batch :
    e = Listener \/ (e.fd \in open /\ e.gen = gen[e.fd] /\ e.mask = ev[e.fd].kernel)
=============================================================================
