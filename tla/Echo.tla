-------------------------------- MODULE Echo --------------------------------
(***************************************************************************)
(* What the model keeps of the echo servers: their buffers, what the       *)
(* thread is in the middle of, and what every connection gave and got.     *)
(* A chunk is its number, so that no two chunks are alike; a buffer is a   *)
(* sequence of them, 0 where it still holds calloc's zeroes.               *)
(***************************************************************************)
EXTENDS Kernel, SequencesExt

CONSTANT BUFFER_LENGTH \* how many chunks a server's buffer takes

ASSUME EchoAssumption == BUFFER_LENGTH \in Nat \ {0} /\ Kinds = 1 .. MaxChunks

VARIABLES
  buffer,   \* per descriptor, and for 0 the process: what waits to be sent
  busy,     \* the descriptor whose handling is not finished, 0 if none
  edge,     \* edge triggered: descriptors whose change epoll has yet to report
  got, sent,\* history, per descriptor: the pieces its connection gave, was sent
  overtaken \* history: pieces, as <<descriptor, index>>, lost from a shared buffer

echoVars == <<buffer, busy, edge, got, sent, overtaken>>

Zeroes == [i \in 1 .. BUFFER_LENGTH |-> 0]

NoItem == [events |-> "none", kernel |-> "none"]

EchoInit ==
  /\ SocketsInit
  /\ ev = [fd \in Fds |-> NoItem]
  /\ buffer = [fd \in Fds \cup {0} |-> IF fd = 0 THEN Zeroes ELSE << >>]
  /\ busy = 0 /\ edge = {} /\ overtaken = {}
  /\ got = [fd \in Fds |-> << >>] /\ sent = [fd \in Fds |-> << >>]

\* The loop takes an entry of the batch.
Handle(fd, mask) ==
  \E e \in batch : e.fd = fd /\ e.mask = mask /\ batch' = batch \ {e}

\* recv returns some of what has come, at most a buffer.
Receives(fd, ret) ==
  /\ ret # << >> /\ Len(ret) <= BUFFER_LENGTH /\ IsPrefix(ret, inbox[fd])
  /\ inbox' = [inbox EXCEPT ![fd] = SubSeq(@, Len(ret) + 1, Len(@))]
  /\ got' = [got EXCEPT ![fd] = Append(@, ret)]

Received(fd) == {SubSeq(inbox[fd], 1, n) : n \in 1 .. Len(inbox[fd])}

\* recv returns 0, or -1; the error is reported once.
ReceivesEnd(fd)   == inbox[fd] = << >> /\ peer[fd] \in {"fin", "pipe", "gone"}
ReceivesError(fd) == inbox[fd] = << >> /\ peer[fd] \in {"rst", "err"}
Reported(fd)      == peer' = [peer EXCEPT ![fd] = "gone"]

\* send returns -1, or raises SIGPIPE.
SendFails(fd) == peer[fd] \in {"rst", "err", "pipe"}
SendKills(fd) == peer[fd] \in {"pipe", "gone"}

Sends(fd, piece) == sent' = [sent EXCEPT ![fd] = Append(@, piece)]

\* The connection's socket and history are gone.
Hangup(fd) ==
  /\ Closed(fd)
  /\ got' = [got EXCEPT ![fd] = << >>] /\ sent' = [sent EXCEPT ![fd] = << >>]
  /\ edge' = edge \ {fd} /\ UNCHANGED overtaken

\* What no handler but accept changes, and what accept leaves alone.
frame  == <<program, blkcnt, gen, open, backlog, conns, chunks>>
ioVars == <<busy, edge, overtaken>>

\* exit or a signal: the process's state no longer matters.
Ends ==
  /\ killed' = TRUE
  /\ UNCHANGED <<frame, ev, peer, inbox, stalled, echoVars>>
=============================================================================
