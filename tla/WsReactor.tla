----------------------------- MODULE WsReactor ------------------------------
(***************************************************************************)
(* The callbacks of reactor+websocket/reactor_singlecb_c1000k.c over the   *)
(* loop of Reactor, whose functions this file repeats word for word.  The  *)
(* first chunk a slot receives is taken for the handshake, every later one *)
(* for a frame, and each of them is answered with "101 Switching           *)
(* Protocols" and the accept key the slot holds.  wsstatus and sec_accept  *)
(* belong to the slot, and nothing resets them when a connection ends.     *)
(*                                                                         *)
(* SIGPIPE is not ignored: answering a client whose connection has failed  *)
(* after its end may kill the server.                                      *)
(*                                                                         *)
(* Of a chunk the model keeps whether it has a Sec-WebSocket-Key line, of  *)
(* a key the connection that sent it (0: the slot's zeroes).               *)
(***************************************************************************)
EXTENDS Reactor

VARIABLES
  wsstatus,   \* per slot: WS_HANDSHARK or WS_TRANMISSION
  sec_accept, \* per slot: whose key the accept key was made from
  first,      \* history, per descriptor: its connection's first chunk
  told        \* history, per descriptor: the keys its connection was answered with

wsVars == <<wsstatus, sec_accept, first, told>>

WsInit ==
  /\ wsstatus = [fd \in Fds |-> "handshark"]
  /\ sec_accept = [fd \in Fds |-> 0]
  /\ first = [fd \in Fds |-> "none"]
  /\ told = [fd \in Fds |-> {}]
-----------------------------------------------------------------------------
\* Mutant: wsstatus is not moved on after the handshake.
RequestStaysHandshark(fd, kind) ==
  /\ sec_accept' = IF kind = "key" THEN [sec_accept EXCEPT ![fd] = gen[fd]] ELSE sec_accept
  /\ UNCHANGED wsstatus

\* ws_request: a frame changes nothing but the buffer it is unmasked in.
ws_request(fd, kind) ==
  IF wsstatus[fd] = "handshark"
  THEN /\ wsstatus' = [wsstatus EXCEPT ![fd] = "tranmission"]
       /\ sec_accept' = IF kind = "key" THEN [sec_accept EXCEPT ![fd] = gen[fd]] ELSE sec_accept
  ELSE UNCHANGED <<wsstatus, sec_accept>>

\* len > 0: the first chunk, alone or with all that follows it.  If the first
\* is cut before its end the lines of a later one are looked at as well.
WsRecvChunk(fd) ==
  /\ Dispatch(fd, "in", "recv_cb") /\ inbox[fd] # << >>
  /\ \/ /\ inbox' = [inbox EXCEPT ![fd] = Tail(@)]
        /\ ws_request(fd, Head(inbox[fd]))
     \/ /\ inbox' = [inbox EXCEPT ![fd] = << >>]
        /\ \E i \in DOMAIN inbox[fd] :
             /\ Head(inbox[fd]) = "key" => i = 1
             /\ ws_request(fd, inbox[fd][i])
  /\ first' = [first EXCEPT ![fd] = IF @ = "none" THEN Head(inbox[fd]) ELSE @]
  /\ owed' = [owed EXCEPT ![fd] = @ + 1]
  /\ TurnTo(fd, "out")
  /\ UNCHANGED <<program, blkcnt, open, gen, backlog, peer, stalled, conns, chunks, killed, told>>

\* What a connection leaves behind.
Forget(fd) ==
  /\ ForgetAndClose(fd)
  /\ first' = [first EXCEPT ![fd] = "none"]
  /\ told' = [told EXCEPT ![fd] = {}]
  /\ UNCHANGED <<wsstatus, sec_accept>>

\* len = 0, or ECONNRESET.
WsRecvEnd(fd) ==
  /\ Dispatch(fd, "in", "recv_cb") /\ inbox[fd] = << >>
  /\ peer[fd] \in {"fin", "rst", "pipe"}
  /\ Forget(fd)

WsRecvError(fd) ==
  /\ Dispatch(fd, "in", "recv_cb") /\ inbox[fd] = << >>
  /\ peer[fd] = "err"
  /\ ForgetOnly(fd)
  /\ UNCHANGED wsVars

ws_recv_cb(fd) == WsRecvChunk(fd) \/ WsRecvEnd(fd) \/ WsRecvError(fd)

Send101(fd) ==
  /\ Dispatch(fd, "out", "send_cb") /\ ~Dead(fd)
  /\ told' = [told EXCEPT ![fd] = @ \cup {sec_accept[fd]}]
  /\ owed' = [owed EXCEPT ![fd] = @ - 1]
  /\ TurnTo(fd, "in")
  /\ Filled(fd)
  /\ UNCHANGED <<program, blkcnt, open, gen, backlog, peer, inbox, conns, chunks>>
  /\ UNCHANGED <<wsstatus, sec_accept, killed, first>>

\* The second nty_event_del of ForgetAndClose changes nothing.
WsSendFails(fd) ==
  /\ Dispatch(fd, "out", "send_cb") /\ Dead(fd)
  /\ Forget(fd)

WsSendKills(fd) ==
  /\ Dispatch(fd, "out", "send_cb") /\ peer[fd] = "pipe"
  /\ killed' = TRUE
  /\ UNCHANGED <<program, ev, blkcnt, wsstatus, sec_accept, owed, first, told>>
  /\ UNCHANGED sockVars

ws_send_cb(fd) == Send101(fd) \/ WsSendFails(fd) \/ WsSendKills(fd)
-----------------------------------------------------------------------------
ws_run ==
  \/ (epoll_wait \/ AcceptFails \/ accept_cb) /\ UNCHANGED <<wsVars, owed>>
  \/ \E fd \in Fds : ws_recv_cb(fd) \/ ws_send_cb(fd)
-----------------------------------------------------------------------------
WsTypeOK ==
  /\ wsstatus \in [Fds -> {"handshark", "tranmission"}]
  /\ sec_accept \in [Fds -> Nat]
  /\ first \in [Fds -> Kinds \cup {"none"}] /\ told \in [Fds -> SUBSET Nat]

\* Lines 253-270: a client is told one accept key as long as it is connected,
\* and if it is the descriptor's first and began with its key, its own.
FirstClientGetsItsKey ==
  \A fd \in open :
    /\ Cardinality(told[fd]) <= 1
    /\ gen[fd] = 1 /\ first[fd] = "key" => told[fd] \subseteq {1}
=============================================================================
