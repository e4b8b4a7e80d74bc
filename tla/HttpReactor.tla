---------------------------- MODULE HttpReactor -----------------------------
(***************************************************************************)
(* The callbacks of reactor+http/reactor_singlecb_http_c1000k.c over the   *)
(* loop of Reactor.  recv_cb takes a chunk, looks at its first line and    *)
(* turns the descriptor to EPOLLOUT; send_cb answers and turns it back.    *)
(* In the middle of send_cb the socket is made blocking and the whole      *)
(* thread waits in sendfile until the client has read: sending is the      *)
(* descriptor it waits for.                                                *)
(*                                                                         *)
(* Of a request the model keeps what its first line contains: "GET",       *)
(* "POST" or "other" (also the later part of a request cut in two).  Of an *)
(* answer it keeps whether the slot has a formatted header (wlength) and a *)
(* resource.  SIGPIPE is not ignored: writing to a connection whose error  *)
(* has been reported kills the server.                                     *)
(***************************************************************************)
EXTENDS Reactor

VARIABLES
  method,    \* per slot; memset makes it GET
  resource,  \* the slots whose resource is not the empty string
  formatted, \* the slots whose wlength is not 0
  sending,   \* the descriptor whose send_cb is in sendfile, 0 if none
  posted     \* history: descriptors on which a POST came

httpVars == <<method, resource, formatted, sending, posted>>

HttpInit ==
  /\ method = [fd \in Fds |-> "GET"]
  /\ resource = {} /\ formatted = {} /\ sending = 0 /\ posted = {}
-----------------------------------------------------------------------------
(* recv_cb *)

\* Mutant: what is no GET is taken for a POST.
RequestElsePost(fd, kind) ==
  /\ method' = [method EXCEPT ![fd] = IF kind = "GET" THEN "GET" ELSE "POST"]
  /\ resource' = IF kind = "GET" THEN resource \cup {fd} ELSE resource
  /\ posted' = IF kind = "POST" THEN posted \cup {fd} ELSE posted

nty_http_request(fd, kind) ==
  /\ method' = [method EXCEPT ![fd] = IF kind \in {"GET", "POST"} THEN kind ELSE @]
  /\ resource' = IF kind = "GET" THEN resource \cup {fd} ELSE resource
  /\ posted' = IF kind = "POST" THEN posted \cup {fd} ELSE posted

\* len > 0.  recv takes the first chunk, alone or with what follows it: only
\* the first line counts.
HttpRecvChunk(fd) ==
  /\ Dispatch(fd, "in", "recv_cb") /\ inbox[fd] # << >>
  /\ \/ inbox' = [inbox EXCEPT ![fd] = << >>]
     \/ inbox' = [inbox EXCEPT ![fd] = Tail(@)]
  /\ nty_http_request(fd, Head(inbox[fd]))
  /\ owed' = [owed EXCEPT ![fd] = @ + 1]
  /\ TurnTo(fd, "out")
  /\ UNCHANGED <<program, blkcnt, open, gen, backlog, peer, stalled, conns, chunks, killed>>
  /\ UNCHANGED <<formatted, sending>>

HttpRecvEnd(fd) ==
  /\ Dispatch(fd, "in", "recv_cb") /\ inbox[fd] = << >>
  /\ peer[fd] \in {"fin", "gone", "rst", "pipe"}
  /\ ForgetAndClose(fd)
  /\ UNCHANGED httpVars

HttpRecvError(fd) ==
  /\ Dispatch(fd, "in", "recv_cb") /\ inbox[fd] = << >>
  /\ peer[fd] = "err"
  /\ ForgetOnly(fd)
  /\ UNCHANGED httpVars

http_recv_cb(fd) == HttpRecvChunk(fd) \/ HttpRecvEnd(fd) \/ HttpRecvError(fd)
-----------------------------------------------------------------------------
(* send_cb *)

\* nty_http_response: a GET formats a header, a POST leaves wbuffer alone.
nty_http_response(fd) ==
  formatted' = IF method[fd] = "GET" THEN formatted \cup {fd} ELSE formatted

\* The header goes out and sendfile begins.
SendHeader(fd) ==
  /\ Dispatch(fd, "out", "send_cb")
  /\ nty_http_response(fd)
  /\ fd \in formatted' /\ ~Dead(fd)
  /\ sending' = fd /\ Filled(fd)
  /\ UNCHANGED <<program, ev, blkcnt, open, gen, backlog, peer, inbox, conns, chunks>>
  /\ UNCHANGED <<method, resource, killed, posted, owed>>

\* send returns 0, for an empty wbuffer, or -1.
HttpSendFails(fd) ==
  /\ Dispatch(fd, "out", "send_cb")
  /\ nty_http_response(fd)
  /\ peer[fd] \in {"rst", "err", "pipe"} \/ (fd \notin formatted' /\ peer[fd] # "gone")
  /\ ForgetAndClose(fd)
  /\ UNCHANGED <<method, resource, sending, posted>>

\* SIGPIPE.
HttpSendKills(fd) ==
  /\ Dispatch(fd, "out", "send_cb")
  /\ peer[fd] \in {"pipe", "gone"}
  /\ killed' = TRUE
  /\ UNCHANGED <<program, ev, blkcnt, method, resource, formatted, sending, posted, owed>>
  /\ UNCHANGED sockVars

\* Mutant: sendfile is waited for until the client has gone.
WaitsForEnd(fd) == Dead(fd)

\* At once if the resource could not be opened, else when the client has read
\* or is gone.
SendfileReturns(fd) == Dead(fd) \/ fd \notin resource \/ fd \notin stalled

\* The last send reports a pending error.
SendBody(fd) ==
  /\ sending = fd
  /\ SendfileReturns(fd)
  /\ sending' = 0 /\ owed' = [owed EXCEPT ![fd] = @ - 1]
  /\ TurnTo(fd, "in")
  /\ peer' = [peer EXCEPT ![fd] = IF Dead(fd) THEN "gone" ELSE @]
  /\ Filled(fd)
  /\ UNCHANGED <<program, blkcnt, batch, open, gen, backlog, inbox, conns, chunks>>
  /\ UNCHANGED <<method, resource, formatted, killed, posted>>

\* sendfile reports the error and the send after it raises SIGPIPE, or the
\* error is one that raises it at once.
BodyKills(fd) ==
  /\ sending = fd /\ Dead(fd) /\ (fd \in resource \/ peer[fd] = "pipe")
  /\ killed' = TRUE
  /\ UNCHANGED slotVars /\ UNCHANGED sockVars
  /\ UNCHANGED <<method, resource, formatted, sending, posted, owed>>

http_send_cb(fd) == SendHeader(fd) \/ HttpSendFails(fd) \/ HttpSendKills(fd)
-----------------------------------------------------------------------------
\* The single thread: it waits, handles an entry, or is in sendfile.
http_run ==
  \/ /\ sending = 0
     /\ \/ (epoll_wait \/ AcceptFails \/ accept_cb) /\ UNCHANGED <<httpVars, owed>>
        \/ \E fd \in Fds : http_recv_cb(fd) \/ http_send_cb(fd)
  \/ \E fd \in Fds : SendBody(fd) \/ BodyKills(fd)
-----------------------------------------------------------------------------
HttpTypeOK ==
  /\ method \in [Fds -> {"GET", "POST"}]
  /\ resource \subseteq Fds /\ formatted \subseteq Fds /\ posted \subseteq Fds
  /\ sending \in Fds \cup {0}

\* Lines 235-242 and 301-335: the server hangs up on a client that is there
\* only if some POST came on its descriptor and no GET was ever answered on
\* it.  The slot outlives its connections: the POST may be another client's.
HangUpIsAfterPost ==
  \A fd \in open \ open' : peer[fd] = "up" => fd \in posted /\ fd \notin formatted
=============================================================================
