------------------------------ MODULE Reactors ------------------------------
(***************************************************************************)
(* The two servers that are built on the same event loop, the http server  *)
(* and the websocket server, each over the kernel and the clients of       *)
(* Kernel.  program says which one it is; the other's variables keep their *)
(* initial values.                                                         *)
(***************************************************************************)
EXTENDS HttpReactor, WsReactor

\* Chunks are what the two servers tell apart; "none" is how first says that no
\* chunk came.
ASSUME ReactorsAssumption ==
  {"GET", "POST", "key", "other"} \subseteq Kinds /\ "none" \notin Kinds

vars == <<slotVars, sockVars, killed, owed, httpVars, wsVars>>

Init ==
  /\ program \in {"http", "websocket"}
  /\ ReactorInit /\ HttpInit /\ WsInit

\* main: nothing runs but the loop, until the process ends.
ntyreactor_run ==
  /\ ~killed
  /\ \/ program = "http" /\ http_run /\ UNCHANGED wsVars
     \/ program = "websocket" /\ ws_run /\ UNCHANGED httpVars

\* What a client sends means something to the server it talks to.
Sendable == IF program = "http" THEN {"GET", "POST", "other"} ELSE {"key", "other"}

serverFrame == <<clientFrame, owed, httpVars, wsVars>>

Clients ==
  /\ ~killed
  /\ \/ Connect \/ GiveUp
     \/ \E fd \in Fds :
          \/ \E kind \in Sendable : SendChunk(fd, kind)
          \/ \E how \in {"fin", "rst", "err"} : Leave(fd, how)
          \/ Drain(fd)
  /\ UNCHANGED serverFrame

Next == ntyreactor_run \/ Clients

Spec == Init /\ [][Next]_vars

(* The thread runs when it can; a client reads what it is sent. *)
FairSpec ==
  /\ Spec
  /\ WF_vars(ntyreactor_run)
  /\ \A fd \in Fds : WF_vars(Drain(fd) /\ UNCHANGED serverFrame)
-----------------------------------------------------------------------------
TypeOK == program \in {"http", "websocket"} /\ ReactorTypeOK /\ HttpTypeOK /\ WsTypeOK

\* Lines 93-128, 423-472 and both callbacks of either file: the slots, the
\* kernel's interest list and the open descriptors go together after every
\* callback.
SlotInv == TypeOK /\ SlotsMatchKernel /\ LiveClientsWatched

\* Lines 235-242 and 301-335 of the http reactor: the server hangs up on a
\* client that is still there only if some POST, perhaps of an earlier client,
\* came on its descriptor and no GET was ever answered on it.
HangsUpOnlyAfterPost == [][program = "http" => HangUpIsAfterPost]_vars

\* Lines 260-267 and 292-338 of the http reactor, 279-353 of the websocket
\* one: a client that has been received from is answered or its connection is
\* closed, unless the server ends first, although other clients hold the thread
\* in sendfile for as long as they do not read; that they read in the end is
\* assumed of them.  (HangsUpOnlyAfterPost says when the server may close
\* without an answer.)
ChunksAnswered ==
  \A fd \in Fds : owed[fd] > 0 ~> (owed[fd] = 0 \/ killed)
=============================================================================
