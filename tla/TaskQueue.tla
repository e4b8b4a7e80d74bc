----------------------------- MODULE TaskQueue ------------------------------
(***************************************************************************)
(* What a thread pool promises about tasks, whatever its threads do: a     *)
(* bounded first-in first-out queue in front of a set of running tasks.    *)
(* Tasks are numbered in the order in which they are accepted, so a task   *)
(* is started at most once, in that order, and runs to its end at most     *)
(* once.  After the pool is closed no task is accepted.                    *)
(***************************************************************************)
EXTENDS Integers, Sequences

CONSTANT capacity

VARIABLES queued,    \* accepted and not started, oldest first
          running,   \* started and not ended
          done,      \* ended
          nAccepted,
          closed

tqVars == <<queued, running, done, nAccepted, closed>>

TQInit ==
  /\ queued = << >> /\ running = {} /\ done = {}
  /\ nAccepted = 0 /\ closed = FALSE

Accept ==
  /\ ~closed /\ Len(queued) < capacity
  /\ queued' = Append(queued, nAccepted + 1)
  /\ nAccepted' = nAccepted + 1
  /\ UNCHANGED <<running, done, closed>>

Start ==
  /\ queued # << >>
  /\ running' = running \cup {Head(queued)}
  /\ queued' = Tail(queued)
  /\ UNCHANGED <<done, nAccepted, closed>>

Finish(t) ==
  /\ t \in running
  /\ running' = running \ {t}
  /\ done' = done \cup {t}
  /\ UNCHANGED <<queued, nAccepted, closed>>

Close ==
  /\ ~closed
  /\ closed' = TRUE
  /\ UNCHANGED <<queued, running, done, nAccepted>>

TQNext == Accept \/ Start \/ Close \/ \E t \in running : Finish(t)

TQSpec == TQInit /\ [][TQNext]_tqVars
=============================================================================
