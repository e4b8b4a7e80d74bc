--------------------------- MODULE ZeroThreadPool ---------------------------
(***************************************************************************)
(* The C++ thread pool of zero_threadpool/threadpool.cpp.  Its class is    *)
(* declared in a header that is not in the repository; exec and            *)
(* isTerminate are modelled from how threadpool.cpp and threadpool.h use   *)
(* them: exec pushes a task under _mutex and notifies one waiter of        *)
(* _condition, isTerminate reads _bTerminate.                              *)
(*                                                                         *)
(* Every critical section holds _mutex from its first to its last line, so *)
(* it is one step.  Workers and waitForAllDone share one condition         *)
(* variable: whoever sleeps on it is in Sleepers.  One thread, the owner,  *)
(* starts and stops the pool; any user calls exec and waitForAllDone.      *)
(***************************************************************************)
EXTENDS Integers, Sequences, FiniteSets

CONSTANTS Workers,  \* the threads start() creates, _threadNum of them
          Users,    \* threads that call exec and waitForAllDone
          MaxTasks, \* bound of the model: calls of exec
          MaxStarts \* bound of the model: calls of start

ASSUME ZeroAssumption ==
  /\ IsFiniteSet(Workers) /\ Workers # {} /\ Workers \cap Users = {}
  /\ MaxTasks \in Nat /\ MaxStarts \in Nat

VARIABLES
  tasks,       \* _tasks, oldest first
  terminate,   \* _bTerminate
  atomic,      \* _atomic, the number of tasks in execution
  wpc, held,   \* per worker: where it is, the task it got (0: none)
  upc,         \* per user: where it is in waitForAllDone
  opc,         \* the owner: no threads, started, or in stop()
  pushed, ended, expired, starts  \* history: tasks given, run, skipped; start() calls

vars == <<tasks, terminate, atomic, wpc, held, upc, opc, pushed, ended, expired, starts>>

WorkerStates == {"none", "loop", "get", "sleeping", "woken", "got", "running",
                 "counted", "exited"}
UserStates   == {"idle", "sleeping", "sleepingTimed", "woken", "wokenTimed", "allDone"}

Sleepers == {w \in Workers : wpc[w] = "sleeping"}
              \cup {u \in Users : upc[u] \in {"sleeping", "sleepingTimed"}}
InCount  == {w \in Workers : wpc[w] = "running"}
Working  == {w \in Workers : wpc[w] \in {"got", "running"}}

Init ==
  /\ tasks = << >> /\ terminate = FALSE /\ atomic = 0
  /\ wpc = [w \in Workers |-> "none"]
  /\ held = [w \in Workers |-> 0]
  /\ upc = [u \in Users |-> "idle"]
  /\ opc = "noThreads"
  /\ pushed = 0 /\ ended = {} /\ expired = {} /\ starts = 0

Awoken(s) == CASE s = "sleeping" -> "woken" [] s = "sleepingTimed" -> "wokenTimed" [] OTHER -> s

\* Mutant: exec does not notify.
NotifyNobody == UNCHANGED <<wpc, upc>>

\* _condition.notify_one: any one sleeper, worker or user, or nobody.
NotifyOne ==
  \/ \E w \in Sleepers \cap Workers : wpc' = [wpc EXCEPT ![w] = "woken"] /\ UNCHANGED upc
  \/ \E u \in Sleepers \cap Users : upc' = [upc EXCEPT ![u] = Awoken(@)] /\ UNCHANGED wpc
  \/ Sleepers = {} /\ UNCHANGED <<wpc, upc>>
-----------------------------------------------------------------------------
(* start, stop *)

Start ==
  /\ opc = "noThreads" /\ starts < MaxStarts
  /\ opc' = "started" /\ starts' = starts + 1
  /\ wpc' = [w \in Workers |-> "loop"]
  /\ UNCHANGED <<tasks, terminate, atomic, held, upc, pushed, ended, expired>>

\* Mutant: stop() notifies one sleeper only.
StopNotifiesOne ==
  /\ opc \in {"noThreads", "started"}
  /\ terminate' = TRUE
  /\ NotifyOne
  /\ opc' = "joining"
  /\ UNCHANGED <<tasks, atomic, held, pushed, ended, expired, starts>>

\* stop(), also called by the destructor and before any start.
Stop ==
  /\ opc \in {"noThreads", "started"}
  /\ terminate' = TRUE
  /\ wpc' = [w \in Workers |-> Awoken(wpc[w])]
  /\ upc' = [u \in Users |-> Awoken(upc[u])]
  /\ opc' = "joining"
  /\ UNCHANGED <<tasks, atomic, held, pushed, ended, expired, starts>>

\* Every thread has been joined and deleted; _threads is cleared.
Joined ==
  /\ opc = "joining"
  /\ \A w \in Workers : wpc[w] \in {"exited", "none"}
  /\ opc' = "noThreads"
  /\ wpc' = [w \in Workers |-> "none"]
  /\ UNCHANGED <<tasks, terminate, atomic, held, upc, pushed, ended, expired, starts>>
-----------------------------------------------------------------------------
(* exec, waitForAllDone *)

exec(u) ==
  /\ upc[u] = "idle" /\ pushed < MaxTasks
  /\ pushed' = pushed + 1
  /\ tasks' = Append(tasks, pushed + 1)
  /\ NotifyOne
  /\ UNCHANGED <<terminate, atomic, held, opc, ended, expired, starts>>

userFrame == <<tasks, terminate, atomic, wpc, held, opc, pushed, ended, expired, starts>>

\* The call, with millsecond < 0 or not.
waitForAllDone(u) ==
  /\ upc[u] = "idle"
  /\ \/ tasks = << >> /\ upc' = [upc EXCEPT ![u] = "allDone"]
     \/ tasks # << >> /\ upc' = [upc EXCEPT ![u] = "sleeping"]
     \/ tasks # << >> /\ upc' = [upc EXCEPT ![u] = "sleepingTimed"]
  /\ UNCHANGED userFrame

\* A sleeper that was notified has _mutex again and evaluates the predicate.
WaitAgain(u) ==
  /\ upc[u] \in {"woken", "wokenTimed"}
  /\ upc' = [upc EXCEPT ![u] =
               IF tasks = << >> THEN "allDone"
               ELSE IF @ = "woken" THEN "sleeping" ELSE "sleepingTimed"]
  /\ UNCHANGED userFrame

\* wait_for gives up: the result is the predicate at that moment.
WaitTimesOut(u) ==
  /\ upc[u] \in {"sleepingTimed", "wokenTimed"}
  /\ upc' = [upc EXCEPT ![u] = IF tasks = << >> THEN "allDone" ELSE "idle"]
  /\ UNCHANGED userFrame

\* The caller goes on after waitForAllDone returned true.
Continue(u) ==
  /\ upc[u] = "allDone"
  /\ upc' = [upc EXCEPT ![u] = "idle"]
  /\ UNCHANGED userFrame
-----------------------------------------------------------------------------
(* run, get *)

\* The loop test reads _bTerminate without _mutex.
Loop(w) ==
  /\ wpc[w] = "loop"
  /\ wpc' = [wpc EXCEPT ![w] = IF terminate THEN "exited" ELSE "get"]
  /\ UNCHANGED <<tasks, terminate, atomic, held, upc, opc, pushed, ended, expired, starts>>

\* Mutant: the task is not popped.
PopKeepsTask(w) == held' = [held EXCEPT ![w] = Head(tasks)] /\ UNCHANGED tasks

Pop(w) == held' = [held EXCEPT ![w] = Head(tasks)] /\ tasks' = Tail(tasks)

\* get(), from its start or from a notified wait: sleep, give up, or pop.
get(w) ==
  /\ wpc[w] \in {"get", "woken"}
  /\ \/ /\ tasks = << >> /\ ~terminate
        /\ wpc' = [wpc EXCEPT ![w] = "sleeping"]
        /\ UNCHANGED <<tasks, held>>
     \/ /\ terminate
        /\ wpc' = [wpc EXCEPT ![w] = "loop"]
        /\ UNCHANGED <<tasks, held>>
     \/ /\ tasks # << >> /\ ~terminate
        /\ Pop(w)
        /\ wpc' = [wpc EXCEPT ![w] = "got"]
  /\ UNCHANGED <<terminate, atomic, upc, opc, pushed, ended, expired, starts>>

CountUp(w) ==
  /\ wpc[w] = "got"
  /\ atomic' = atomic + 1
  /\ wpc' = [wpc EXCEPT ![w] = "running"]
  /\ UNCHANGED <<tasks, terminate, held, upc, opc, pushed, ended, expired, starts>>

\* Mutant: an expired task is skipped before the counter goes down.
RunKeepsCount(w) ==
  /\ wpc[w] = "running"
  /\ \/ ended' = ended \cup {held[w]} /\ atomic' = atomic - 1 /\ UNCHANGED expired
     \/ expired' = expired \cup {held[w]} /\ UNCHANGED <<atomic, ended>>
  /\ held' = [held EXCEPT ![w] = 0]
  /\ wpc' = [wpc EXCEPT ![w] = "counted"]
  /\ UNCHANGED <<tasks, terminate, upc, opc, pushed, starts>>

\* The function returns or throws, or the task has expired and is skipped.
RunAndCountDown(w) ==
  /\ wpc[w] = "running"
  /\ \/ ended' = ended \cup {held[w]} /\ UNCHANGED expired
     \/ expired' = expired \cup {held[w]} /\ UNCHANGED ended
  /\ held' = [held EXCEPT ![w] = 0]
  /\ atomic' = atomic - 1
  /\ wpc' = [wpc EXCEPT ![w] = "counted"]
  /\ UNCHANGED <<tasks, terminate, upc, opc, pushed, starts>>

\* Mutant: _atomic is compared as if this task were still counted.
OneLeft == atomic = 1 /\ tasks = << >>

NothingLeft == atomic = 0 /\ tasks = << >>

\* Under _mutex: the last task in execution wakes waitForAllDone.
TellAllDone(w) ==
  /\ wpc[w] = "counted"
  /\ wpc' = [v \in Workers |-> IF v = w THEN "loop"
                               ELSE IF NothingLeft THEN Awoken(wpc[v]) ELSE wpc[v]]
  /\ upc' = [u \in Users |-> IF NothingLeft THEN Awoken(upc[u]) ELSE upc[u]]
  /\ UNCHANGED <<tasks, terminate, atomic, held, opc, pushed, ended, expired, starts>>
-----------------------------------------------------------------------------
Worker(w) ==
  Loop(w) \/ get(w) \/ CountUp(w) \/ RunAndCountDown(w) \/ TellAllDone(w)

User(u) ==
  exec(u) \/ waitForAllDone(u) \/ WaitAgain(u) \/ WaitTimesOut(u) \/ Continue(u)

Owner == Start \/ Stop \/ Joined

Next == Owner \/ (\E w \in Workers : Worker(w)) \/ (\E u \in Users : User(u))

Spec == Init /\ [][Next]_vars

(* Threads that can run do run, and tasks return; nobody is forced to call. *)
Fairness ==
  /\ \A w \in Workers : WF_vars(Worker(w))
  /\ \A u \in Users : WF_vars(WaitAgain(u) \/ Continue(u))
  /\ WF_vars(Joined)

FairSpec == Spec /\ Fairness
-----------------------------------------------------------------------------
TypeOK ==
  /\ tasks \in Seq(1 .. MaxTasks) /\ terminate \in BOOLEAN /\ atomic \in 0 .. Cardinality(Workers)
  /\ wpc \in [Workers -> WorkerStates] /\ held \in [Workers -> 0 .. MaxTasks]
  /\ upc \in [Users -> UserStates] /\ opc \in {"noThreads", "started", "joining"}
  /\ pushed \in 0 .. MaxTasks /\ starts \in 0 .. MaxStarts
  /\ ended \subseteq 1 .. MaxTasks /\ expired \subseteq 1 .. MaxTasks

\* Lines 52-94: a task given to exec is queued, held by one worker, run or
\* skipped, exactly one of them, also across stop() and a second start().
EachTaskOnce ==
  LET queued == {tasks[i] : i \in DOMAIN tasks}
      inHand == {held[w] : w \in Working}
  IN /\ queued \cup inHand \cup ended \cup expired = 1 .. pushed
     /\ Len(tasks) + Cardinality(Working) + Cardinality(ended) + Cardinality(expired)
          = pushed

\* Lines 52-94: to its users the pool is a first-in first-out queue in front of
\* running tasks, each started and ended once, whichever workers take them and
\* whenever stop() and start() come in between.  Skipping a task ends it; the
\* queue has no bound, and no call of exec is refused, not even after stop().
Queue ==
  INSTANCE TaskQueue
    WITH capacity <- MaxTasks, queued <- tasks, running <- {held[w] : w \in Working},
         done <- ended \cup expired, nAccepted <- pushed, closed <- FALSE

ImplementsTaskQueue == Queue!TQSpec

\* Lines 79 and 94: _atomic counts the tasks in execution; it is what line 97
\* compares with zero.
AtomicCounts == atomic = Cardinality(InCount)

\* Lines 55-58 and 107-111: workers and waitForAllDone sleep on one condition,
\* so exec's single notification may wake a user who cannot use it; even then
\* tasks never wait while every worker sleeps.
SomeWorkerAwake ==
  opc = "started" /\ tasks # << >> => \E w \in Workers : wpc[w] # "sleeping"

\* Lines 20-38: after stop() returned no task of the pool is in execution.
StopLeavesNothingRunning == opc = "noThreads" => Working = {} /\ atomic = 0

\* Lines 20-101: the types hold, _atomic is what its readers take it for, also
\* when a function throws or a task expires, no task is lost, and stop() leaves
\* nothing behind.
PoolInv == TypeOK /\ AtomicCounts /\ EachTaskOnce /\ StopLeavesNothingRunning

\* Every task given to exec is run or skipped, unless the pool is stopped.
TasksRun ==
  \A t \in 1 .. MaxTasks :
    (pushed >= t /\ opc = "started" /\ ~terminate)
      ~> (t \in ended \cup expired \/ terminate)

\* Lines 94-100: a caller of waitForAllDone without a limit is woken again,
\* although the last worker tests _atomic after having decremented it, unless
\* the pool is stopped.
WaitReturns ==
  \A u \in Users :
    (upc[u] = "sleeping" /\ opc = "started") ~> (upc[u] = "allDone" \/ terminate)

\* Lines 24-35: stop() returns: every worker leaves, wherever it was.
StopReturns == opc = "joining" ~> opc = "noThreads"
=============================================================================
