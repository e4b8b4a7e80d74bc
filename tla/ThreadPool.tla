----------------------------- MODULE ThreadPool -----------------------------
(***************************************************************************)
(* The pthread pool of threadpool/src3/pthreadpool2.cpp: a bounded ring of *)
(* tasks, workers that take from it, producers that add to it, a manager   *)
(* thread that grows and shrinks the set of workers, and a thread that     *)
(* destroys the pool.                                                      *)
(*                                                                         *)
(* A worker is named by the slot of threadIDs that holds its thread id.    *)
(* mutexPool is held across two steps in one place only, by a worker that  *)
(* has found the queue empty and not yet entered pthread_cond_wait         *)
(* (wpc = "blocking"); every other critical section is one step.  shutdown *)
(* is written without the mutex, and the manager and the destroyer signal  *)
(* without it, so that window is visible.  mutexBusy protects single       *)
(* increments and reads and is folded into them.                           *)
(*                                                                         *)
(* Tasks are numbered in the order threadPoolAdd accepts them; 0 is "no    *)
(* task".  Once the pool is freed the program's accesses to it have no     *)
(* defined outcome, and behaviours stop there.                             *)
(***************************************************************************)
EXTENDS Integers, FiniteSets

CONSTANTS Producers,       \* threads that call threadPoolAdd
          minNum, maxNum,  \* arguments of threadPoolCreate
          queueCapacity,
          MaxTasks,        \* bound of the model: calls of threadPoolAdd
          SpuriousWakeups  \* whether pthread_cond_wait may return unsignalled

ASSUME PoolAssumption ==
  /\ minNum \in Nat /\ maxNum \in Nat /\ minNum <= maxNum
  /\ queueCapacity \in Nat \ {0}
  /\ IsFiniteSet(Producers)
  /\ MaxTasks \in Nat
  /\ SpuriousWakeups \in BOOLEAN

VARIABLES
  taskQ, queueSize, queueFront, queueRear,  \* the ring of tasks
  liveNum, busyNum, exitNum, shutdown,      \* the counters and the flag
  wpc, taskOf,      \* per slot: where its worker is, the task it holds
  ppc,              \* per producer: where it is in threadPoolAdd
  mpc, snap, toSignal,  \* manager: where it is, what it read, signals left
  dpc, dsig,        \* destroyer: where it is, signals it has sent
  accepted, taken, completed  \* history: tasks added, dequeued, run to the end

queueVars   == <<taskQ, queueSize, queueFront, queueRear>>
counterVars == <<liveNum, busyNum, exitNum>>
managerVars == <<mpc, snap, toSignal>>
destroyVars == <<dpc, dsig, shutdown>>
historyVars == <<accepted, taken, completed>>
vars == <<queueVars, counterVars, wpc, taskOf, ppc, managerVars, destroyVars,
          historyVars>>

NUMBER == 2
Slots  == 0 .. maxNum - 1
Cells  == 0 .. queueCapacity - 1

NoWorker == {"none", "exiting"}  \* the slot is free, or threadExit is about to free it
Live     == {w \in Slots : wpc[w] \notin NoWorker}
Blocked  == {w \in Slots : wpc[w] = "waiting"}
Awake    == Live \ {w \in Slots : wpc[w] \in {"blocking", "waiting"}}
Busy     == {w \in Slots : wpc[w] \in {"running", "finished"}}
Holding  == {w \in Slots : wpc[w] \in {"taken", "running"}}
BlockedProducers == {p \in Producers : ppc[p] = "waiting"}
WokenProducers   == {p \in Producers : ppc[p] = "woken"}
Freed == dpc = "freed"

NoSnap == [queueSize |-> 0, liveNum |-> 0, busyNum |-> 0]

\* mutexPool exists and no thread holds it.
PoolLockFree == ~Freed /\ \A w \in Slots : wpc[w] # "blocking"

At(w, place) == ~Freed /\ wpc[w] = place

Init ==
  /\ taskQ = [i \in Cells |-> 0]
  /\ queueSize = 0 /\ queueFront = 0 /\ queueRear = 0
  /\ liveNum = minNum /\ busyNum = 0 /\ exitNum = 0 /\ shutdown = FALSE
  /\ wpc = [w \in Slots |-> IF w < minNum THEN "ready" ELSE "none"]
  /\ taskOf = [w \in Slots |-> 0]
  /\ ppc = [p \in Producers |-> "idle"]
  /\ mpc = "loop" /\ snap = NoSnap
  /\ toSignal = 0
  /\ dpc = "idle" /\ dsig = 0
  /\ accepted = 0 /\ taken = 0 /\ completed = {}

\* Mutants: the signals of lines 163 and 224 are left out.
SignalsNobody  == UNCHANGED wpc
FullForgotten  == UNCHANGED ppc

\* pthread_cond_signal: wakes one thread that waits, or nobody if none does.
SignalNotEmpty ==
  \/ \E w \in Blocked : wpc' = [wpc EXCEPT ![w] = "woken"]
  \/ Blocked = {} /\ UNCHANGED wpc

SignalNotFull ==
  \/ \E p \in BlockedProducers : ppc' = [ppc EXCEPT ![p] = "woken"]
  \/ BlockedProducers = {} /\ UNCHANGED ppc
-----------------------------------------------------------------------------
(* threadPoolAdd *)

\* Mutant: queueRear moves before the task is stored.
EnqueueMovesFirst(p) ==
  /\ queueRear' = (queueRear + 1) % queueCapacity
  /\ taskQ' = [taskQ EXCEPT ![queueRear'] = accepted + 1]
  /\ queueSize' = queueSize + 1
  /\ accepted' = accepted + 1
  /\ ppc' = [ppc EXCEPT ![p] = "idle"]
  /\ SignalNotEmpty
  /\ UNCHANGED queueFront

Enqueue(p) ==
  /\ taskQ' = [taskQ EXCEPT ![queueRear] = accepted + 1]
  /\ queueRear' = (queueRear + 1) % queueCapacity
  /\ queueSize' = queueSize + 1
  /\ accepted' = accepted + 1
  /\ ppc' = [ppc EXCEPT ![p] = "idle"]
  /\ SignalNotEmpty
  /\ UNCHANGED queueFront

\* From the loop test to the return, mutexPool held.  The producer's own
\* release-and-wait is one step: notFull is only signalled under mutexPool.
TestNotFull(p) ==
  \/ /\ queueSize = queueCapacity /\ ~shutdown
     /\ ppc' = [ppc EXCEPT ![p] = "waiting"]
     /\ UNCHANGED <<queueVars, wpc, accepted>>
  \/ /\ shutdown
     /\ ppc' = [ppc EXCEPT ![p] = "refused"]
     /\ UNCHANGED <<queueVars, wpc, accepted>>
  \/ /\ queueSize # queueCapacity /\ ~shutdown
     /\ Enqueue(p)

addFrame == <<counterVars, taskOf, managerVars, destroyVars, taken, completed>>

Add(p) ==
  /\ ppc[p] = "idle" /\ PoolLockFree
  /\ accepted + Cardinality({q \in Producers : ppc[q] # "idle"}) < MaxTasks
  /\ TestNotFull(p)
  /\ UNCHANGED addFrame

\* Mutant: the loop of line 147 is an if, as in threadpool/src/threadpool.cpp.
AddResumeUntested(p) ==
  /\ ppc[p] = "woken" /\ PoolLockFree
  /\ \/ ~shutdown /\ Enqueue(p)
     \/ shutdown /\ TestNotFull(p)
  /\ UNCHANGED addFrame

AddResume(p) ==
  /\ ppc[p] = "woken" /\ PoolLockFree
  /\ TestNotFull(p)
  /\ UNCHANGED addFrame
-----------------------------------------------------------------------------
(* worker *)

\* Mutant: queueFront moves before the task is read.
DequeueMovesFirst(w) ==
  /\ queueFront' = (queueFront + 1) % queueCapacity
  /\ taskOf' = [taskOf EXCEPT ![w] = taskQ[queueFront']]
  /\ queueSize' = queueSize - 1
  /\ taken' = taken + 1
  /\ wpc' = [wpc EXCEPT ![w] = "taken"]
  /\ SignalNotFull
  /\ UNCHANGED <<taskQ, queueRear>>

Dequeue(w) ==
  /\ taskOf' = [taskOf EXCEPT ![w] = taskQ[queueFront]]
  /\ queueFront' = (queueFront + 1) % queueCapacity
  /\ queueSize' = queueSize - 1
  /\ taken' = taken + 1
  /\ wpc' = [wpc EXCEPT ![w] = "taken"]
  /\ SignalNotFull
  /\ UNCHANGED <<taskQ, queueRear>>

\* From the loop test on, mutexPool held.
TestNotEmpty(w) ==
  \/ /\ queueSize = 0 /\ ~shutdown
     /\ wpc' = [wpc EXCEPT ![w] = "blocking"]
     /\ UNCHANGED <<queueVars, taskOf, ppc, taken>>
  \/ /\ shutdown
     /\ wpc' = [wpc EXCEPT ![w] = "exiting"]
     /\ UNCHANGED <<queueVars, taskOf, ppc, taken>>
  \/ /\ queueSize # 0 /\ ~shutdown
     /\ Dequeue(w)

workerFrame == <<managerVars, destroyVars, accepted>>

Acquire(w) ==
  /\ At(w, "ready") /\ PoolLockFree
  /\ TestNotEmpty(w)
  /\ UNCHANGED <<counterVars, completed, workerFrame>>

CondWait(w) ==
  /\ At(w, "blocking")
  /\ wpc' = [wpc EXCEPT ![w] = "waiting"]
  /\ UNCHANGED <<queueVars, counterVars, taskOf, ppc, taken, completed, workerFrame>>

\* Mutant: liveNum is not decremented.
WakeExitsUncounted(w) ==
  /\ At(w, "woken") /\ PoolLockFree
  /\ exitNum > 0 /\ liveNum > minNum
  /\ exitNum' = exitNum - 1
  /\ wpc' = [wpc EXCEPT ![w] = "exiting"]
  /\ UNCHANGED <<queueVars, liveNum, busyNum, taskOf, ppc, taken, completed, workerFrame>>

\* pthread_cond_wait returns; the exit request is looked at before the queue.
WakeExits(w) ==
  /\ At(w, "woken") /\ PoolLockFree
  /\ exitNum > 0 /\ liveNum > minNum
  /\ exitNum' = exitNum - 1
  /\ liveNum' = liveNum - 1
  /\ wpc' = [wpc EXCEPT ![w] = "exiting"]
  /\ UNCHANGED <<queueVars, busyNum, taskOf, ppc, taken, completed, workerFrame>>

WakeStays(w) ==
  /\ At(w, "woken") /\ PoolLockFree
  /\ exitNum = 0 \/ liveNum <= minNum
  /\ exitNum' = IF exitNum > 0 THEN exitNum - 1 ELSE exitNum
  /\ TestNotEmpty(w)
  /\ UNCHANGED <<liveNum, busyNum, completed, workerFrame>>

BeginTask(w) ==
  /\ At(w, "taken")
  /\ busyNum' = busyNum + 1
  /\ wpc' = [wpc EXCEPT ![w] = "running"]
  /\ UNCHANGED <<queueVars, liveNum, exitNum, taskOf, ppc, taken, completed, workerFrame>>

\* task.function returns and its argument is freed.
RunTask(w) ==
  /\ At(w, "running")
  /\ completed' = completed \cup {taskOf[w]}
  /\ taskOf' = [taskOf EXCEPT ![w] = 0]
  /\ wpc' = [wpc EXCEPT ![w] = "finished"]
  /\ UNCHANGED <<queueVars, counterVars, ppc, taken, workerFrame>>

EndTask(w) ==
  /\ At(w, "finished")
  /\ busyNum' = busyNum - 1
  /\ wpc' = [wpc EXCEPT ![w] = "ready"]
  /\ UNCHANGED <<queueVars, liveNum, exitNum, taskOf, ppc, taken, completed, workerFrame>>

threadExit(w) ==
  /\ At(w, "exiting")
  /\ wpc' = [wpc EXCEPT ![w] = "none"]
  /\ UNCHANGED <<queueVars, counterVars, taskOf, ppc, taken, completed, workerFrame>>

\* POSIX lets pthread_cond_wait return without a signal.
SpuriousWakeup ==
  /\ SpuriousWakeups /\ ~Freed
  /\ \/ \E w \in Blocked : wpc' = [wpc EXCEPT ![w] = "woken"] /\ UNCHANGED ppc
     \/ \E p \in BlockedProducers : ppc' = [ppc EXCEPT ![p] = "woken"] /\ UNCHANGED wpc
  /\ UNCHANGED <<queueVars, counterVars, taskOf, managerVars, destroyVars, historyVars>>
-----------------------------------------------------------------------------
(* manager *)

managerFrame == <<queueVars, busyNum, taskOf, ppc, destroyVars, historyVars>>

WantsGrow   == snap.queueSize > snap.liveNum /\ snap.liveNum < maxNum
\* Mutant: one thread too many is kept.
WantsShrinkLate == snap.busyNum * 2 < snap.liveNum /\ snap.liveNum > minNum + 1
WantsShrink == snap.busyNum * 2 < snap.liveNum /\ snap.liveNum > minNum

\* Mutant: the manager does not look at shutdown.
ManagerLoopForever ==
  /\ mpc = "loop"
  /\ mpc' = "awake"
  /\ UNCHANGED <<managerFrame, liveNum, exitNum, wpc, snap, toSignal>>

\* The test of the outer loop, then the sleep.
ManagerLoop ==
  /\ mpc = "loop"
  /\ mpc' = IF shutdown THEN "gone" ELSE "awake"
  /\ UNCHANGED <<managerFrame, liveNum, exitNum, wpc, snap, toSignal>>

ReadPool ==
  /\ mpc = "awake" /\ PoolLockFree
  /\ snap' = [snap EXCEPT !.queueSize = queueSize, !.liveNum = liveNum]
  /\ mpc' = "readBusy"
  /\ UNCHANGED <<managerFrame, liveNum, exitNum, wpc, toSignal>>

ReadBusy ==
  /\ mpc = "readBusy"
  /\ snap' = [snap EXCEPT !.busyNum = busyNum]
  /\ mpc' = "grow"
  /\ UNCHANGED <<managerFrame, liveNum, exitNum, wpc, toSignal>>

Least(a, b) == IF a <= b THEN a ELSE b

\* The lowest n free slots, or all of them, get a thread.
CreateWorkers(n) ==
  LET free == {i \in Slots : wpc[i] = "none"}
  IN \E new \in SUBSET free :
       /\ Cardinality(new) = Least(n, Cardinality(free))
       /\ \A i \in new, j \in free \ new : i < j
       /\ wpc' = [i \in Slots |-> IF i \in new THEN "ready" ELSE wpc[i]]
       /\ liveNum' = liveNum + Cardinality(new)

\* The creation loop: at most NUMBER threads, and never beyond maxNum, by the
\* value liveNum has now.
Grow ==
  /\ mpc = "grow" /\ WantsGrow /\ PoolLockFree
  /\ CreateWorkers(Least(NUMBER, maxNum - liveNum))
  /\ mpc' = "shrink"
  /\ UNCHANGED <<managerFrame, exitNum, snap, toSignal>>

SkipGrow ==
  /\ mpc = "grow" /\ ~WantsGrow
  /\ mpc' = "shrink"
  /\ UNCHANGED <<managerFrame, liveNum, exitNum, wpc, snap, toSignal>>

Shrink ==
  /\ mpc = "shrink" /\ WantsShrink /\ PoolLockFree
  /\ exitNum' = NUMBER
  /\ toSignal' = NUMBER
  /\ mpc' = "signal" /\ snap' = NoSnap
  /\ UNCHANGED <<managerFrame, liveNum, wpc>>

SkipShrink ==
  /\ mpc = "shrink" /\ ~WantsShrink
  /\ mpc' = "loop" /\ snap' = NoSnap
  /\ UNCHANGED <<managerFrame, liveNum, exitNum, wpc, toSignal>>

\* One signal of the loop that asks workers to leave; the mutex is not held.
SignalExit ==
  /\ mpc = "signal"
  /\ SignalNotEmpty
  /\ toSignal' = toSignal - 1
  /\ mpc' = IF toSignal = 1 THEN "loop" ELSE "signal"
  /\ UNCHANGED <<managerFrame, liveNum, exitNum, snap>>
-----------------------------------------------------------------------------
(* threadPoolDestroy *)

destroyFrame == <<queueVars, counterVars, taskOf, ppc, managerVars, historyVars>>

Shutdown ==
  /\ dpc = "idle"
  /\ shutdown' = TRUE
  /\ dpc' = "joining"
  /\ UNCHANGED <<destroyFrame, wpc, dsig>>

JoinManager ==
  /\ dpc = "joining" /\ mpc = "gone"
  /\ dpc' = "signalling"
  /\ UNCHANGED <<destroyFrame, wpc, shutdown, dsig>>

\* liveNum is read again, without the mutex, before every signal.
WakeConsumer ==
  /\ dpc = "signalling" /\ dsig < liveNum
  /\ SignalNotEmpty
  /\ dsig' = dsig + 1
  /\ UNCHANGED <<destroyFrame, dpc, shutdown>>

\* taskQ, threadIDs, the mutexes, the conditions and the pool itself.
Free ==
  /\ dpc = "signalling" /\ dsig >= liveNum
  /\ dpc' = "freed"
  /\ UNCHANGED <<destroyFrame, wpc, shutdown, dsig>>
-----------------------------------------------------------------------------
Worker(w) ==
  \/ Acquire(w) \/ CondWait(w) \/ WakeExits(w) \/ WakeStays(w)
  \/ BeginTask(w) \/ RunTask(w) \/ EndTask(w) \/ threadExit(w)

Producer(p) == Add(p) \/ AddResume(p)

Manager ==
  \/ ManagerLoop \/ ReadPool \/ ReadBusy \/ Grow \/ SkipGrow
  \/ Shrink \/ SkipShrink \/ SignalExit

Destroyer == Shutdown \/ JoinManager \/ WakeConsumer \/ Free

Next ==
  \/ \E w \in Slots : Worker(w)
  \/ \E p \in Producers : Producer(p)
  \/ Manager
  \/ Destroyer
  \/ SpuriousWakeup

Spec == Init /\ [][Next]_vars

(* The scheduler runs every thread that can run: tasks return, the manager's *)
(* sleep ends, a producer that was woken goes on, and a destruction that has *)
(* begun continues.  Nothing forces anybody to call Add or Destroy, and      *)
(* nothing forces a spurious wakeup, but they do not go on for ever.         *)
Fairness ==
  /\ \A w \in Slots : WF_vars(Worker(w))
  /\ \A p \in Producers : WF_vars(AddResume(p))
  /\ WF_vars(Manager)
  /\ WF_vars(JoinManager \/ WakeConsumer \/ Free)
  /\ <>[][~SpuriousWakeup]_vars

FairSpec == Spec /\ Fairness
-----------------------------------------------------------------------------
(* Safety *)

PoolStates     == {"none", "ready", "blocking", "waiting", "woken", "taken",
                   "running", "finished", "exiting"}
ProducerStates == {"idle", "waiting", "woken", "refused"}
ManagerStates  == {"loop", "awake", "readBusy", "grow", "shrink", "signal", "gone"}
DestroyStates  == {"idle", "joining", "signalling", "freed"}

\* Every variable has its type; in particular liveNum, which pthreadpool2.cpp
\* changes in two threads, stays between minNum and maxNum, the ring's indices
\* stay in the array, and queueSize never passes the capacity of line 147.
TypeOK ==
  /\ taskQ \in [Cells -> Nat]
  /\ queueSize \in 0 .. queueCapacity /\ queueFront \in Cells /\ queueRear \in Cells
  /\ liveNum \in minNum .. maxNum /\ busyNum \in Int
  /\ exitNum \in 0 .. NUMBER /\ shutdown \in BOOLEAN
  /\ wpc \in [Slots -> PoolStates] /\ taskOf \in [Slots -> Nat]
  /\ ppc \in [Producers -> ProducerStates]
  /\ mpc \in ManagerStates /\ toSignal \in 0 .. NUMBER
  /\ snap \in [queueSize : Nat, liveNum : Nat, busyNum : Int]
  /\ dpc \in DestroyStates /\ dsig \in Nat
  /\ accepted \in Nat /\ taken \in Nat /\ completed \subseteq Nat

\* Lines 158-161 and 218-222: the cells from queueFront on hold exactly the
\* accepted tasks nobody has taken, oldest first, and queueRear is the cell
\* after them, whatever the order in which producers and workers ran.
RingIsFifo ==
  /\ accepted = taken + queueSize
  /\ queueRear = (queueFront + queueSize) % queueCapacity
  /\ \A i \in 0 .. queueSize - 1 :
        taskQ[(queueFront + i) % queueCapacity] = taken + i + 1

\* Lines 217-232: a task that was dequeued has been completed or is held by
\* exactly one worker, and never both: no task is lost or run twice.
EachTaskOnce ==
  /\ completed \cup {taskOf[w] : w \in Holding} = 1 .. taken
  /\ \A w \in Holding : taskOf[w] \notin completed
  /\ \A v, w \in Holding : taskOf[v] = taskOf[w] => v = w

\* Lines 202, 214 and 275: liveNum counts the threads that have not left; a
\* thread that leaves because of shutdown does not decrement it, so it can only
\* be too large, which is what the signal loop of line 118 relies on.
LiveNumCounts ==
  /\ Cardinality(Live) <= liveNum
  /\ ~shutdown => Cardinality(Live) = liveNum

\* Lines 228-238: busyNum counts the workers between the two updates.
BusyNumCounts == busyNum = Cardinality(Busy)

\* The two counters the manager decides by are exact, although each has a mutex
\* of its own and they are updated apart from what they count.
CountersExact == LiveNumCounts /\ BusyNumCounts

\* Lines 147-151 and 224: while a producer sleeps on notFull, every free cell
\* has a producer that was woken for it, so no producer sleeps beside a cell
\* nobody is going to fill.
NoStrandedProducer ==
  ~shutdown /\ BlockedProducers # {}
    => queueCapacity - queueSize <= Cardinality(WokenProducers)

(* The pool implements the queue of tasks. *)
Queued == [i \in 1 .. queueSize |-> taskQ[(queueFront + i - 1) % queueCapacity]]

TQ == INSTANCE TaskQueue
        WITH capacity <- queueCapacity, queued <- Queued,
             running <- {taskOf[w] : w \in Holding}, done <- completed,
             nAccepted <- accepted, closed <- shutdown

\* The whole pool, its manager and its destruction, behaves towards its users
\* as the abstract queue: first in first out, bounded, each task once, nothing
\* accepted after shutdown.
ImplementsTaskQueue == TQ!TQSpec
-----------------------------------------------------------------------------
(* Liveness *)

\* A worker was woken and will leave at line 197, beside a task in the queue.
LeavesBesideTask ==
  /\ queueSize > 0 /\ exitNum > 0 /\ liveNum > minNum
  /\ \E w \in Slots : wpc[w] = "woken"

\* Lines 163, 191-231: while the pool grows and shrinks, every task that
\* threadPoolAdd accepted is run to its end, unless the pool is shut down first
\* or a worker leaves beside a queued task: one signal per task is enough
\* although it may wake a worker that finds its task taken, or one while another
\* sleeps.  (In the model calls of threadPoolAdd come to an end.)
AcceptedTasksComplete ==
  []~LeavesBesideTask => <>[](shutdown \/ completed = 1 .. accepted)

\* Lines 281-292: a pool that stays without work goes back to minNum threads
\* and stays there, although signals are lost when no worker happens to sleep.
ShrinksToMinNum ==
  <>[](~shutdown /\ queueSize = 0 /\ Holding = {}) => <>[](liveNum = minNum)

\* Lines 114-137: threadPoolDestroy returns.
DestroyReturns == shutdown ~> Freed

\* Line 190, "is the task queue empty?", before a worker blocks: no worker
\* sleeps for ever on notEmpty while tasks are queued.
SleepsOnlyWhenEmpty ==
  \A w \in Slots :
    (wpc[w] = "waiting" /\ queueSize > 0)
      ~> (wpc[w] # "waiting" \/ queueSize = 0 \/ shutdown)
=============================================================================
