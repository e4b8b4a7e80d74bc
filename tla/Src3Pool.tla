------------------------------ MODULE Src3Pool ------------------------------
(***************************************************************************)
(* threadpool/src3/pthreadpool.cpp, the pool of server.cpp.  It is the     *)
(* pool of src2 with the loop around the wait for room, with its members   *)
(* initialised before the threads start, and with another reason to grow:  *)
(* it compares the tasks with the idle threads, ThreadPool's manager       *)
(* compares them with all the threads.                                     *)
(***************************************************************************)
EXTENDS ThreadPool

Src == INSTANCE OldPool

threadpool_create  == Init
task_add(p)        == Producer(p)
threadpool_destroy == Destroyer
worker(w)          == Worker(w)
thread_exit(w)     == threadExit(w)

\* Mutant: busy threads are counted as if they could take a task.
MoreTasksThanThreads == snap.queueSize > snap.liveNum /\ snap.liveNum < maxNum

MoreTasksThanIdle ==
  snap.queueSize > snap.liveNum - snap.busyNum /\ snap.liveNum < maxNum

\* Mutant: alive_thread_num is not incremented.
GrowUncounted ==
  /\ mpc = "grow" /\ MoreTasksThanIdle /\ PoolLockFree
  /\ \E w \in Slots : wpc[w] = "none" /\ wpc' = [wpc EXCEPT ![w] = "ready"]
  /\ mpc' = "shrink"
  /\ UNCHANGED <<managerFrame, liveNum, exitNum, snap, toSignal>>

GrowForWaiting ==
  /\ mpc = "grow" /\ MoreTasksThanIdle /\ PoolLockFree
  /\ CreateWorkers(Least(NUMBER, maxNum - liveNum))
  /\ mpc' = "shrink"
  /\ UNCHANGED <<managerFrame, exitNum, snap, toSignal>>

SkipGrowing ==
  /\ mpc = "grow" /\ ~MoreTasksThanIdle
  /\ mpc' = "shrink"
  /\ UNCHANGED <<managerFrame, liveNum, exitNum, wpc, snap, toSignal>>

manager ==
  \/ ManagerLoop \/ Src!ReadCounters \/ GrowForWaiting \/ SkipGrowing
  \/ Shrink \/ SkipShrink \/ SignalExit
=============================================================================
