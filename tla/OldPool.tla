------------------------------ MODULE OldPool -------------------------------
(***************************************************************************)
(* threadpool/src/threadpool.cpp, the pool written before                  *)
(* pthreadpool2.cpp.  Its worker is the same, line for line, and so is its *)
(* destruction; the names of ThreadPool are kept.  It differs in its       *)
(* producers, which test for a full queue once, and in its manager: the    *)
(* creation loop is bounded by the value liveNum had when it was read, and *)
(* the test for shrinking reads busyNum and liveNum anew, without a mutex. *)
(***************************************************************************)
EXTENDS ThreadPool

\* A producer that pthread_cond_wait returns to: the test of the full queue is
\* an if, so it looks at shutdown and goes on.
AddResumeOnce(p) ==
  /\ ppc[p] = "woken" /\ PoolLockFree
  /\ \/ /\ shutdown
        /\ ppc' = [ppc EXCEPT ![p] = "refused"]
        /\ UNCHANGED <<queueVars, wpc, accepted>>
     \/ ~shutdown /\ Enqueue(p)
  /\ UNCHANGED addFrame

\* The manager reads the three counters in one critical section; busyNum has a
\* mutex of its own, which is not taken.
ReadCounters ==
  /\ mpc = "awake" /\ PoolLockFree
  /\ snap' = [queueSize |-> queueSize, liveNum |-> liveNum, busyNum |-> busyNum]
  /\ mpc' = "grow"
  /\ UNCHANGED <<managerFrame, liveNum, exitNum, wpc, toSignal>>

threadPoolCreate  == Init
worker(w)         == Worker(w)
ThreadExit(w)     == threadExit(w)
threadpoolAdd(p)  == Add(p) \/ AddResumeOnce(p)
threadPoolDestroy == Destroyer
-----------------------------------------------------------------------------
(* manager *)

\* The condition on the value read does not change while the loop runs: NUMBER
\* and the free slots bound it.
GrowByFreeSlots ==
  /\ mpc = "grow" /\ WantsGrow /\ PoolLockFree
  /\ CreateWorkers(NUMBER)
  /\ mpc' = "shrink"
  /\ UNCHANGED <<managerFrame, exitNum, snap, toSignal>>

\* busyNum * 2 < liveNum, then liveNum > minNum, then the request: each looks
\* at the pool as it is by then.
TestBusy ==
  /\ mpc = "shrink"
  /\ mpc' = IF busyNum * 2 < liveNum THEN "few busy" ELSE "loop"
  /\ snap' = NoSnap
  /\ UNCHANGED <<managerFrame, liveNum, exitNum, wpc, toSignal>>

TestLive ==
  /\ mpc = "few busy"
  /\ mpc' = IF liveNum > minNum THEN "too many" ELSE "loop"
  /\ UNCHANGED <<managerFrame, liveNum, exitNum, wpc, snap, toSignal>>

RequestExit ==
  /\ mpc = "too many" /\ PoolLockFree
  /\ exitNum' = NUMBER /\ toSignal' = NUMBER
  /\ mpc' = "signal"
  /\ UNCHANGED <<managerFrame, liveNum, wpc, snap>>

manager ==
  \/ ManagerLoop \/ ReadCounters \/ GrowByFreeSlots \/ SkipGrow
  \/ TestBusy \/ TestLive \/ RequestExit \/ SignalExit
-----------------------------------------------------------------------------
PoolNext ==
  \/ \E w \in Slots : worker(w)
  \/ \E p \in Producers : threadpoolAdd(p)
  \/ manager \/ threadPoolDestroy \/ SpuriousWakeup

PoolSpec == threadPoolCreate /\ [][PoolNext]_vars
-----------------------------------------------------------------------------
\* Lines 15 and 108: the ring has queueCapacity cells, and a queue that is full
\* takes no task, however producers and workers interleave.
QueueFits == queueSize <= queueCapacity
=============================================================================
