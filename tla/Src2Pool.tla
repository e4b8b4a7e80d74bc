------------------------------ MODULE Src2Pool ------------------------------
(***************************************************************************)
(* threadpool/src2/pthreadpool.cpp, the second pool of the repository.     *)
(* Under other names (task_now is queueSize, alive_thread_num is liveNum,  *)
(* destroy_thread_num is exitNum) its worker and its destruction are those *)
(* of ThreadPool.  Its producers test for a full queue once, as the first  *)
(* pool's do; its manager reads all the counters in one critical section,  *)
(* as the first pool's, and decides by them, as ThreadPool's.              *)
(*                                                                         *)
(* threadpool_create starts the threads before it has initialised the ring *)
(* and the mutexes they use, which has no defined outcome; the model       *)
(* begins when everything is initialised.                                  *)
(***************************************************************************)
EXTENDS ThreadPool

Src == INSTANCE OldPool

threadpool_create  == Init
task_add(p)        == Add(p) \/ Src!AddResumeOnce(p)
threadpool_destroy == Destroyer
worker(w)          == Worker(w)
thread_exit(w)     == threadExit(w)

manager ==
  \/ ManagerLoop \/ Src!ReadCounters \/ Grow \/ SkipGrow
  \/ Shrink \/ SkipShrink \/ SignalExit
=============================================================================
