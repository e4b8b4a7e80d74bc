---------------------------- MODULE PoolPrograms ----------------------------
(***************************************************************************)
(* The four programs of the repository that run on a pthread pool: the     *)
(* demos threadpool/src/main.cpp and src2/main.cpp, and the echo servers   *)
(* src3/server.cpp, on the pool of src3/pthreadpool.cpp, and server2.cpp,  *)
(* on that of pthreadpool2.cpp.  A program is a thread main, a pool and     *)
(* what the pool's tasks do; here their pools have the same size.          *)
(*                                                                         *)
(* The first task a server gives its pool is connect, which accepts        *)
(* connections and never returns unless accept fails: it is a worker of    *)
(* the pool it adds tasks to, the producer "connect".  Every other task of *)
(* a server is working, which serves one client and returns when the       *)
(* client is gone.  A client that goes while it is written to may end the  *)
(* server, SIGPIPE not being ignored: nothing of it is left to speak of,   *)
(* and the model is of servers that go on.                                 *)
(*                                                                         *)
(* The pools of the demos wait for room under an if.  When                 *)
(* pthread_cond_wait returns to main without a signal, main adds to a full *)
(* ring and overwrites a queued task; the task put in its place is then    *)
(* run twice and its argument freed twice, which has no defined outcome.   *)
(* The model stops when the ring has overflowed.  As they are, both demos  *)
(* add 100 tasks to a ring of 100 and never wait; DemoTasks may be larger. *)
(***************************************************************************)
EXTENDS ThreadPool

CONSTANT DemoTasks  \* how many tasks a demo's main adds

VARIABLES program,
          startled  \* history: main went on without a signal, and without a test

P1 == INSTANCE OldPool
P2 == INSTANCE Src2Pool
P3 == INSTANCE Src3Pool

\* main and connect are threads that add.
ASSUME ProgramsAssumption ==
  {"main", "connect"} \subseteq Producers /\ DemoTasks \in 0 .. MaxTasks

Demos   == {"src/main.cpp", "src2/main.cpp"}
Servers == {"server.cpp", "server2.cpp"}
Demo    == program \in Demos
Server  == program \in Servers

progVars == <<vars, program, startled>>

ProgramInit == Init /\ program \in Demos \cup Servers /\ startled = FALSE
-----------------------------------------------------------------------------
(* The program's pool, whose workers are ThreadPool's in all of them *)

AddTask(p) ==
  \/ program = "src/main.cpp"  /\ P1!threadpoolAdd(p)
  \/ program = "src2/main.cpp" /\ P2!task_add(p)
  \/ program = "server.cpp"    /\ P3!task_add(p)
  \/ program = "server2.cpp"   /\ Producer(p)

PoolManager ==
  \/ program = "src/main.cpp"  /\ P1!manager
  \/ program = "src2/main.cpp" /\ P2!manager
  \/ program = "server.cpp"    /\ P3!manager
  \/ program = "server2.cpp"   /\ Manager

\* What a worker does of itself: all but the return of a server's task.
WorkerStep(w) ==
  \/ Acquire(w) \/ CondWait(w) \/ WakeExits(w) \/ WakeStays(w)
  \/ BeginTask(w) \/ EndTask(w) \/ threadExit(w)
  \/ Demo /\ RunTask(w)
-----------------------------------------------------------------------------
(* The demos: main adds its tasks, and destroys the pool when they are in. *)

demo_main ==
  /\ Demo
  /\ \/ accepted < DemoTasks /\ AddTask("main")
     \/ accepted = DemoTasks /\ Destroyer
-----------------------------------------------------------------------------
(* The servers *)

ConnectTask == 1
InConnect   == \E w \in Slots : wpc[w] = "running" /\ taskOf[w] = ConnectTask

\* The one task main adds is connect.
server_main == Server /\ accepted = 0 /\ AddTask("main")

\* accept hands out a connection and a task is added for it.
connect == Server /\ InConnect /\ AddTask("connect")

\* accept fails, for want of descriptors or because the connection is gone:
\* the loop is left, nobody is accepted any more.
AcceptFails(w) ==
  /\ Server /\ taskOf[w] = ConnectTask /\ ppc["connect"] = "idle"
  /\ RunTask(w)

\* The client leaves.
working(w) == Server /\ taskOf[w] # ConnectTask /\ RunTask(w)
-----------------------------------------------------------------------------
Overflowed == queueSize > queueCapacity

\* pthread_cond_wait returns without a signal: to a worker, or to a producer,
\* who looks at the ring again in a server and not in a demo.
UnsignalledReturn ==
  /\ ~Overflowed /\ SpuriousWakeup
  /\ startled' = (startled \/ (Demo /\ ppc' # ppc))
  /\ UNCHANGED program

Continue == ~Overflowed /\ UNCHANGED <<program, startled>>

ProgramNext ==
  \/ /\ Continue
     /\ \/ \E w \in Slots : WorkerStep(w) \/ AcceptFails(w) \/ working(w)
        \/ demo_main \/ server_main \/ connect
        \/ PoolManager
  \/ UnsignalledReturn

ProgramSpec == ProgramInit /\ [][ProgramNext]_progVars

(* The threads that can run do, tasks of a demo return, and main goes on.    *)
(* Nothing makes a client come or leave, or accept fail, and waits do not    *)
(* return unsignalled for ever.                                              *)
ProgramFairSpec ==
  /\ ProgramSpec
  /\ \A w \in Slots : WF_progVars(Continue /\ WorkerStep(w))
  /\ WF_progVars(Continue /\ PoolManager)
  /\ WF_progVars(Continue /\ (demo_main \/ (ppc["connect"] = "woken" /\ connect)))
  /\ <>[][~UnsignalledReturn]_progVars
-----------------------------------------------------------------------------
\* src/threadpool.cpp 105-121 and 190-205, src2/pthreadpool.cpp 86-102 and
\* 190-201, src3/pthreadpool.cpp 198-209: as these programs use them, with one
\* thread that adds at a time, the ring of no pool overflows, unless a demo's
\* main was woken without a signal: the if around its wait is no loop.  And
\* until it overflows the pools, with the stale tests in their managers, keep
\* their queue first in first out, run each task once and count their threads,
\* of which there are at most maxNum (by the first pool's count only before
\* shutdown).
PoolsInv ==
  /\ ~startled => ~Overflowed
  /\ ~Overflowed =>
       /\ minNum <= liveNum /\ (~shutdown => liveNum <= maxNum)
       /\ RingIsFifo /\ EachTaskOnce /\ CountersExact

\* The four programs ask for 3 to 8 or 3 to 10 threads and a ring of 100 tasks
\* (src/main.cpp 17, src2/main.cpp 20, server.cpp 50, server2.cpp 50): more
\* cells than threads that may be asked to leave.
RingOutlastsExits == queueCapacity > maxNum - minNum

\* server.cpp 64-73: whoever waits for room in the ring, connect in a worker of
\* the same pool included, does not wait for itself: of the other workers, if
\* the pool has any, one has a client or is about to look for a task.  A worker
\* that is woken for a task may leave instead: in a ring that so many threads
\* can leave while it fills, this fails.
WaiterHasHelp ==
  \A p \in BlockedProducers :
    LET others == {w \in Live : p = "connect" => taskOf[w] # ConnectTask}
    IN others = {} \/ others \cap Awake # {}

\* server.cpp 64-73 with src3/pthreadpool.cpp 198-209, server2.cpp with
\* pthreadpool2.cpp 260-279: if nobody is asked to leave, a client waits for
\* ever only while clients keep every thread: every one the pool may have in
\* server.cpp, whose manager counts idle threads, every one it happens to have
\* in server2.cpp, whose manager does not.
ClientsServed ==
  Server /\ [](exitNum = 0) =>
    <>[](queueSize = 0 \/ (Live = Busy /\ (program = "server.cpp" => Live = Slots)))

\* src/main.cpp 14-29, src2/main.cpp 14-29: the demos end, unless their ring
\* overflows, although a signal for a task may be spent on asking a thread to
\* leave.
DemoEnds == Demo => <>(Freed \/ Overflowed)
=============================================================================
