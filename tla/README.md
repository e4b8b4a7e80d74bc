# A verification development for hello_world

The repository is a collection of concurrent C and C++ programs: thread pools,
producers and consumers, epoll reactors with HTTP, websocket and echo servers
on top, a block allocator and two balanced trees.  The modules here model
their algorithms and their interleavings in TLA+; TLC checks small instances,
and TLAPS proves what matters most for every size.

Paths below are relative to the repository root, line numbers are those of its
files.

## 1. Inventory

| Component | State | Operations | Who interacts | What is hard |
|---|---|---|---|---|
| Pthread pool, `threadpool/src3/pthreadpool2.cpp` | ring of tasks, `liveNum`, `busyNum`, `exitNum`, `shutdown`, `threadIDs` | `threadPoolCreate`, `threadPoolAdd`, `worker`, `manager`, `threadPoolDestroy` | producers, workers, one manager, one destroyer, over two mutexes and two conditions | lost and stolen signals, exit requests that outlive their signals, stale snapshots, flags written without the mutex |
| First pool, `threadpool/src/threadpool.cpp` | the same | the same | the same | an `if` around a wait, counters read without a mutex |
| Second and third pool, `threadpool/src2`, `src3/pthreadpool.cpp` | the same | the same | the same | threads created before their mutexes (second), one critical section for all counters, another reason to grow (third) |
| Pool programs: `threadpool/src/main.cpp`, `src2/main.cpp`, `src3/server.cpp`, `src3/server2.cpp` | a pool each | demos: add, destroy; servers: `connect`, `working` | `main`, one pool, clients | `connect` accepts in a worker of the pool it adds to; a client holds its worker |
| C++ pool, `zero_threadpool/threadpool.cpp` | `_tasks`, `_bTerminate`, `_atomic` | `init`, `start`, `stop`, `exec`, `waitForAllDone`, `run`, `get` | an owner, users, workers, over one mutex and one condition | workers and waiters share the condition; a counter outside the mutex; stop and restart |
| Semaphore list, `thread/main.cpp` | list, `psem`, `csem` | `produce`, `consume` | five producers, five consumers | conservation of the semaphores, a null head |
| HTTP reactor, `reactor+http/` | slots, blocks, the epoll set | `accept_cb`, `recv_cb`, `send_cb`, the loop | the kernel, clients | slots outlive connections, descriptors are used again inside a batch, `sendfile` blocks the loop, SIGPIPE |
| Websocket reactor, `reactor+websocket/` | the same, `wsstatus`, `sec_accept` | the same, `ws_request` | the same | handshake state that is never reset |
| Echo reactor, `zero_threadpool/reactor/server_reactor.c` | item table | `accept_callback`, `read_callback`, `write_callback`, set and del | the same | errors nobody looks at, one buffer for both directions |
| c1000k servers, `zero_threadpool/reactor/c1000k/` | items in blocks or a table, or one pair of buffers | accept, receive, send, in `main`'s loop | the same | buffers sent whole, connections never closed, an accept that leaves the batch, one buffer for all |
| Select and epoll servers, `zero_threadpool/io/` | interest only | `main`'s loop | the same | edges reported once, sends that block the loop or drop what they were given |
| Block allocator, `threadpool/src4/mempool/` | `ptr`, links in the blocks, `free_count` | `memp_init`, `_malloc`, `_free` | one caller | the chain lives in memory the user had |
| B-tree, `btree/btree.cpp` | nodes | insert, delete, traverse | one caller | splits, borrows, merges, replacement in inner nodes |
| Red-black tree, `rbtree/rbtree.cpp`, and `rbtree/main.cpp`, the same functions once more | nodes with parent links, `nil` | insert, delete, search | one caller | rotations and fixup loops |

The other parts (clients and load generators, exercises without shared state)
are not modelled; PROJECT.json says of each why.

What makes each component correct, in a sentence: a pool runs each accepted
task exactly once, in order, and neither its producers nor its workers nor its
destroyer sleep for ever; the semaphores count nodes and places; a reactor
keeps slots, interest list and connections together and answers what it
receives; an echo server gives each connection its own bytes back, in order; the allocator never hands out a block twice; the trees hold exactly
the keys they were given, in order and in balance.

## 2. Modules

| Module | Models | Used by |
|---|---|---|
| `TaskQueue` | the promise of a pool: bounded first-in first-out queue, each task at most once, closed at the end | `ThreadPool` |
| `ThreadPool` | `pthreadpool2.cpp`; the proofs are in `PoolPrograms_proofs` | runs `pool`, `pool_stale_exit` |
| `OldPool` | what `threadpool/src/threadpool.cpp` does differently | runs `src_overflow`, `programs` |
| `Src2Pool`, `Src3Pool` | what `src2/pthreadpool.cpp` and `src3/pthreadpool.cpp` do differently | run `programs` |
| `PoolPrograms`, `PoolPrograms_proofs` | the two demos and the two servers over their pools | run `programs` |
| `ZeroThreadPool`, `ZeroThreadPool_proofs` | `zero_threadpool/threadpool.cpp` | run `zero` |
| `SemStack`, `SemStack_proofs` | `thread/main.cpp`, lines 191-260 | run `sem` |
| `Kernel` | sockets, `epoll_wait`, clients | all modules down to `EchoServers` |
| `Reactor` | slots and loop of the two following | `HttpReactor`, `WsReactor` |
| `HttpReactor`, `WsReactor` | callbacks of the HTTP and of the websocket server | `Reactors` |
| `Reactors`, `Reactors_proofs` | either server over the kernel and its clients | run `reactors` |
| `Echo` | buffers, pieces and calls that the echo servers have in common | the three following |
| `ServerReactor` | `zero_threadpool/reactor/server_reactor.c` | `EchoServers` |
| `C1000kServers` | `server.c`, `server1.c`, `server2.c`, `server3.c` of `c1000k/` | `EchoServers` |
| `IoServers` | `server_epoll.c`, `server_selete.c`, `server1_epoll2.c` of `io/` | `EchoServers` |
| `EchoServers`, `EchoServers_proofs` | any of the eight echo servers over the kernel and its clients | run `echo` |
| `MemPool`, `MemPool_proofs` | the block allocator | run `mempool` |
| `BTree`, `BTree_proofs`, `MCBTree` | the B-tree | runs `btree`, `btree_cannot_del` |
| `RBTree`, `RBTree_proofs`, `MCRBTree` | the red-black tree | run `rb` |

`OldPool`, `Src2Pool` and `Src3Pool` extend `ThreadPool`: workers and
destruction are the same code under other names and are therefore the same
definitions, and what differs is a definition of its own.  `PoolPrograms`
extends `ThreadPool` and instantiates the three.  `HttpReactor` and
`WsReactor` extend `Reactor`, whose loop both files repeat word for word, and
`Reactors` extends both.  In `PoolPrograms`, `Reactors` and `EchoServers` the
variable `program` says which program runs; it is chosen in the initial state
and does not change.  `ThreadPool` and `ZeroThreadPool` instantiate `TaskQueue`
with a refinement mapping each.

Operators whose comment begins with "Mutant" are plausible bugs.  No
specification uses them; putting one in the place of the operator it mutates
shows that the property it is paired with (PROJECT.json, "mutants") can fail.

## 3. How the models correspond to the code

**Pthread pool.**  A worker is named by the slot of `threadIDs` that holds it;
`wpc` is its place in `worker`.  Critical sections are one step, with one
exception: a worker that has found the queue empty holds `mutexPool` in
"blocking" until it is inside `pthread_cond_wait`.  That window is visible
because `shutdown` is written, and `notEmpty` signalled by manager and
destroyer, without the mutex.  A signal wakes any one sleeper; a woken thread
has to get the mutex again, and others may be faster.  The manager's reads of
`queueSize`/`liveNum` and of `busyNum`, its decision to grow, its decision to
shrink and each of its signals are steps of their own, on a snapshot.
`NUMBER` is 2, as in line 17.  A worker that leaves because of `exitNum`
decrements `liveNum`, one that leaves because of `shutdown` does not, as in
the code.  When `threadPoolDestroy` has freed the pool, threads that are still
in it use freed memory: behaviours of the model stop there.

**First pool.**  `AddResumeOnce` is the `if` of line 108: a producer that was
woken looks at `shutdown` and adds.  `ReadCounters`, `GrowByFreeSlots`,
`TestBusy`, `TestLive` and `RequestExit` are its manager, whose tests at line
202 are three separate unlocked reads.

**Second and third pool.**  Their names for the same members are given in the
modules' headers.  `Src2Pool` takes the first pool's `if` and its reading of
all counters at once; `Src3Pool` the loop, the same reading, and
`MoreTasksThanIdle` (line 198).  In `src2` the threads are created (line 60)
before the members they use are initialised; what happens then is undefined,
and the model starts after it.

**Pool programs.**  `main` is the producer "main", and `connect`, which is the
servers' first task, the producer "connect": it is at the same time a worker
(`InConnect`), so that a server's acceptor waits for room in the ring while it
occupies a thread.  `working` ends when its client leaves, `connect` when
`accept` fails.  A demo's `main` destroys its pool when its `DemoTasks` tasks
are in.  Waits may return unsignalled (`UnsignalledReturn`).  In a demo, whose
pool has an `if` around the wait, such a return to `main` (`startled`) lets it
write over a queued task of a full ring (`Overflowed`); the task in its place is
run twice and its argument freed twice, so the behaviour stops there.  As they
are written, both demos add 100 tasks to a ring of 100 and never wait; the model
also has demos that add more.

**C++ pool.**  The class is declared in a header that is not in the
repository; `exec` is modelled from how the other functions use `_tasks` and
`_condition`.  `start`, `stop` and the destructor belong to one owner; `exec`
and `waitForAllDone` to any user.  Workers and users sleep on one condition
variable.  A function that throws ends like one that returns (line 91), and an
expired task is skipped.  `_bTerminate` stays set after `stop`: the workers of
a second `start` end at once, and the model does the same.

**Semaphore list.**  `sem_wait`, the critical section and `sem_post` are one
step each.

**Reactors.**  The kernel is part of the model: sockets are accepted with the
lowest free descriptor, `epoll_wait` returns the set of ready entries (no
order is promised), and an entry remembers the connection it was reported for.
Clients connect, send chunks, leave orderly, reset, or fail otherwise, and
read what they are sent, or not: `stalled` holds the descriptors whose send
buffer is full.  A callback is one step, except the HTTP `send_cb`, which
makes the socket blocking and waits in `sendfile` (`sending`).  SIGPIPE is
not ignored by the programs, so a send on a connection whose error has been
reported ends the server (`killed`).  Of a request only its kind is kept: its
method for HTTP, whether it carries a key for the websocket.  The slots'
fields that outlive a connection (`method`, `wlength`, `wsstatus`,
`sec_accept`) outlive it in the model.  An error other than ECONNRESET leaves
the descriptor open and unwatched, in the HTTP and websocket servers, as in
the code.

**Echo servers.**  Chunks are numbered, and a buffer takes `BUFFER_LENGTH` of
them, so it can be seen whose bytes are in it and which of them are old.  `got`
and `sent` are what each connection gave and was sent, piece by piece.  Where a
call blocks only if epoll has reported nothing it is one step with its handler;
`server_epoll.c` and `server_selete.c` wait in `send` (`busy`), and
`server1_epoll2.c`'s inner loop and the time between its accept and its
EPOLL_CTL_ADD are steps of their own.  In `server_selete.c` the batch is
select's result, taken in ascending order.  `server1_epoll2.c` is edge
triggered: `edge` holds the descriptors something has happened to since the
last report.  The rest of the `c1000k` mains follow the code line by line:
`server.c` allocates blocks (`blkcnt` starts at 0) and buffers, and frees the
buffers; `server1.c` writes through the null pointer that `reactor_lookup`
returns (line 91) as soon as a client connects; `server2.c` and `server3.c`
ignore the end of a connection.

**Allocator.**  Blocks are numbers; the link in a block is destroyed when it
is handed out.  Blocks are at least as large as a pointer.  Line 33 writes
NULL past the page when `block_size` divides the page; it changes no block.

**B-tree.**  A node is a record of keys and children.  An operation is a
function from trees to trees, and one that calls itself on a child a recursive
function of the height: `btree_insert_nonfull[h][x][k]` is the tree that the
call on `x`, a node h levels above the leaves, leaves behind.  `Trees[h]` are
the nodes such a call may be given.  The history variable `height` is the
height of the root, which the code does not keep.  `Walk` is the loop of
`btree_traverse`, `KeySeq` what the traversal prints.  Keys are inserted once,
as `main` does.
Insertion into a tree whose root is NULL, and the uses of a freed root after a
merge (lines 275-276), have no defined outcome: the behaviour stops in status
"undefined".  So it may when a merge below a full node writes a NULL behind its
`childrens` (line 223, `num + 1` = 2t, of an array of 2t): `Overruns` says which
deletions do that, and `Overrun` is the undefined outcome.  The other outcome is
that the write hits padding of the allocator and changes nothing; then the call
ends as `Delete` says.  `misplaced` remembers that a deletion has put a key where
it does not belong (`Misplaces`); `MaxUnordered` bounds the size of the tree
from then on.

**Red-black tree.**  Each iteration of each loop is one step, so the
invariants speak about the states in the middle of a call.  Left and right
branches are one definition with a side.  `MCRBTree` gives TLC a view in which
a node is named by its key: the program compares node addresses for equality
only.

## 4. Runs

| Run | Instance | Checked | Distinct states |
|---|---|---|---|
| `pool` | 1 to 2 workers, 2 producers, capacity 2, 3 tasks, spurious wakeups, destruction at any time | `TypeOK` `RingIsFifo` `EachTaskOnce` `CountersExact` `NoStrandedProducer` `ImplementsTaskQueue` `AcceptedTasksComplete` `DestroyReturns` `ShrinksToMinNum` | 150,689 |
| `programs` | 4 programs, 1 to 2 workers, capacity 2, 5 tasks in a server and 4 in a demo, spurious wakeups | `PoolsInv` `WaiterHasHelp` `ClientsServed` `DemoEnds` | 434,144 |
| `zero` | 2 workers, 2 users, 3 tasks, 2 starts | `PoolInv` `SomeWorkerAwake` `ImplementsTaskQueue` `TasksRun` `WaitReturns` `StopReturns` | 58,415 |
| `sem` | 2 producers, 2 consumers, 2 places, 4 nodes | `SemInv` `EachNodeOnce` `ConsumptionGoesOn` | 275 |
| `reactors` | 2 programs, 2 descriptors in blocks of 2, 3 connections, 2 chunks of 3 or 2 kinds | `SlotInv` `NoStaleEvent` `OneAnswerPerChunk` `FirstClientGetsItsKey` `HangsUpOnlyAfterPost` `ChunksAnswered` | 420,003 |
| `echo` | 8 programs, 2 descriptors in blocks of 2, buffers of 2 chunks, at most 3 connections and 3 chunks, 5 together | `ItemInv` `EchoesInOrder` `NoLostEdge` `ChunksEchoed` `FailuresAreClosed` | 490,956 |
| `mempool` | 5 blocks | `ChainIsFreeBlocks` `FreeCountIsExact` | 1,956 |
| `btree` | 10 keys, degree 2; out of order, trees of at most 5 keys are inserted into | `WellFormed` `HoldsKeysInOrder` | 52,973 |
| `rb` | 8 keys in 8 cells | `WellFormed` `RedBlack` `CallsReturn` | 98,327 |

Why the bounds are enough.  Two workers with `minNum` 1 make the manager grow
and shrink; three tasks in a ring of two cells wrap both indices and fill the
queue, and two producers then compete for one freed cell.  In the C++ pool
each kind of sleeper occurs twice, so a notification can reach the wrong one,
and the pool is stopped and started again with tasks in it.  Three
connections over two descriptors give a descriptor a second owner while the
other one is open and while old entries are in the batch; with two chunks the
second owner can meet what the first left in the slot.  Three chunks and a
buffer of two are what it takes for a piece to be sent with older bytes behind
it; `MaxCalls` = 5 excludes only runs with three connections and three chunks
at once.  The third connection also finds no descriptor when both are open.
The programs' five tasks are `connect` and four clients, twice what the pool
has threads, with two more in the ring; a demo's four let its `main` wait for
room, and be woken for nothing, before it destroys the pool.  A B-tree of degree 2
with ten keys has three levels, and its inner nodes borrow, merge and replace
keys by keys of inner children.  The order matters only until that last thing
happens; `MaxUnordered` limits what is explored after it.  A red-black tree with eight keys reaches all cases of both fixups,
including more than one iteration of each loop.

What the properties of `echo` except is as much a result as what they say.  A
piece that goes through `server3.c`'s buffer may be replaced by another
client's before it is sent; `server1_epoll2.c` drops what it cannot send at
once, and ends when any client leaves (line 74 closes, the next `recv` fails);
`server_epoll.c` ends at a reset; `server2.c` and `server3.c` run out of
descriptors, and then a failing `accept` (`server.c:240`) can keep every other
connection from being served.  `ChunksAnswered`, of `reactors`, lets the server close a
connection instead of answering; `HangsUpOnlyAfterPost` says when it does so to
a client that is still there.  `programs` shows that `server.cpp` serves a
waiting client as long as some thread may still be created, and that
`server2.cpp`, whose manager compares tasks with all threads, need not.

Three runs end in a violation, each of one property that states what the code
says of itself:

- `pool_stale_exit` violates `SleepsOnlyWhenEmpty`.  The manager sets
  `exitNum` to 2 and signals twice; signals that find nobody asleep are lost,
  the request stays.  The next worker that is woken for a task takes the
  request (line 197) and leaves without looking at the queue, and the
  remaining worker sleeps for ever beside the task.
- `src_overflow` violates `QueueFits`.  `threadPoolAdd` of
  `threadpool/src/threadpool.cpp` tests for a full queue with an `if` (line
  108); of two producers the one that was woken writes over a queued task.
  `threadpool/src2` has the same test.
- `btree_cannot_del` violates `CannotDelMeansAbsent`.  Deleting a key of an
  inner node copies the last key of its left child (line 261) even if that
  child has children with greater keys.  The order is lost, and a key that is
  in the tree is later reported as "Cannot del key".  Ten keys are needed for it.

Deadlock is not checked where the programs may stop: the pools after
destruction or when nobody calls, the bounded producers, a killed server, a
B-tree in an undefined state.  `mempool` and `rb` are checked for it.

## 5. Fairness

Safety is stated of `Spec`, without fairness; the runs that check liveness use
`FairSpec`.

- `pool`: weak fairness for each worker, each woken producer, the manager and a
  destruction that has begun: threads that can run are scheduled, tasks
  return, `sleep` ends.  Nothing forces anybody to call, and spurious wakeups
  come to an end.  `AcceptedTasksComplete` assumes in addition that no worker
  is woken to leave beside a queued task (`LeavesBesideTask`): the run
  `pool_stale_exit` shows why.  The pool may grow, be asked to shrink, shrink and
  be given tasks again; only a request to leave must not meet a worker that was
  woken for a task.
- `zero`: weak fairness for each worker, for users that were notified, and for
  the joining owner.
- `sem`: weak fairness for each thread; the mutex is free between steps.
- `programs`: weak fairness for each worker but for a server's tasks, for the
  manager, for `main` of a demo and for an acceptor that was woken.  Nothing
  makes a client come or leave, and spurious wakeups come to an end.  `ClientsServed` assumes that nobody is asked
  to leave, for the reason above.
- `reactors`, `echo`: weak fairness for the single thread, and for each client
  to read what it was sent.  Without the latter one client blocks the HTTP
  server for ever in `sendfile`, or `server_epoll.c` in `send`; no property
  excludes such a client, it is assumed away.  Nothing forces clients to send or leave.
- `rb`: a called function runs on.

## 6. What is proved

All theorems hold for every value of the constants that satisfies the named
assumptions of the module, and for the specification without fairness, hence
for the fair one as well.  The assumptions are: `PoolAssumption` (`minNum <=
maxNum`, a positive capacity, finitely many producers), `ProgramsAssumption`
(main and connect are among the producers, `DemoTasks` is at most `MaxTasks`), `ZeroAssumption`, `SemAssumption`,
`MemPoolAssumption`, `ReactorsAssumption` (the kinds of request the two servers
tell apart are kinds, "none" is not), `KernelAssumption`, `EchoAssumption`,
`BTreeAssumption` (keys are integers, the degree is at least 2) and
`RBAssumption` (cells are numbers other than nil, finitely many; keys are
integers); each is evaluated by a run.

Two patterns recur.  An invariant speaks of few variables and a program has
many actions, so a lemma first reduces the steps of all threads to the few
*effects* they can have on those variables (to the tasks of a pool: one is
added, taken or run, the pool is shut down, or nothing), and the invariant is
proved against the effects.  And an invariant is seldom inductive as it stands;
what follows says what had to be added.

`PoolPrograms_proofs`, first part, of `ThreadPool`:

- `TypeCorrect`: `Spec => []TypeOK`.  `liveNum` never leaves
  `minNum .. maxNum` and `queueSize` never passes the capacity.  `TypeOK`
  alone is not inductive: the manager's signal loop counts down from a number
  that must not be zero.  The strengthening `TypeInv` adds `SignalsLeft`.
- `RingCorrect`: `Spec => []RingIsFifo`, and `TasksRunOnce`:
  `Spec => []EachTaskOnce`.  `StepEffect` reduces every step to one of five
  effects; two lemmas about the ring's arithmetic cover the first two, and the
  head of the ring is the task numbered `taken + 1`.
- `CountersStayExact`: `Spec => []CountersExact`.  One worker leaves `Live`,
  enters or leaves `Busy`, or some enter `Live`, and a counter moves with it.
- `NoProducerStranded`: `Spec => []NoStrandedProducer`.  The number of woken
  producers against the number of free cells is inductive: whoever frees a
  cell beside a sleeper wakes one for it.
- `PoolImplementsTaskQueue`: `Spec => ImplementsTaskQueue`.  The abstract queue
  is the run of numbers `taken + 1 .. accepted`, so that appending and taking
  the tail become arithmetic.

Its second part says the same of the four programs and their four pools:

- `PoolsCorrect`: `ProgramSpec => []PoolsInv`.  The inductive `TasksInv` adds
  `OneProducer`: one thread at a time adds, and when it was woken by a signal
  there is room.  Hence the pools with the `if` around the wait, whose queue
  overflows in the run `src_overflow`, overflow under one producer only after
  `pthread_cond_wait` has returned to it without a signal; `TasksInv` is kept
  until they do.
- `DemosFit`: `ProgramSpec => []~Overflowed` if `DemoTasks <= queueCapacity`, as
  in both demos: with a cell for each task `main` never waits, and unsignalled
  returns cannot hurt.
- `ProgramsImplementTaskQueue`: `ProgramSpec /\ [](Demo => ~startled) =>
  ImplementsTaskQueue`, that is, of the servers without condition, of the demos
  as long as `main` is not sent on unsignalled; here TLC checks only what
  `PoolsInv` says of it.
- `AcceptorHasHelp`: `ProgramSpec => []WaiterHasHelp`, if `RingOutlastsExits`.
  A signal for a task may be spent on a worker that leaves; `HelpLeft` counts
  the tasks queued against the workers that are still to wake or have left,
  and there is a cell for each of these only if the capacity exceeds
  `maxNum - minNum`.  That is so in all four programs (100 against 5 and 7) and
  in the run; without it the property fails, with three workers, a minimum of
  one and a ring of two for instance.

`ZeroThreadPool_proofs`: `PoolCorrect` (`Spec => []PoolInv`) with
`PoolIndInv`, which adds to the types and the count of `_atomic` that a worker
which is not working has no task (`NoneLeft`) and where every task is
(`Ledger`); `WorkerAwake` (`Spec => []SomeWorkerAwake`) with `AwakeIndInv`,
which adds that whoever is awake among workers and waiters will look at the
queue or tell another (`SomebodyWillTell`); `PoolImplementsTaskQueue`, restarts
included.

`SemStack_proofs`: `SemInvariant` (`Spec => []SemInv`), by lemmas that say how
one thread's move changes the number of threads at a place;
`ConsumerFindsNode` (`Spec => []HeadIsNode`) and `ListStaysBounded` follow from
it; `NodesOnce` (`Spec => []EachNodeOnce`).

`Reactors_proofs`, for any number of descriptors, connections and chunks and for
both servers: `SlotsCorrect` (`Spec => []SlotInv`), `EntriesNeverStale`
(`Spec => []NoStaleEvent`), `AnswersMatchChunks` (`Spec => []OneAnswerPerChunk`),
`HangsUpAfterPost` (`Spec => HangsUpOnlyAfterPost`) and `FirstClientServed`
(`Spec => []FirstClientGetsItsKey`).  They need each other: that an entry of the
batch is current follows from what a slot and the kernel agree on, and the
callbacks keep that agreement only for current entries.

`EchoServers_proofs`, for the eight echo servers: `ItemsCorrect`
(`Spec => []ItemInv`), `PiecesEchoed` (`Spec => []EchoesInOrder`) and
`EdgesNoticed` (`Spec => []NoLostEdge`).  `EchoInv` has two layers, each
inductive given the one before: `LoopInv` for items, interest and entries in
hand, `PiecesInv` for what was got, sent and is in the buffers.

`MemPool_proofs`: `PoolInvariant`, whose three parts need each other: the chain
tells `_malloc` that `ptr` is a block, the counter tells `_free` that there is
room.  `ChainStaysFreeBlocks` and `FreeCountStaysExact` follow.

`RBTree_proofs`, for any cells and keys: `TreeWellFormed`
(`Spec => []WellFormed`) and `TreeRedBlack` (`Spec => []RedBlack`), from
`TreeInductive`.  Both properties speak of recursive functions, what hangs under
a node to a depth of n and the black heights of all paths, which no single step
can be compared with.  The inductive `IndInv` replaces them by what each node
knows of its children: there is an assignment `B` of sets to nodes that fits the
links (`Spans`) and the order (`Sorted`), and an assignment `H` of heights that
fits the colours (`Balanced`).  It adds, for each function in progress, where its
variables are (`OnTheWay`: the key that is looked for is under `x` or absent, `y`
is the free end where it belongs or is before all it passed by) and which node
may be wrongly coloured (`Painted`).  The argument:

1. A rotation at a node of a search tree leaves one (`RotateTree`): only the
   two nodes that turn get other sets, and the subtree that changes sides is
   between their keys.
2. Each case of the two fixups is a lemma about colours and heights on a linked
   tree: `RedUncle`, `InnerChild`, `OuterChild` for insertion, `RedSibling`,
   `BlackNephews`, `NearNephew`, `FarNephew` for deletion.  In a deletion the link
   to `x` counts as one black node; each case moves it up or makes it real.
3. A node linked in at a free end, and one with a single child taken out, leave
   a search tree (`GrownTree`, `ShrunkTree`), with a red node that may be
   wrong or a link that is one short (`GrownColors`, `ShrunkBlack`).
4. Each action keeps `IndInv` (the lemmas whose names end in `Ind`).
5. `Under[n][c]` is `B[c]` when `B[c]` has at most n cells, and
   `BlackHeights[n][c]` is `{H[c]}` (`BelowSpans`, `OneHeight`).  This is an
   induction on n; the library's induction theorems cannot be instantiated, but
   the least n for which it fails can (`Least`, `FromZero`).

`OnTheWay`, `Painted`, `Spans` and `Balanced` were checked with TLC on seven
keys before they were proved.

`BTree_proofs`, for any keys and any degree: `BTreeWellFormed`
(`Spec => []WellFormed`), from what one call does on a node of any height,
`InsertNonfull` and `DeleteKey`.  The argument:

1. A recursive function of the height is what its definition says: `Recursion`
   proves it once for all of them, the rows `TreesRow`, `KeysRow`, `InsertRow`
   and so on being their bodies.  A statement about all heights is proved from a
   least counterexample (`FromZero`).
2. `split_child`, the merge and the rotations are splices of two sequences:
   their lemmas say how many keys and children the parts have, and that no key
   is missing.
3. A call on a node returns a node of the same height.  An insertion never
   makes it smaller (`Inserts`); a deletion takes one key at most, and loses
   none but its own (`Deletes`), even where it takes its replacement from an
   inner node: the key in the wrong place is still in the tree.
4. Before it descends, a deletion sees to it that the child has t keys
   (`Fill`), so only the root can lose its last key: this is why a tree becomes
   NULL only when it is empty, and why a freed node is read (lines 275-276) only
   in a root of one key.

`WellFormed` is inductive as it stands.  It speaks of trees that are defined, and
says nothing after `Overrun` and the other steps to "undefined"; that every node's
keys and children fit its arrays does not mean that the code writes nowhere else,
and line 223 does.  It does not say that the keys are in
order, and need not: what keeps the tree balanced depends on none of the
comparisons.

The order is another matter, because the code does not keep it: the run
`btree_cannot_del` violates `CannotDelMeansAbsent` in a tree whose keys are out
of order, and what is proved names the step to blame.  `Misplaces[h][x][k]` holds
if the deletion of k, somewhere on its way down, replaces a key by the last or
first key of a child that is no leaf, and `misplaced` that this has happened.

- `KeysInOrder`: `Spec => []HoldsKeysInOrder`, which claims the order until then.
- `CannotDelUntilMisplaced`: `Spec => [](~misplaced => CannotDelMeansAbsent)`.
- `LowTreesInOrder`: in a behaviour whose tree never has more than two levels no
  key is misplaced, and both hold throughout.  There a child is a leaf.
- `InsertNonfullInOrder`, `TraverseInOrder` and `DeleteKeyInOrder` say it of one
  call on a tree of any height, in a search tree, whatever came before.

The inductive invariant is `WellFormed /\ Searchable`, the root being one of
the `SearchTrees` and holding no key that is not present.  In a search tree the
keys of a node ascend and every key under a child lies between its neighbours
(`InOrder`), at each node.  Insertion, merges and rotations are shown to keep
this by saying where each key and child of the result comes from (`IsSpliceAt`,
`IsPair`), so that every comparison in the new tree is one in the old.  The key
that is inserted or deleted lies between the neighbours of the child the call
descends to (`Fits`), which is why it is found, or known to be absent, there.
For the traversal the induction is on the height and, inside, on the rounds of
its loop.  A replacement by a key of a leaf keeps the order (`RefillSearch`)
because nothing lies between that key and the one it replaces; under an inner
child something does.

## 7. What is only model-checked, and what is left out

Liveness and everything that depends on fairness is beyond the proof system and
stays with TLC: `AcceptedTasksComplete`, `DestroyReturns`, `ShrinksToMinNum`,
`ClientsServed`, `DemoEnds`, `TasksRun`, `WaitReturns`, `StopReturns`,
`ConsumptionGoesOn`, `ChunksAnswered`, `ChunksEchoed`, `FailuresAreClosed` and
`CallsReturn`.

All invariants and action properties that passing runs check are proved for
every value of the constants, `WaiterHasHelp` for those with `RingOutlastsExits`.

Left out of the models: formatting, hashing and frame layouts; partial writes
that the buffer sizes exclude; failures of `malloc` and `pthread_create`;
the creation of the second pool's threads before its mutexes; what
`server_selete.c` sends from behind its buffer, and descriptors beyond
`server2.c`'s table of 128 items; expiry times of tasks (any task may have
expired); out-of-range indices of `main` programs; what becomes of a pool whose
ring has overflowed, and of a tree after a write behind an array.

Known behaviour that no property covers, because no line of the code promises
otherwise: `threadPoolDestroy` does not join its workers and signals without
the mutex, so a worker can miss the wakeup or use freed memory;
a producer asleep at shutdown is never woken; `waitForAllDone` returns when
the queue is empty, while the last tasks are still executing; a C++ pool that
was stopped runs nothing after a second `start`.

## 8. Plan

The order was: the pool and its abstract queue first, since most of the
repository's concurrency is there, then the other synchronisation programs,
the reactors and the sequential data structures, then the older pools with the
programs that use them and the echo servers.  What is left:

1. Proofs: liveness, should the proof system come to support it.
2. Not planned: the clients, which are the environment of the servers; the
   demos without shared state.
