----------------------- MODULE ZeroThreadPool_proofs -----------------------
(***************************************************************************)
(* What is proved of the C++ thread pool, for any number of workers, users,*)
(* tasks and starts: PoolInv, SomeWorkerAwake and that it implements the   *)
(* abstract queue of TaskQueue.                                            *)
(*                                                                         *)
(* The invariant that is inductive is PoolIndInv.  Its Ledger follows the  *)
(* tasks: those queued are the last ones pushed, oldest first, and every   *)
(* earlier one is with exactly one worker, ended or expired.               *)
(***************************************************************************)
EXTENDS ZeroThreadPool, FiniteSetTheorems, TLAPS

nTaken == pushed - Len(tasks)
Held   == {held[w] : w \in Working}

QueueInOrder ==
  /\ Len(tasks) <= pushed
  /\ \A i \in 1 .. Len(tasks) : tasks[i] = nTaken + i

TakenOnce ==
  /\ Held \cup ended \cup expired = 1 .. nTaken
  /\ \A w \in Working : held[w] \notin ended \cup expired
  /\ \A v, w \in Working : held[v] = held[w] => v = w
  /\ Cardinality(Working) + Cardinality(ended) + Cardinality(expired) = nTaken

Ledger == QueueInOrder /\ TakenOnce

\* Between two starts no worker exists.
NoneLeft == opc = "noThreads" => \A w \in Workers : wpc[w] = "none"

PoolIndInv == TypeOK /\ AtomicCounts /\ NoneLeft /\ Ledger

\* A user who sleeps although the queue is empty has a worker that has not yet
\* told that all is done.
SomebodyWillTell ==
  (\E u \in Users : upc[u] \in {"sleeping", "sleepingTimed"}) /\ tasks = << >>
    => \E w \in Workers : wpc[w] \in {"got", "running", "counted"}

AwakeIndInv == SomebodyWillTell /\ SomeWorkerAwake
-----------------------------------------------------------------------------
(* The tasks *)

\* The workers are finite, so that those at work can be counted.
LEMMA WorkersFinite ==
  \A S \in SUBSET Workers : IsFiniteSet(S) /\ Cardinality(S) \in Nat
                              /\ Cardinality(S) <= Cardinality(Workers)
  BY ZeroAssumption, FS_Subset, FS_CardinalityType

\* The sets of the history are finite.
LEMMA HistoryFinite ==
  ASSUME TypeOK
  PROVE  /\ IsFiniteSet(ended) /\ Cardinality(ended) \in Nat
         /\ IsFiniteSet(expired) /\ Cardinality(expired) \in Nat
  <1>1. IsFiniteSet(1 .. MaxTasks)
    BY ZeroAssumption, FS_Interval
  <1>2. IsFiniteSet(ended) /\ IsFiniteSet(expired)
    BY <1>1, FS_Subset DEF TypeOK
  <1> QED
    BY <1>2, FS_CardinalityType

\* What a step may do to the tasks: push one, take the oldest, end one or let
\* it expire, or leave them alone.
TasksKept == UNCHANGED <<tasks, held, pushed, ended, expired, Working>>
Pushes ==
  /\ pushed < MaxTasks /\ pushed' = pushed + 1
  /\ tasks' = Append(tasks, pushed + 1)
  /\ UNCHANGED <<held, ended, expired, Working>>
Takes(w) ==
  /\ tasks # << >> /\ w \notin Working
  /\ Working' = Working \cup {w}
  /\ Pop(w)
  /\ UNCHANGED <<pushed, ended, expired>>
Ends(w) ==
  /\ w \in Working
  /\ Working' = Working \ {w}
  /\ held' = [held EXCEPT ![w] = 0]
  /\ \/ ended' = ended \cup {held[w]} /\ UNCHANGED expired
     \/ expired' = expired \cup {held[w]} /\ UNCHANGED ended
  /\ UNCHANGED <<tasks, pushed>>

\* A notification changes who sleeps, not who works.
LEMMA NotifyOneKeepsWork ==
  ASSUME wpc \in [Workers -> WorkerStates], NotifyOne
  PROVE  Working' = Working /\ InCount' = InCount
  BY ZeroAssumption DEF NotifyOne, Sleepers, Working, InCount

\* Every step of every thread does one of these.
LEMMA TaskEffect ==
  ASSUME TypeOK, NoneLeft, [Next]_vars
  PROVE  TasksKept \/ Pushes \/ \E w \in Workers : Takes(w) \/ Ends(w)
  <1> USE DEF TypeOK
  <1>1. ASSUME NEW w \in Workers, Worker(w) PROVE TasksKept \/ Takes(w) \/ Ends(w)
    <2>1. CASE Loop(w)
      BY <2>1 DEF Loop, TasksKept, Working
    <2>2. CASE get(w) /\ wpc'[w] # "got"
      BY <2>2 DEF get, TasksKept, Working
    <2>3. CASE get(w) /\ wpc'[w] = "got"
      BY <2>3 DEF get, Takes, Working
    <2>4. CASE CountUp(w)
      BY <2>4 DEF CountUp, TasksKept, Working
    <2>5. CASE RunAndCountDown(w)
      BY <2>5 DEF RunAndCountDown, Ends, Working
    <2>6. CASE TellAllDone(w)
      BY <2>6 DEF TellAllDone, Awoken, TasksKept, Working
    <2> QED
      BY <1>1, <2>1, <2>2, <2>3, <2>4, <2>5, <2>6 DEF Worker
  <1>2. ASSUME NEW u \in Users, User(u) PROVE TasksKept \/ Pushes
    <2>1. CASE exec(u)
      BY <2>1, NotifyOneKeepsWork DEF exec, Pushes
    <2>2. CASE ~exec(u)
      BY <1>2, <2>2
      DEF User, waitForAllDone, WaitAgain, WaitTimesOut, Continue, userFrame, TasksKept,
          Working
    <2> QED
      BY <2>1, <2>2
  <1>3. ASSUME Owner PROVE TasksKept
    <2>1. CASE Start
      BY <2>1 DEF Start, NoneLeft, TasksKept, Working
    <2>2. CASE Stop
      BY <2>2 DEF Stop, Awoken, TasksKept, Working
    <2>3. CASE Joined
      BY <2>3 DEF Joined, TasksKept, Working
    <2> QED
      BY <1>3, <2>1, <2>2, <2>3 DEF Owner
  <1>4. CASE UNCHANGED vars
    BY <1>4 DEF vars, TasksKept, Working
  <1> QED
    BY <1>1, <1>2, <1>3, <1>4 DEF Next

\* What Append and Tail do to a queue, element by element.
LEMMA AppendAt ==
  ASSUME NEW S, NEW q \in Seq(S), NEW e \in S
  PROVE  /\ Append(q, e) \in Seq(S) /\ Len(Append(q, e)) = Len(q) + 1
         /\ \A i \in 1 .. Len(q) : Append(q, e)[i] = q[i]
         /\ Append(q, e)[Len(q) + 1] = e
  OBVIOUS

LEMMA TailAt ==
  ASSUME NEW S, NEW q \in Seq(S), q # << >>
  PROVE  /\ Len(q) \in Nat \ {0} /\ Head(q) = q[1] /\ Head(q) \in S
         /\ Tail(q) \in Seq(S) /\ Len(Tail(q)) = Len(q) - 1
         /\ \A i \in 1 .. Len(q) - 1 : Tail(q)[i] = q[i + 1]
  OBVIOUS

\* The oldest task is the next number after those taken.
LEMMA HeadIsNext ==
  ASSUME TypeOK, QueueInOrder, tasks # << >>
  PROVE  Head(tasks) = nTaken + 1
  <1>1. Head(tasks) = tasks[1] /\ 1 \in 1 .. Len(tasks)
    BY TailAt DEF TypeOK
  <1> QED
    BY <1>1 DEF QueueInOrder

\* The pool begins without tasks.
LEMMA LedgerInit == Init => Ledger
  <1> SUFFICES ASSUME Init PROVE Ledger
    OBVIOUS
  <1>1. Working = {} /\ Held = {}
    BY DEF Init, Working, Held
  <1>2. Cardinality({}) = 0
    BY FS_EmptySet
  <1> QED
    BY <1>1, <1>2 DEF Init, Ledger, QueueInOrder, TakenOnce, nTaken

\* A step keeps every task in one place, and the queue in order.
LEMMA LedgerNext ==
  ASSUME TypeOK, NoneLeft, Ledger, [Next]_vars
  PROVE  /\ tasks' \in Seq(1 .. MaxTasks) /\ pushed' \in 0 .. MaxTasks
         /\ held' \in [Workers -> 0 .. MaxTasks]
         /\ ended' \subseteq 1 .. MaxTasks /\ expired' \subseteq 1 .. MaxTasks
         /\ Ledger'
  <1> DEFINE Goal == /\ tasks' \in Seq(1 .. MaxTasks) /\ pushed' \in 0 .. MaxTasks
                     /\ held' \in [Workers -> 0 .. MaxTasks]
                     /\ ended' \subseteq 1 .. MaxTasks /\ expired' \subseteq 1 .. MaxTasks
                     /\ Ledger'
  <1>1. /\ tasks \in Seq(1 .. MaxTasks) /\ Len(tasks) \in Nat
        /\ pushed \in 0 .. MaxTasks /\ pushed \in Nat /\ nTaken \in Nat
        /\ MaxTasks \in Nat /\ Len(tasks) <= pushed
        /\ held \in [Workers -> 0 .. MaxTasks] /\ Working \subseteq Workers
        /\ ended \subseteq 1 .. MaxTasks /\ expired \subseteq 1 .. MaxTasks
    BY ZeroAssumption DEF TypeOK, Ledger, QueueInOrder, nTaken, Working
  <1>2. /\ IsFiniteSet(Working) /\ Cardinality(Working) \in Nat
        /\ IsFiniteSet(ended) /\ Cardinality(ended) \in Nat
        /\ IsFiniteSet(expired) /\ Cardinality(expired) \in Nat
    BY <1>1, WorkersFinite, HistoryFinite
  <1>3. CASE TasksKept
    <2>1. nTaken' = nTaken /\ Held' = Held
      BY <1>3 DEF TasksKept, nTaken, Held
    <2> QED
      BY <1>1, <1>3, <2>1 DEF TasksKept, Ledger, QueueInOrder, TakenOnce
  <1>4. CASE Pushes
    <2>1. /\ tasks' \in Seq(1 .. MaxTasks) /\ Len(tasks') = Len(tasks) + 1
          /\ \A i \in 1 .. Len(tasks) : tasks'[i] = tasks[i]
          /\ tasks'[Len(tasks) + 1] = pushed + 1
      BY <1>1, <1>4, AppendAt DEF Pushes
    <2>2. pushed' = pushed + 1 /\ pushed' \in 0 .. MaxTasks /\ nTaken' = nTaken
      BY <1>1, <1>4, <2>1 DEF Pushes, nTaken
    <2>3. ASSUME NEW i \in 1 .. Len(tasks) + 1 PROVE tasks'[i] = nTaken + i
      <3>1. CASE i \in 1 .. Len(tasks)
        BY <2>1, <3>1 DEF Ledger, QueueInOrder
      <3>2. CASE i = Len(tasks) + 1
        BY <1>1, <2>1, <3>2 DEF nTaken
      <3> QED
        BY <1>1, <2>3, <3>1, <3>2
    <2>4. QueueInOrder'
      BY <1>1, <2>1, <2>2, <2>3 DEF QueueInOrder
    <2>5. TakenOnce'
      BY <1>4, <2>2 DEF Pushes, Ledger, TakenOnce, Held
    <2> QED
      BY <1>1, <1>4, <2>1, <2>2, <2>4, <2>5 DEF Pushes, Ledger
  <1>5. ASSUME NEW w \in Workers, Takes(w) PROVE Goal
    <2>1. /\ Len(tasks) \in Nat \ {0} /\ Head(tasks) \in 1 .. MaxTasks
          /\ tasks' \in Seq(1 .. MaxTasks) /\ Len(tasks') = Len(tasks) - 1
          /\ \A i \in 1 .. Len(tasks) - 1 : tasks'[i] = tasks[i + 1]
      BY <1>1, <1>5, TailAt DEF Takes, Pop
    <2>2. Head(tasks) = nTaken + 1
      BY <1>5, HeadIsNext DEF Takes, Ledger
    <2>3. nTaken' = nTaken + 1 /\ pushed' = pushed
      BY <1>1, <1>5, <2>1 DEF Takes, nTaken
    <2>4. ASSUME NEW i \in 1 .. Len(tasks) - 1 PROVE tasks'[i] = nTaken + 1 + i
      <3>1. i + 1 \in 1 .. Len(tasks)
        BY <2>1
      <3>2. tasks[i + 1] = nTaken + (i + 1)
        BY <3>1 DEF Ledger, QueueInOrder
      <3> QED
        BY <1>1, <2>1, <3>2
    <2>5. QueueInOrder'
      BY <1>1, <2>1, <2>3, <2>4 DEF QueueInOrder
    <2>6. /\ held' = [held EXCEPT ![w] = nTaken + 1]
          /\ Working' = Working \cup {w} /\ w \notin Working
          /\ ended' = ended /\ expired' = expired
      BY <1>5, <2>2 DEF Takes, Pop
    <2>7. Held' = Held \cup {nTaken + 1}
      BY <1>1, <2>6 DEF Held
    <2>8. nTaken + 1 \notin Held \cup ended \cup expired
      BY <1>1 DEF Ledger, TakenOnce
    <2>9. Held' \cup ended' \cup expired' = 1 .. nTaken'
      <3>1. 1 .. nTaken + 1 = (1 .. nTaken) \cup {nTaken + 1}
        BY <1>1
      <3> QED
        BY <2>3, <2>6, <2>7, <3>1 DEF Ledger, TakenOnce
    <2>10. /\ \A v \in Working' : held'[v] \notin ended' \cup expired'
           /\ \A u, v \in Working' : held'[u] = held'[v] => u = v
      BY <1>1, <2>6, <2>8 DEF Ledger, TakenOnce, Held
    <2>11. Cardinality(Working') = Cardinality(Working) + 1
      BY <1>2, <2>6, FS_AddElement
    <2>12. Cardinality(Working') + Cardinality(ended') + Cardinality(expired') = nTaken'
      BY <1>2, <2>3, <2>6, <2>11 DEF Ledger, TakenOnce
    <2>13. TakenOnce'
      BY <2>9, <2>10, <2>12 DEF TakenOnce
    <2> QED
      BY <1>1, <2>1, <2>2, <2>3, <2>5, <2>6, <2>13 DEF Ledger
  <1>6. ASSUME NEW w \in Workers, Ends(w) PROVE Goal
    <2>1. /\ w \in Working /\ Working' = Working \ {w}
          /\ held' = [held EXCEPT ![w] = 0]
          /\ tasks' = tasks /\ pushed' = pushed /\ nTaken' = nTaken
      BY <1>6 DEF Ends, nTaken
    <2>2. held[w] \in 1 .. nTaken /\ held[w] \in 1 .. MaxTasks
      <3>1. held[w] \in Held
        BY <2>1 DEF Held
      <3> QED
        BY <1>1, <3>1 DEF Ledger, TakenOnce, nTaken
    <2>3. held[w] \notin ended \cup expired
      BY <2>1 DEF Ledger, TakenOnce
    <2>4. Held' = Held \ {held[w]}
      BY <1>1, <2>1 DEF Held, Ledger, TakenOnce
    <2>5. /\ ended' \cup expired' = ended \cup expired \cup {held[w]}
          /\ ended' \subseteq 1 .. MaxTasks /\ expired' \subseteq 1 .. MaxTasks
      BY <1>1, <1>6, <2>2 DEF Ends
    <2>6. held[w] \in Held
      BY <2>1 DEF Held
    <2>7. Held' \cup ended' \cup expired' = 1 .. nTaken'
      BY <2>1, <2>4, <2>5, <2>6 DEF Ledger, TakenOnce
    <2>8. /\ \A v \in Working' : held'[v] \notin ended' \cup expired'
          /\ \A u, v \in Working' : held'[u] = held'[v] => u = v
      BY <1>1, <2>1, <2>5 DEF Ledger, TakenOnce
    <2>9. Cardinality(Working') = Cardinality(Working) - 1
      BY <1>2, <2>1, FS_RemoveElement
    <2>10. \/ Cardinality(ended') = Cardinality(ended) + 1 /\ expired' = expired
           \/ Cardinality(expired') = Cardinality(expired) + 1 /\ ended' = ended
      BY <1>2, <1>6, <2>3, FS_AddElement DEF Ends
    <2>11. Cardinality(Working') + Cardinality(ended') + Cardinality(expired') = nTaken'
      BY <1>2, <2>1, <2>9, <2>10 DEF Ledger, TakenOnce
    <2>12. TakenOnce'
      BY <2>7, <2>8, <2>11 DEF TakenOnce
    <2>13. QueueInOrder'
      BY <2>1 DEF Ledger, QueueInOrder
    <2>14. held' \in [Workers -> 0 .. MaxTasks]
      BY <1>1, <2>1
    <2> QED
      BY <1>1, <2>1, <2>5, <2>12, <2>13, <2>14 DEF Ledger
  <1> QED
    BY <1>3, <1>4, <1>5, <1>6, TaskEffect
-----------------------------------------------------------------------------
(* The counter and the threads *)

\* The types of what the threads' positions are, and nobody is left when stop()
\* has joined the workers.
LEMMA ControlNext ==
  ASSUME TypeOK, NoneLeft, [Next]_vars
  PROVE  /\ terminate' \in BOOLEAN /\ wpc' \in [Workers -> WorkerStates]
         /\ upc' \in [Users -> UserStates] /\ opc' \in {"noThreads", "started", "joining"}
         /\ starts' \in 0 .. MaxStarts
         /\ NoneLeft'
  <1> USE DEF TypeOK, WorkerStates, UserStates, NoneLeft
  <1>1. CASE Start
    <2>1. starts' \in 0 .. MaxStarts
      BY <1>1, ZeroAssumption DEF Start
    <2> QED
      BY <1>1, <2>1 DEF Start
  <1>2. CASE Stop
    BY <1>2 DEF Stop, Awoken
  <1>3. CASE Joined
    BY <1>3 DEF Joined
  <1>4. ASSUME NEW w \in Workers, Worker(w), NEW v \in Workers, wpc[w] # "none"
        PROVE  opc # "noThreads"
    BY <1>4
  <1>5. ASSUME NEW w \in Workers, Worker(w) PROVE wpc[w] # "none"
    BY <1>5 DEF Worker, Loop, get, CountUp, RunAndCountDown, TellAllDone
  <1>6. ASSUME NEW w \in Workers, Worker(w)
        PROVE  /\ wpc' \in [Workers -> WorkerStates] /\ upc' \in [Users -> UserStates]
               /\ UNCHANGED <<terminate, opc, starts>>
    <2>1. CASE TellAllDone(w)
      BY <2>1 DEF TellAllDone, Awoken
    <2>2. CASE ~TellAllDone(w)
      BY <1>6, <2>2 DEF Worker, Loop, get, CountUp, RunAndCountDown
    <2> QED
      BY <2>1, <2>2
  <1>7. ASSUME NotifyOne
        PROVE  /\ wpc' \in [Workers -> WorkerStates] /\ upc' \in [Users -> UserStates]
               /\ \A w \in Workers : wpc[w] = "none" => wpc'[w] = "none"
    BY <1>7, ZeroAssumption DEF NotifyOne, Sleepers, Awoken
  <1>8. ASSUME NEW u \in Users, User(u)
        PROVE  /\ upc' \in [Users -> UserStates] /\ wpc' \in [Workers -> WorkerStates]
               /\ \A w \in Workers : wpc[w] = "none" => wpc'[w] = "none"
               /\ UNCHANGED <<terminate, opc, starts>>
    <2>1. CASE exec(u)
      BY <1>7, <2>1 DEF exec
    <2>2. CASE ~exec(u)
      BY <1>8, <2>2
      DEF User, waitForAllDone, WaitAgain, WaitTimesOut, Continue, userFrame
    <2> QED
      BY <2>1, <2>2
  <1>9. CASE UNCHANGED vars
    BY <1>9 DEF vars
  <1> QED
    BY <1>1, <1>2, <1>3, <1>4, <1>5, <1>6, <1>8, <1>9 DEF Next, Owner

\* What a step may do to _atomic and to the workers it counts.
CountKept == UNCHANGED <<atomic, InCount>>
CountsUp(w) ==
  w \in Workers \ InCount /\ InCount' = InCount \cup {w} /\ atomic' = atomic + 1
CountsDown(w) ==
  w \in InCount /\ InCount' = InCount \ {w} /\ atomic' = atomic - 1

\* Every step does one of these.
LEMMA CountEffect ==
  ASSUME TypeOK, NoneLeft, [Next]_vars
  PROVE  CountKept \/ \E w \in Workers : CountsUp(w) \/ CountsDown(w)
  <1> USE DEF TypeOK
  <1>1. ASSUME NEW w \in Workers, Worker(w) PROVE CountKept \/ CountsUp(w) \/ CountsDown(w)
    <2>1. CASE Loop(w)
      BY <2>1 DEF Loop, CountKept, InCount
    <2>2. CASE get(w)
      BY <2>2 DEF get, CountKept, InCount
    <2>3. CASE CountUp(w)
      BY <2>3 DEF CountUp, CountsUp, InCount
    <2>4. CASE RunAndCountDown(w)
      BY <2>4 DEF RunAndCountDown, CountsDown, InCount
    <2>5. CASE TellAllDone(w)
      BY <2>5 DEF TellAllDone, Awoken, CountKept, InCount
    <2> QED
      BY <1>1, <2>1, <2>2, <2>3, <2>4, <2>5 DEF Worker
  <1>2. ASSUME NEW u \in Users, User(u) PROVE CountKept
    <2>1. CASE exec(u)
      BY <2>1, NotifyOneKeepsWork DEF exec, CountKept
    <2>2. CASE ~exec(u)
      BY <1>2, <2>2
      DEF User, waitForAllDone, WaitAgain, WaitTimesOut, Continue, userFrame, CountKept,
          InCount
    <2> QED
      BY <2>1, <2>2
  <1>3. CASE Start
    BY <1>3 DEF Start, NoneLeft, CountKept, InCount
  <1>4. CASE Stop
    BY <1>4 DEF Stop, Awoken, CountKept, InCount
  <1>5. CASE Joined
    BY <1>5 DEF Joined, CountKept, InCount
  <1>6. CASE UNCHANGED vars
    BY <1>6 DEF vars, CountKept, InCount
  <1> QED
    BY <1>1, <1>2, <1>3, <1>4, <1>5, <1>6 DEF Next, Owner

\* _atomic goes up and down with the tasks in execution.
LEMMA AtomicNext ==
  ASSUME TypeOK, NoneLeft, AtomicCounts, [Next]_vars
  PROVE  AtomicCounts' /\ atomic' \in 0 .. Cardinality(Workers)
  <1> USE DEF AtomicCounts
  <1>1. IsFiniteSet(InCount) /\ Cardinality(InCount) \in Nat
    BY WorkersFinite DEF InCount
  <1>2. AtomicCounts'
    <2>1. ASSUME NEW w \in Workers, CountsUp(w) PROVE AtomicCounts'
      BY <1>1, <2>1, FS_AddElement DEF CountsUp
    <2>2. ASSUME NEW w \in Workers, CountsDown(w) PROVE AtomicCounts'
      BY <1>1, <2>2, FS_RemoveElement DEF CountsDown
    <2> QED
      BY <2>1, <2>2, CountEffect DEF CountKept
  <1>3. InCount' \subseteq Workers
    BY DEF InCount
  <1>4. Cardinality(InCount') \in Nat /\ Cardinality(InCount') <= Cardinality(Workers)
    BY <1>3, WorkersFinite
  <1>5. Cardinality(Workers) \in Nat
    BY WorkersFinite
  <1> QED
    BY <1>2, <1>4, <1>5

\* The pool begins in the inductive invariant.
LEMMA PoolInit == Init => PoolIndInv
  <1> SUFFICES ASSUME Init PROVE PoolIndInv
    OBVIOUS
  <1>1. AtomicCounts
    <2>1. InCount = {}
      BY DEF Init, InCount
    <2> QED
      BY <2>1, FS_EmptySet DEF Init, AtomicCounts
  <1>2. TypeOK
    <2>1. Cardinality(Workers) \in Nat
      BY WorkersFinite
    <2>2. tasks \in Seq(1 .. MaxTasks)
      BY DEF Init
    <2>3. /\ atomic \in 0 .. Cardinality(Workers) /\ held \in [Workers -> 0 .. MaxTasks]
          /\ pushed \in 0 .. MaxTasks /\ starts \in 0 .. MaxStarts
      BY <2>1, ZeroAssumption DEF Init
    <2> QED
      BY <2>2, <2>3 DEF Init, TypeOK, WorkerStates, UserStates
  <1> QED
    BY <1>1, <1>2, LedgerInit DEF Init, NoneLeft, PoolIndInv

\* Every step keeps it.
LEMMA PoolNext == PoolIndInv /\ [Next]_vars => PoolIndInv'
  <1> SUFFICES ASSUME PoolIndInv, [Next]_vars PROVE PoolIndInv'
    OBVIOUS
  <1>1. TypeOK /\ AtomicCounts /\ NoneLeft /\ Ledger
    BY DEF PoolIndInv
  <1>2. Ledger' /\ NoneLeft' /\ AtomicCounts'
    BY <1>1, LedgerNext, ControlNext, AtomicNext
  <1>3. TypeOK'
    BY <1>1, LedgerNext, ControlNext, AtomicNext DEF TypeOK
  <1> QED
    BY <1>2, <1>3 DEF PoolIndInv

\* The ledger accounts for every task, and no worker means nothing in hand.
LEMMA PoolIndInvGives == PoolIndInv => PoolInv
  <1> SUFFICES ASSUME PoolIndInv PROVE PoolInv
    OBVIOUS
  <1>1. TypeOK /\ AtomicCounts /\ NoneLeft /\ Ledger
    BY DEF PoolIndInv
  <1>2. /\ tasks \in Seq(1 .. MaxTasks) /\ Len(tasks) \in Nat /\ DOMAIN tasks = 1 .. Len(tasks)
        /\ pushed \in Nat /\ nTaken \in Nat /\ Len(tasks) <= pushed
    BY <1>1, ZeroAssumption DEF TypeOK, Ledger, QueueInOrder, nTaken
  <1>3. {tasks[i] : i \in DOMAIN tasks} = (nTaken + 1) .. pushed
    <2>1. ASSUME NEW i \in DOMAIN tasks PROVE tasks[i] \in (nTaken + 1) .. pushed
      BY <1>1, <1>2 DEF Ledger, QueueInOrder, nTaken
    <2>2. ASSUME NEW t \in (nTaken + 1) .. pushed
          PROVE  \E i \in DOMAIN tasks : tasks[i] = t
      <3>1. t - nTaken \in 1 .. Len(tasks)
        BY <1>2 DEF nTaken
      <3>2. tasks[t - nTaken] = nTaken + (t - nTaken)
        BY <1>1, <3>1 DEF Ledger, QueueInOrder
      <3> QED
        BY <1>2, <3>1, <3>2
    <2> QED
      BY <2>1, <2>2
  <1>4. (nTaken + 1 .. pushed) \cup (1 .. nTaken) = 1 .. pushed
    BY <1>2 DEF nTaken
  <1>5. EachTaskOnce
    <2>1. {tasks[i] : i \in DOMAIN tasks} \cup Held \cup ended \cup expired = 1 .. pushed
      <3>1. Held \cup ended \cup expired = 1 .. nTaken
        BY <1>1 DEF Ledger, TakenOnce
      <3> QED
        BY <1>3, <1>4, <3>1
    <2>2. Len(tasks) + Cardinality(Working) + Cardinality(ended) + Cardinality(expired) = pushed
      <3>1. Cardinality(Working) + Cardinality(ended) + Cardinality(expired) = nTaken
        BY <1>1 DEF Ledger, TakenOnce
      <3>2. Cardinality(Working) \in Nat /\ Cardinality(ended) \in Nat /\ Cardinality(expired) \in Nat
        BY <1>1, WorkersFinite, HistoryFinite DEF Working
      <3> QED
        BY <1>2, <3>1, <3>2 DEF nTaken
    <2> QED
      BY <2>1, <2>2 DEF EachTaskOnce, Held
  <1>6. StopLeavesNothingRunning
    <2>1. SUFFICES ASSUME opc = "noThreads" PROVE Working = {} /\ atomic = 0
      BY DEF StopLeavesNothingRunning
    <2>2. Working = {} /\ InCount = {}
      BY <1>1, <2>1 DEF NoneLeft, Working, InCount
    <2> QED
      BY <1>1, <2>2, FS_EmptySet DEF AtomicCounts
  <1> QED
    BY <1>1, <1>5, <1>6 DEF PoolInv

\* The inductive invariant holds in every reachable state.
THEOREM PoolInductive == Spec => []PoolIndInv
  BY PoolInit, PoolNext, PTL DEF Spec

\* Lines 20-101: whatever the number of workers and users and however often the
\* pool is stopped and started again, _atomic counts the tasks in execution, no
\* task is lost or run twice, and stop() leaves nothing running.
THEOREM PoolCorrect == Spec => []PoolInv
  BY PoolInductive, PoolIndInvGives, PTL
-----------------------------------------------------------------------------
(* Somebody is awake *)

\* NothingLeft is false while a task is in execution.
LEMMA SomebodyCounted ==
  ASSUME TypeOK, AtomicCounts, atomic # 0
  PROVE  \E w \in Workers : wpc[w] = "running"
  <1>1. InCount # {}
    BY FS_EmptySet DEF AtomicCounts
  <1> QED
    BY <1>1 DEF InCount

\* A worker that is about to tell does tell, or leaves it to one that is still
\* running; a user begins to sleep only while tasks are queued, and the worker
\* that takes the last of them is then the one that will tell.
LEMMA WillTellNext ==
  ASSUME PoolIndInv, SomebodyWillTell, [Next]_vars
  PROVE  SomebodyWillTell'
  <1> DEFINE Sleeps(s) == s \in {"sleeping", "sleepingTimed"}
             Tells(s)  == s \in {"got", "running", "counted"}
  <1>0. TypeOK /\ AtomicCounts /\ NoneLeft
    BY DEF PoolIndInv
  <1>1. /\ tasks \in Seq(1 .. MaxTasks)
        /\ wpc \in [Workers -> WorkerStates] /\ upc \in [Users -> UserStates]
    BY <1>0 DEF TypeOK
  <1> SUFFICES ASSUME NEW u \in Users, Sleeps(upc'[u]), tasks' = << >>
               PROVE  \E w \in Workers : Tells(wpc'[w])
    BY DEF SomebodyWillTell
  <1>2. ASSUME Sleeps(upc[u]), tasks = << >> PROVE \E w \in Workers : Tells(wpc[w])
    BY <1>2 DEF SomebodyWillTell
  <1>3. CASE Start
    BY <1>0, <1>2, <1>3 DEF Start, NoneLeft
  <1>4. CASE Stop
    BY <1>1, <1>4 DEF Stop, Awoken, UserStates
  <1>5. CASE Joined
    BY <1>1, <1>2, <1>5 DEF Joined
  <1>6. ASSUME NEW w \in Workers, Worker(w) PROVE \E v \in Workers : Tells(wpc'[v])
    <2>1. CASE Loop(w)
      BY <1>1, <1>2, <2>1 DEF Loop
    <2>2. CASE get(w)
      BY <1>1, <1>2, <2>2 DEF get
    <2>3. CASE CountUp(w) \/ RunAndCountDown(w)
      BY <1>1, <1>2, <2>3 DEF CountUp, RunAndCountDown
    <2>4. CASE TellAllDone(w)
      <3>1. tasks = << >> /\ ~NothingLeft
        BY <1>1, <2>4 DEF TellAllDone, Awoken, UserStates
      <3>2. PICK v \in Workers : wpc[v] = "running"
        BY <1>0, <3>1, SomebodyCounted DEF NothingLeft
      <3> QED
        BY <1>1, <2>4, <3>1, <3>2 DEF TellAllDone
    <2> QED
      BY <1>6, <2>1, <2>2, <2>3, <2>4 DEF Worker
  <1>7. ASSUME NEW v \in Users, User(v) PROVE \E w \in Workers : Tells(wpc'[w])
    <2>1. CASE exec(v)
      <3>1. tasks' = Append(tasks, pushed + 1) /\ pushed + 1 \in 1 .. MaxTasks
        BY <1>0, <2>1, ZeroAssumption DEF exec, TypeOK
      <3>2. Len(tasks') = Len(tasks) + 1 /\ Len(tasks) \in Nat
        BY <1>1, <3>1, AppendAt
      <3> QED
        BY <3>2
    <2>2. CASE waitForAllDone(v) \/ WaitAgain(v) \/ WaitTimesOut(v) \/ Continue(v)
      BY <1>1, <1>2, <2>2
      DEF waitForAllDone, WaitAgain, WaitTimesOut, Continue, userFrame
    <2> QED
      BY <1>7, <2>1, <2>2 DEF User
  <1>8. CASE UNCHANGED vars
    BY <1>2, <1>8 DEF vars
  <1> QED
    BY <1>3, <1>4, <1>5, <1>6, <1>7, <1>8 DEF Next, Owner

\* The notification of exec is enough: it wakes a worker, or a user, and then a
\* worker is still at work, or nobody sleeps.
LEMMA SomeWorkerAwakeNext ==
  ASSUME PoolIndInv, SomebodyWillTell, SomeWorkerAwake, [Next]_vars
  PROVE  SomeWorkerAwake'
  <1>1. /\ tasks \in Seq(1 .. MaxTasks) /\ NoneLeft
        /\ wpc \in [Workers -> WorkerStates] /\ upc \in [Users -> UserStates]
    BY DEF PoolIndInv, TypeOK
  <1> SUFFICES ASSUME opc' = "started", tasks' # << >>
               PROVE  \E w \in Workers : wpc'[w] # "sleeping"
    BY DEF SomeWorkerAwake
  <1>2. ASSUME opc = "started", tasks # << >> PROVE \E w \in Workers : wpc[w] # "sleeping"
    BY <1>2 DEF SomeWorkerAwake
  <1>3. CASE Start
    BY <1>3, ZeroAssumption DEF Start
  <1>4. CASE Stop \/ Joined
    BY <1>4 DEF Stop, Joined
  <1>5. ASSUME NEW w \in Workers, Worker(w) PROVE \E v \in Workers : wpc'[v] # "sleeping"
    <2>1. CASE Loop(w) \/ CountUp(w) \/ RunAndCountDown(w) \/ TellAllDone(w)
      BY <1>1, <2>1 DEF Loop, CountUp, RunAndCountDown, TellAllDone
    <2>2. CASE get(w)
      BY <1>1, <2>2, TailAt DEF get, Pop
    <2> QED
      BY <1>5, <2>1, <2>2 DEF Worker
  <1>6. ASSUME NEW u \in Users, User(u) PROVE \E w \in Workers : wpc'[w] # "sleeping"
    <2>1. CASE exec(u)
      <3>1. NotifyOne /\ opc = "started"
        BY <2>1 DEF exec
      <3>2. CASE \E w \in Sleepers \cap Workers : wpc' = [wpc EXCEPT ![w] = "woken"]
        BY <1>1, <3>2
      <3>3. CASE Sleepers = {} /\ UNCHANGED wpc
        <4>1. PICK w \in Workers : TRUE
          BY ZeroAssumption
        <4>2. wpc'[w] # "sleeping"
          BY <3>3, <4>1 DEF Sleepers
        <4> QED
          BY <4>1, <4>2
      <3>4. CASE (\E v \in Sleepers \cap Users : TRUE) /\ UNCHANGED wpc
        <4>1. \E v \in Users : upc[v] \in {"sleeping", "sleepingTimed"}
          BY <3>4, ZeroAssumption DEF Sleepers
        <4>2. CASE tasks = << >>
          BY <3>4, <4>1, <4>2 DEF SomebodyWillTell
        <4>3. CASE tasks # << >>
          BY <1>2, <3>1, <3>4, <4>3
        <4> QED
          BY <4>2, <4>3
      <3> QED
        BY <3>1, <3>2, <3>3, <3>4 DEF NotifyOne
    <2>2. CASE waitForAllDone(u) \/ WaitAgain(u) \/ WaitTimesOut(u) \/ Continue(u)
      BY <1>2, <2>2 DEF waitForAllDone, WaitAgain, WaitTimesOut, Continue, userFrame
    <2> QED
      BY <1>6, <2>1, <2>2 DEF User
  <1>7. CASE UNCHANGED vars
    BY <1>2, <1>7 DEF vars
  <1> QED
    BY <1>3, <1>4, <1>5, <1>6, <1>7 DEF Next, Owner

\* Lines 55-58 and 107-111: for any number of workers and users, a user that
\* takes the notification meant for a worker never leaves every worker asleep
\* while tasks are queued.
THEOREM WorkerAwake == Spec => []SomeWorkerAwake
  <1>1. Init => AwakeIndInv
    BY DEF Init, AwakeIndInv, SomebodyWillTell, SomeWorkerAwake
  <1>2. PoolIndInv /\ AwakeIndInv /\ [Next]_vars => AwakeIndInv'
    BY WillTellNext, SomeWorkerAwakeNext DEF AwakeIndInv
  <1>3. AwakeIndInv => SomeWorkerAwake
    BY DEF AwakeIndInv
  <1> QED
    BY <1>1, <1>2, <1>3, PoolInductive, PTL DEF Spec
-----------------------------------------------------------------------------
(* The pool implements the queue of tasks *)

\* Every step of the pool is a step of the abstract queue or changes nothing of
\* it.
LEMMA ImplementsNext ==
  ASSUME PoolIndInv, [Next]_vars
  PROVE  [Queue!TQNext]_Queue!tqVars
  <1>1. /\ TypeOK /\ NoneLeft /\ Ledger /\ Working \subseteq Workers
        /\ held \in [Workers -> 0 .. MaxTasks] /\ tasks \in Seq(1 .. MaxTasks)
        /\ pushed \in Nat /\ MaxTasks \in Nat
    BY ZeroAssumption DEF PoolIndInv, TypeOK, Working
  <1>2. CASE TasksKept
    BY <1>2 DEF TasksKept, Queue!tqVars
  <1>3. CASE Pushes
    <2>1. Len(tasks) < MaxTasks
      BY <1>1, <1>3 DEF Pushes, Ledger, QueueInOrder
    <2>2. Queue!Accept
      BY <1>3, <2>1 DEF Pushes, Queue!Accept
    <2> QED
      BY <2>2 DEF Queue!TQNext
  <1>4. ASSUME NEW w \in Workers, Takes(w) PROVE Queue!TQNext
    <2>1. Held' = Held \cup {Head(tasks)}
      BY <1>1, <1>4 DEF Takes, Pop, Held
    <2>2. Queue!Start
      BY <1>4, <2>1 DEF Takes, Pop, Held, Queue!Start
    <2> QED
      BY <2>2 DEF Queue!TQNext
  <1>5. ASSUME NEW w \in Workers, Ends(w) PROVE Queue!TQNext
    <2>1. Held' = Held \ {held[w]} /\ held[w] \in Held
      BY <1>1, <1>5 DEF Ends, Held, Ledger, TakenOnce
    <2>2. ended' \cup expired' = ended \cup expired \cup {held[w]}
      BY <1>5 DEF Ends
    <2>3. UNCHANGED <<tasks, pushed>>
      BY <1>5 DEF Ends
    <2>4. Queue!Finish(held[w])
      BY <2>1, <2>2, <2>3 DEF Held, Queue!Finish
    <2>5. \E t \in Held : Queue!Finish(t)
      BY <2>1, <2>4 DEF Queue!Finish
    <2> QED
      BY <2>5 DEF Held, Queue!TQNext
  <1> QED
    BY <1>1, <1>2, <1>3, <1>4, <1>5, TaskEffect

\* Lines 52-94: the pool implements the first-in first-out queue that starts
\* and ends each task at most once, across any number of stops and starts.
THEOREM PoolImplementsTaskQueue == Spec => ImplementsTaskQueue
  <1>1. Init => Queue!TQInit
    BY DEF Init, Working, Queue!TQInit
  <1>2. PoolIndInv /\ [Next]_vars => [Queue!TQNext]_Queue!tqVars
    BY ImplementsNext
  <1> QED
    BY <1>1, <1>2, PoolInductive, PTL DEF Spec, Queue!TQSpec, ImplementsTaskQueue
=============================================================================
