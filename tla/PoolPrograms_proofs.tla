------------------------ MODULE PoolPrograms_proofs ------------------------
(***************************************************************************)
(* Proofs about the pool of pthreadpool2.cpp under any callers, and about  *)
(* the demos and the servers over their pools, for every size of a pool,   *)
(* of its ring and of the set of producers.                                *)
(*                                                                         *)
(* The first part speaks of Spec, ThreadPool's specification, the second,  *)
(* from "The older pools" on, of ProgramSpec; the second uses what the     *)
(* first shows of the actions they share.                                  *)
(***************************************************************************)
EXTENDS PoolPrograms, FiniteSetTheorems, SequenceTheorems, TLAPS

-----------------------------------------------------------------------------
(* Arithmetic of the ring *)

\* A remainder by queueCapacity is an index of the ring.
LEMMA ModIsCell == \A a \in Nat : a % queueCapacity \in Cells
  BY PoolAssumption, SMTT(30) DEF Cells

\* queueFront and queueRear stay indices of the ring when they move on.
LEMMA NextCell == \A a \in Cells : (a + 1) % queueCapacity \in Cells
  <1>1. \A a \in Cells : a + 1 \in Nat
    BY PoolAssumption DEF Cells
  <1> QED
    BY <1>1, ModIsCell
-----------------------------------------------------------------------------
(* Types *)

\* While the manager is in its signal loop there is a signal left to send.
SignalsLeft == mpc = "signal" => toSignal > 0

TypeInv == TypeOK /\ SignalsLeft

\* The threads Grow creates fit below maxNum.
LEMMA GrowFits ==
  ASSUME NEW free \in SUBSET Slots, NEW new \in SUBSET free, liveNum \in minNum .. maxNum,
         Cardinality(new) = Least(Least(NUMBER, maxNum - liveNum), Cardinality(free))
  PROVE  liveNum + Cardinality(new) \in minNum .. maxNum
  <1>1. IsFiniteSet(Slots)
    BY PoolAssumption, FS_Interval DEF Slots
  <1>2. Cardinality(new) \in Nat
    BY <1>1, FS_Subset, FS_CardinalityType
  <1>3. Cardinality(free) \in Nat
    BY <1>1, FS_Subset, FS_CardinalityType
  <1> QED
    BY <1>2, <1>3, PoolAssumption DEF Least, NUMBER

\* threadPoolCreate establishes the types.
LEMMA TypeInvInit == Init => TypeInv
  <1> SUFFICES ASSUME Init PROVE TypeInv
    OBVIOUS
  <1> USE DEF Init
  <1>1. taskQ \in [Cells -> Nat] /\ 0 \in Cells
    BY PoolAssumption DEF Cells
  <1>2. wpc \in [Slots -> PoolStates] /\ taskOf \in [Slots -> Nat]
    BY DEF PoolStates
  <1>3. ppc \in [Producers -> ProducerStates]
    BY DEF ProducerStates
  <1>4. liveNum \in minNum .. maxNum /\ queueSize \in 0 .. queueCapacity
    BY PoolAssumption
  <1>5. snap \in [queueSize : Nat, liveNum : Nat, busyNum : Int]
    BY DEF NoSnap
  <1>6. shutdown \in BOOLEAN
    BY Zenon
  <1>7. mpc \in ManagerStates /\ dpc \in DestroyStates /\ mpc # "signal"
    BY DEF ManagerStates, DestroyStates
  <1> QED
    BY <1>1, <1>2, <1>3, <1>4, <1>5, <1>6, <1>7
    DEF TypeInv, TypeOK, SignalsLeft, NUMBER

\* Signalling notEmpty keeps the workers' places well typed.
LEMMA SignalNotEmptyType ==
  ASSUME wpc \in [Slots -> PoolStates], SignalNotEmpty
  PROVE  wpc' \in [Slots -> PoolStates]
  BY DEF SignalNotEmpty, Blocked, PoolStates

\* Signalling notFull keeps the producers' places well typed.
LEMMA SignalNotFullType ==
  ASSUME ppc \in [Producers -> ProducerStates], SignalNotFull
  PROVE  ppc' \in [Producers -> ProducerStates]
  BY DEF SignalNotFull, BlockedProducers, ProducerStates

\* What a producer does with the mutex held keeps the types.
LEMMA TestNotFullType ==
  ASSUME TypeInv, NEW p \in Producers, TestNotFull(p), UNCHANGED addFrame
  PROVE  TypeInv'
  <1> USE DEF TypeInv, TypeOK, SignalsLeft
  <1>1. ppc' \in [Producers -> ProducerStates]
    BY DEF TestNotFull, Enqueue, ProducerStates
  <1>2. CASE UNCHANGED <<queueVars, wpc, accepted>>
    BY <1>1, <1>2 DEF queueVars, addFrame, counterVars, managerVars, destroyVars
  <1>3. CASE queueSize # queueCapacity /\ Enqueue(p)
    <2>1. (queueRear + 1) % queueCapacity \in Cells
      BY NextCell
    <2>2. wpc' \in [Slots -> PoolStates]
      BY <1>3, SignalNotEmptyType DEF Enqueue
    <2> QED
      BY <1>1, <1>3, <2>1, <2>2, PoolAssumption
      DEF Enqueue, addFrame, counterVars, managerVars, destroyVars
  <1> QED
    BY <1>2, <1>3 DEF TestNotFull

\* What a worker does with the mutex held keeps the types; the caller accounts
\* for exitNum.
LEMMA TestNotEmptyType ==
  ASSUME TypeInv, NEW w \in Slots, TestNotEmpty(w), exitNum' \in 0 .. NUMBER,
         UNCHANGED <<liveNum, busyNum, completed, workerFrame>>
  PROVE  TypeInv'
  <1> USE DEF TypeInv, TypeOK, SignalsLeft
  <1>1. wpc' \in [Slots -> PoolStates]
    BY DEF TestNotEmpty, Dequeue, PoolStates
  <1>2. CASE UNCHANGED <<queueVars, taskOf, ppc, taken>>
    BY <1>1, <1>2 DEF queueVars, workerFrame, managerVars, destroyVars
  <1>3. CASE queueSize # 0 /\ Dequeue(w)
    <2>1. (queueFront + 1) % queueCapacity \in Cells
      BY NextCell
    <2>2. ppc' \in [Producers -> ProducerStates]
      BY <1>3, SignalNotFullType DEF Dequeue
    <2> QED
      BY <1>1, <1>3, <2>1, <2>2, PoolAssumption
      DEF Dequeue, workerFrame, managerVars, destroyVars
  <1> QED
    BY <1>2, <1>3 DEF TestNotEmpty

\* Every step of every thread keeps the types.
LEMMA TypeInvNext == TypeInv /\ [Next]_vars => TypeInv'
  <1> SUFFICES ASSUME TypeInv, [Next]_vars PROVE TypeInv'
    OBVIOUS
  <1> USE DEF TypeInv, TypeOK, SignalsLeft
  <1>1. ASSUME NEW w \in Slots, Worker(w) PROVE TypeInv'
    <2> USE DEF queueVars, counterVars, managerVars, destroyVars, workerFrame
    <2>1. CASE Acquire(w)
      BY <2>1, TestNotEmptyType DEF Acquire
    <2>2. CASE CondWait(w)
      BY <2>2 DEF CondWait, PoolStates
    <2>3. CASE WakeExits(w)
      BY <2>3, PoolAssumption DEF WakeExits, PoolStates, NUMBER
    <2>4. CASE WakeStays(w)
      <3>1. exitNum' \in 0 .. NUMBER
        BY <2>4 DEF WakeStays, NUMBER
      <3> QED
        BY <2>4, <3>1, TestNotEmptyType DEF WakeStays
    <2>5. CASE BeginTask(w)
      BY <2>5 DEF BeginTask, PoolStates
    <2>6. CASE RunTask(w)
      BY <2>6 DEF RunTask, PoolStates
    <2>7. CASE EndTask(w)
      BY <2>7 DEF EndTask, PoolStates
    <2>8. CASE threadExit(w)
      BY <2>8 DEF threadExit, PoolStates
    <2> QED
      BY <1>1, <2>1, <2>2, <2>3, <2>4, <2>5, <2>6, <2>7, <2>8 DEF Worker
  <1>2. ASSUME NEW p \in Producers, Producer(p) PROVE TypeInv'
    BY <1>2, TestNotFullType DEF Producer, Add, AddResume
  <1>3. CASE Manager
    <2> USE DEF managerFrame, queueVars, destroyVars, historyVars, ManagerStates
    <2>1. CASE ManagerLoop
      BY <2>1 DEF ManagerLoop
    <2>2. CASE ReadPool
      <3>1. queueSize \in Nat /\ liveNum \in Nat
        BY PoolAssumption
      <3>2. snap' \in [queueSize : Nat, liveNum : Nat, busyNum : Int]
        BY <2>2, <3>1 DEF ReadPool
      <3> QED
        BY <2>2, <3>2 DEF ReadPool
    <2>3. CASE ReadBusy
      BY <2>3 DEF ReadBusy
    <2>4. CASE Grow
      <3>1. liveNum' \in minNum .. maxNum
        BY <2>4, GrowFits DEF Grow, CreateWorkers
      <3>2. wpc' \in [Slots -> PoolStates]
        BY <2>4 DEF Grow, CreateWorkers, PoolStates
      <3> QED
        BY <2>4, <3>1, <3>2 DEF Grow, CreateWorkers
    <2>5. CASE SkipGrow
      BY <2>5 DEF SkipGrow
    <2>6. CASE Shrink
      BY <2>6 DEF Shrink, NUMBER, NoSnap
    <2>7. CASE SkipShrink
      BY <2>7 DEF SkipShrink, NoSnap
    <2>8. CASE SignalExit
      <3>1. wpc' \in [Slots -> PoolStates]
        BY <2>8, SignalNotEmptyType DEF SignalExit
      <3> QED
        BY <2>8, <3>1 DEF SignalExit, NUMBER
    <2> QED
      BY <1>3, <2>1, <2>2, <2>3, <2>4, <2>5, <2>6, <2>7, <2>8 DEF Manager
  <1>4. CASE Destroyer
    <2>1. wpc' \in [Slots -> PoolStates]
      BY <1>4, SignalNotEmptyType
      DEF Destroyer, Shutdown, JoinManager, WakeConsumer, Free
    <2>2. shutdown' \in BOOLEAN
      BY <1>4 DEF Destroyer, Shutdown, JoinManager, WakeConsumer, Free
    <2>3. dpc' \in DestroyStates
      BY <1>4
      DEF Destroyer, Shutdown, JoinManager, WakeConsumer, Free, DestroyStates
    <2>4. dsig' \in Nat
      BY <1>4 DEF Destroyer, Shutdown, JoinManager, WakeConsumer, Free
    <2>5. UNCHANGED destroyFrame
      BY <1>4 DEF Destroyer, Shutdown, JoinManager, WakeConsumer, Free
    <2> QED
      BY <2>1, <2>2, <2>3, <2>4, <2>5
      DEF destroyFrame, queueVars, counterVars, managerVars, historyVars
  <1>5. CASE SpuriousWakeup
    BY <1>5
    DEF SpuriousWakeup, Blocked, BlockedProducers, PoolStates, ProducerStates,
        queueVars, counterVars, managerVars, destroyVars, historyVars
  <1>6. CASE UNCHANGED vars
    BY <1>6
    DEF vars, queueVars, counterVars, managerVars, destroyVars, historyVars
  <1> QED
    BY <1>1, <1>2, <1>3, <1>4, <1>5, <1>6 DEF Next

\* The types, with what the manager's signal loop keeps, hold in every
\* reachable state.
THEOREM TypeInvariant == Spec => []TypeInv
  BY TypeInvInit, TypeInvNext, PTL DEF Spec

\* The ring indices, liveNum and every other variable keep their types,
\* whatever the sizes: liveNum never leaves minNum .. maxNum and queueSize
\* never passes queueCapacity.
THEOREM TypeCorrect == Spec => []TypeOK
  <1>1. TypeInv => TypeOK
    BY DEF TypeInv
  <1> QED
    BY <1>1, TypeInvariant, PTL
-----------------------------------------------------------------------------
(* What a step does to the tasks: one of four effects, or none.  It is said   *)
(* of the variables managers and destroyers do not keep for themselves, so    *)
(* that it holds of the other pools' managers as well.                        *)

PoolTypes ==
  /\ taskQ \in [Cells -> Nat]
  /\ queueSize \in 0 .. queueCapacity /\ queueFront \in Cells /\ queueRear \in Cells
  /\ liveNum \in Nat /\ busyNum \in Int /\ shutdown \in BOOLEAN
  /\ wpc \in [Slots -> PoolStates] /\ taskOf \in [Slots -> Nat]
  /\ ppc \in [Producers -> ProducerStates]
  /\ accepted \in Nat /\ taken \in Nat /\ completed \subseteq Nat

\* The types of the pool are more than that.
LEMMA TypesOfPool == TypeOK => PoolTypes
  BY PoolAssumption DEF TypeOK, PoolTypes

taskVars == <<queueVars, shutdown, accepted, taken, completed, taskOf>>

AddsTask(p) ==
  /\ queueSize # queueCapacity /\ ~shutdown /\ Enqueue(p)
  /\ UNCHANGED <<shutdown, taken, completed, taskOf, Holding>>

TakesTask(w) ==
  /\ wpc[w] \in {"ready", "woken"}
  /\ queueSize # 0 /\ ~shutdown /\ Dequeue(w)
  /\ UNCHANGED <<shutdown, accepted, completed>>

LeavesTasks == UNCHANGED <<taskVars, Holding>>

\* Waking a worker changes nobody's task.
LEMMA SignalKeepsHolding ==
  ASSUME wpc \in [Slots -> PoolStates], SignalNotEmpty
  PROVE  Holding' = Holding
  BY DEF SignalNotEmpty, Blocked, Holding, PoolStates

\* A producer that has looked at the queue has added a task or left the tasks
\* alone.
LEMMA TestNotFullEffect ==
  ASSUME PoolTypes, NEW p \in Producers, TestNotFull(p), UNCHANGED addFrame
  PROVE  AddsTask(p) \/ LeavesTasks
  <1>1. CASE UNCHANGED <<queueVars, wpc, accepted>>
    BY <1>1 DEF LeavesTasks, taskVars, Holding, addFrame, destroyVars
  <1>2. CASE queueSize # queueCapacity /\ ~shutdown /\ Enqueue(p)
    <2>1. Holding' = Holding
      BY <1>2, SignalKeepsHolding DEF Enqueue, PoolTypes
    <2> QED
      BY <1>2, <2>1 DEF AddsTask, addFrame, destroyVars
  <1> QED
    BY <1>1, <1>2 DEF TestNotFull

\* A worker that has looked at the queue has taken a task or left the tasks
\* alone.
LEMMA TestNotEmptyEffect ==
  ASSUME PoolTypes, NEW w \in Slots, wpc[w] \in {"ready", "woken"},
         TestNotEmpty(w), UNCHANGED <<completed, workerFrame>>
  PROVE  TakesTask(w) \/ LeavesTasks
  <1>1. CASE UNCHANGED <<queueVars, taskOf, taken>>
             /\ \/ wpc' = [wpc EXCEPT ![w] = "blocking"]
                \/ wpc' = [wpc EXCEPT ![w] = "exiting"]
    BY <1>1 DEF LeavesTasks, taskVars, Holding, workerFrame, destroyVars, PoolTypes
  <1>2. CASE queueSize # 0 /\ ~shutdown /\ Dequeue(w)
    BY <1>2 DEF TakesTask, workerFrame, destroyVars
  <1> QED
    BY <1>1, <1>2 DEF TestNotEmpty

\* All that a worker may do to the tasks.
LEMMA WorkerEffect ==
  ASSUME PoolTypes, NEW w \in Slots, Worker(w)
  PROVE  TakesTask(w) \/ RunTask(w) \/ LeavesTasks
  <1>1. CASE Acquire(w)
    BY <1>1, TestNotEmptyEffect DEF Acquire, At
  <1>2. CASE WakeStays(w)
    BY <1>2, TestNotEmptyEffect DEF WakeStays, At
  <1>3. CASE CondWait(w) \/ WakeExits(w) \/ BeginTask(w) \/ EndTask(w) \/ threadExit(w)
    BY <1>3
    DEF CondWait, WakeExits, BeginTask, EndTask, threadExit, At, LeavesTasks,
        taskVars, Holding, workerFrame, destroyVars, counterVars, PoolTypes
  <1> QED
    BY <1>1, <1>2, <1>3 DEF Worker

\* To start workers: some free slots get one.
StartsWorkers ==
  \E new \in SUBSET {i \in Slots : wpc[i] = "none"} :
    /\ wpc' = [i \in Slots |-> IF i \in new THEN "ready" ELSE wpc[i]]
    /\ liveNum' = liveNum + Cardinality(new)

\* What any manager does: it starts workers, or wakes one, or none of this.
ManagerMove ==
  /\ UNCHANGED managerFrame
  /\ \/ StartsWorkers
     \/ UNCHANGED liveNum /\ (SignalNotEmpty \/ UNCHANGED wpc)

\* The manager of pthreadpool2.cpp does.
LEMMA ManagerMoves == Manager => ManagerMove
  <1>1. CASE Grow
    BY <1>1 DEF Grow, CreateWorkers, StartsWorkers, ManagerMove
  <1>2. ASSUME Manager, ~Grow PROVE ManagerMove
    BY <1>2
    DEF Manager, ManagerLoop, ReadPool, ReadBusy, SkipGrow, Shrink, SkipShrink, SignalExit,
        ManagerMove
  <1> QED
    BY <1>1, <1>2

\* A manager leaves the tasks alone.
LEMMA ManagerEffect == ASSUME PoolTypes, ManagerMove PROVE LeavesTasks
  <1>1. UNCHANGED taskVars
    BY DEF ManagerMove, managerFrame, taskVars, destroyVars, historyVars
  <1>2. CASE StartsWorkers
    BY <1>1, <1>2 DEF StartsWorkers, Holding, PoolTypes, LeavesTasks
  <1>3. CASE SignalNotEmpty
    BY <1>1, <1>3, SignalKeepsHolding DEF PoolTypes, LeavesTasks
  <1>4. CASE UNCHANGED wpc
    BY <1>1, <1>4 DEF Holding, LeavesTasks
  <1> QED
    BY <1>2, <1>3, <1>4 DEF ManagerMove

\* A destroyer shuts down or leaves the tasks alone.
LEMMA DestroyerEffect ==
  ASSUME PoolTypes, Destroyer
  PROVE  (Shutdown /\ UNCHANGED Holding) \/ LeavesTasks
  <1>1. Holding' = Holding
    BY SignalKeepsHolding
    DEF Destroyer, Shutdown, JoinManager, WakeConsumer, Free, Holding, PoolTypes
  <1> QED
    BY <1>1
    DEF Destroyer, Shutdown, JoinManager, WakeConsumer, Free, destroyFrame,
        LeavesTasks, taskVars, historyVars

TaskEffect ==
  \/ \E p \in Producers : AddsTask(p)
  \/ \E w \in Slots : TakesTask(w) \/ RunTask(w)
  \/ Shutdown /\ UNCHANGED Holding
  \/ LeavesTasks

\* To the tasks, a step of any thread is one of five: adding, taking, running,
\* shutting down, or nothing.
LEMMA StepEffect == ASSUME TypeOK, [Next]_vars PROVE TaskEffect
  <1>0. PoolTypes
    BY TypesOfPool
  <1>1. ASSUME NEW p \in Producers, Producer(p)
        PROVE  AddsTask(p) \/ LeavesTasks
    BY <1>0, <1>1, TestNotFullEffect DEF Producer, Add, AddResume
  <1>2. ASSUME SpuriousWakeup PROVE LeavesTasks
    BY <1>2
    DEF SpuriousWakeup, Blocked, Holding, LeavesTasks, taskVars, destroyVars,
        historyVars, TypeOK
  <1>3. ASSUME UNCHANGED vars PROVE LeavesTasks
    BY <1>3 DEF vars, taskVars, historyVars, destroyVars, Holding, LeavesTasks
  <1> QED
    BY <1>0, <1>1, <1>2, <1>3, WorkerEffect, ManagerMoves, ManagerEffect, DestroyerEffect
    DEF Next, TaskEffect
-----------------------------------------------------------------------------
(* The ring holds the accepted tasks in order *)

\* An index below twice the capacity wraps around once.
LEMMA WrapOnce ==
  ASSUME NEW c \in Nat \ {0}, NEW f \in Nat, NEW i \in Nat, f + i < 2 * c
  PROVE  (f + i) % c = IF f + i < c THEN f + i ELSE f + i - c
  BY SMTT(30)

\* The same for a cell of the ring and an offset into it.
LEMMA RingCell ==
  ASSUME NEW f \in Cells, NEW i \in 0 .. queueCapacity
  PROVE  (f + i) % queueCapacity =
           IF f + i < queueCapacity THEN f + i ELSE f + i - queueCapacity
  <1>1. /\ f \in Nat /\ i \in Nat /\ queueCapacity \in Nat \ {0}
        /\ f + i < 2 * queueCapacity
    BY PoolAssumption DEF Cells
  <1> QED
    BY <1>1, WrapOnce

\* Lines 158-161 keep the ring a queue.
LEMMA EnqueueKeepsRing ==
  ASSUME PoolTypes, RingIsFifo, NEW p \in Producers, AddsTask(p)
  PROVE  RingIsFifo'
  <1> USE DEF AddsTask, Enqueue
  <1>1. queueSize \in 0 .. queueCapacity - 1 /\ queueFront \in Cells /\ queueRear \in Cells
    BY PoolAssumption DEF PoolTypes
  <1>2. queueRear = IF queueFront + queueSize < queueCapacity
                    THEN queueFront + queueSize
                    ELSE queueFront + queueSize - queueCapacity
    BY <1>1, RingCell DEF RingIsFifo, PoolTypes
  <1>3. queueRear' = (queueFront' + queueSize') % queueCapacity
    <2>1. queueRear' = IF queueRear + 1 < queueCapacity
                       THEN queueRear + 1 ELSE queueRear + 1 - queueCapacity
      BY <1>1, RingCell, PoolAssumption
    <2>2. (queueFront + (queueSize + 1)) % queueCapacity =
            IF queueFront + (queueSize + 1) < queueCapacity
            THEN queueFront + (queueSize + 1)
            ELSE queueFront + (queueSize + 1) - queueCapacity
      BY <1>1, RingCell, PoolAssumption
    <2> QED
      BY <1>1, <1>2, <2>1, <2>2, PoolAssumption DEF Cells
  <1>4. ASSUME NEW i \in 0 .. queueSize' - 1
        PROVE  taskQ'[(queueFront' + i) % queueCapacity] = taken' + i + 1
    <2> DEFINE cell == IF queueFront + i < queueCapacity
                       THEN queueFront + i ELSE queueFront + i - queueCapacity
    <2>1. i \in 0 .. queueSize /\ i \in 0 .. queueCapacity
      BY <1>1, <1>4, PoolAssumption
    <2>2. (queueFront' + i) % queueCapacity = cell
      BY <1>1, <2>1, RingCell
    <2>3. cell \in Cells
      BY <1>1, <2>1, PoolAssumption DEF Cells
    <2>4. CASE i = queueSize
      BY <1>1, <1>2, <2>2, <2>4, PoolAssumption DEF RingIsFifo, PoolTypes
    <2>5. CASE i # queueSize
      <3>1. i \in 0 .. queueSize - 1
        BY <2>1, <2>5, <1>1
      <3>2. cell # queueRear
        BY <1>1, <1>2, <3>1, PoolAssumption DEF Cells
      <3>3. taskQ[cell] = taken + i + 1
        BY <2>2, <3>1 DEF RingIsFifo
      <3> QED
        BY <1>1, <2>2, <2>3, <3>2, <3>3 DEF PoolTypes
    <2> QED
      BY <2>4, <2>5
  <1>5. accepted' = taken' + queueSize'
    BY DEF RingIsFifo, PoolTypes
  <1> QED
    BY <1>3, <1>4, <1>5 DEF RingIsFifo

\* Lines 217-222 keep the ring a queue.
LEMMA DequeueKeepsRing ==
  ASSUME PoolTypes, RingIsFifo, NEW w \in Slots, TakesTask(w)
  PROVE  RingIsFifo'
  <1> USE DEF TakesTask, Dequeue
  <1>1. queueSize \in 1 .. queueCapacity /\ queueFront \in Cells
    BY PoolAssumption DEF PoolTypes
  <1>2. queueFront' \in Cells
    BY <1>1, NextCell
  <1>3. \A i \in 0 .. queueSize' :
          (queueFront' + i) % queueCapacity = (queueFront + (i + 1)) % queueCapacity
    <2>1. queueFront' = IF queueFront + 1 < queueCapacity
                        THEN queueFront + 1 ELSE queueFront + 1 - queueCapacity
      BY <1>1, RingCell, PoolAssumption
    <2>2. TAKE i \in 0 .. queueSize'
    <2>3. i \in 0 .. queueCapacity /\ i + 1 \in 0 .. queueCapacity
      BY <1>1, PoolAssumption
    <2>4. (queueFront' + i) % queueCapacity =
            IF queueFront' + i < queueCapacity
            THEN queueFront' + i ELSE queueFront' + i - queueCapacity
      BY <1>2, <2>3, RingCell
    <2>5. (queueFront + (i + 1)) % queueCapacity =
            IF queueFront + (i + 1) < queueCapacity
            THEN queueFront + (i + 1) ELSE queueFront + (i + 1) - queueCapacity
      BY <1>1, <2>3, RingCell
    <2> QED
      BY <1>1, <2>1, <2>3, <2>4, <2>5, PoolAssumption DEF Cells
  <1>4. queueRear' = (queueFront' + queueSize') % queueCapacity
    BY <1>1, <1>3 DEF RingIsFifo
  <1>5. ASSUME NEW i \in 0 .. queueSize' - 1
        PROVE  taskQ'[(queueFront' + i) % queueCapacity] = taken' + i + 1
    <2>1. i + 1 \in 0 .. queueSize - 1 /\ i \in 0 .. queueSize'
      BY <1>1, <1>5
    <2>2. taskQ[(queueFront + (i + 1)) % queueCapacity] = taken + (i + 1) + 1
      BY <2>1 DEF RingIsFifo
    <2> QED
      BY <1>3, <2>1, <2>2 DEF PoolTypes
  <1>6. accepted' = taken' + queueSize'
    BY <1>1 DEF RingIsFifo, PoolTypes
  <1> QED
    BY <1>4, <1>5, <1>6 DEF RingIsFifo

\* The empty ring is an empty queue.
LEMMA RingInit == Init => RingIsFifo
  <1> SUFFICES ASSUME Init PROVE RingIsFifo
    OBVIOUS
  <1>1. (0 + 0) % queueCapacity = 0
    BY PoolAssumption, SMTT(30)
  <1> QED
    BY <1>1 DEF Init, RingIsFifo

\* What any thread does to the tasks keeps the ring a queue.
LEMMA RingKept == ASSUME PoolTypes, RingIsFifo, TaskEffect PROVE RingIsFifo'
  <1>1. CASE UNCHANGED <<queueVars, accepted, taken>>
    BY <1>1 DEF RingIsFifo, queueVars
  <1>2. ASSUME NEW w \in Slots, RunTask(w) PROVE UNCHANGED <<queueVars, accepted, taken>>
    BY <1>2 DEF RunTask, workerFrame
  <1>3. ASSUME Shutdown PROVE UNCHANGED <<queueVars, accepted, taken>>
    BY <1>3 DEF Shutdown, destroyFrame, historyVars
  <1>4. ASSUME LeavesTasks PROVE UNCHANGED <<queueVars, accepted, taken>>
    BY <1>4 DEF LeavesTasks, taskVars
  <1> QED
    BY <1>1, <1>2, <1>3, <1>4, EnqueueKeepsRing, DequeueKeepsRing DEF TaskEffect

\* Every step of every thread keeps the ring a queue.
LEMMA RingNext == TypeOK /\ RingIsFifo /\ [Next]_vars => RingIsFifo'
  BY TypesOfPool, StepEffect, RingKept

\* Whatever the producers and the workers do, the ring is the queue of the
\* accepted tasks nobody has taken, oldest first.
THEOREM RingCorrect == Spec => []RingIsFifo
  BY TypeCorrect, RingInit, RingNext, PTL DEF Spec
-----------------------------------------------------------------------------
(* Every task runs once *)

\* The cell at queueFront holds the oldest task that was not taken.
LEMMA HeadOfRing ==
  ASSUME PoolTypes, RingIsFifo, queueSize # 0
  PROVE  taskQ[queueFront] = taken + 1
  <1>1. queueSize \in 1 .. queueCapacity /\ queueFront \in Cells /\ 0 \in 0 .. queueSize - 1
    BY PoolAssumption DEF PoolTypes
  <1>2. (queueFront + 0) % queueCapacity = queueFront
    <2>1. 0 \in 0 .. queueCapacity
      BY PoolAssumption
    <2>2. (queueFront + 0) % queueCapacity =
            IF queueFront + 0 < queueCapacity
            THEN queueFront + 0 ELSE queueFront + 0 - queueCapacity
      BY <1>1, <2>1, RingCell, Zenon
    <2> QED
      BY <1>1, <2>2, PoolAssumption DEF Cells
  <1>3. \A i \in 0 .. queueSize - 1 :
          taskQ[(queueFront + i) % queueCapacity] = taken + i + 1
    BY DEF RingIsFifo
  <1>4. taskQ[(queueFront + 0) % queueCapacity] = taken + 0 + 1
    BY <1>1, <1>3, Zenon
  <1> QED
    BY <1>2, <1>4 DEF PoolTypes

\* A worker that takes a task held none.
LEMMA TakesHolding ==
  ASSUME PoolTypes, NEW w \in Slots, TakesTask(w)
  PROVE  Holding' = Holding \cup {w} /\ w \notin Holding
  BY DEF TakesTask, Dequeue, Holding, PoolTypes

\* A worker that has run its task holds none.
LEMMA RunHolding ==
  ASSUME PoolTypes, NEW w \in Slots, RunTask(w)
  PROVE  Holding' = Holding \ {w} /\ w \in Holding
  BY DEF RunTask, At, Holding, PoolTypes

\* At the start no task was taken.
LEMMA OnceInit == Init => EachTaskOnce
  <1> SUFFICES ASSUME Init PROVE EachTaskOnce
    OBVIOUS
  <1>1. Holding = {}
    BY DEF Init, Holding
  <1>2. {taskOf[w] : w \in Holding} = {} /\ completed = {} /\ 1 .. taken = {}
    BY <1>1 DEF Init
  <1> QED
    BY <1>1, <1>2 DEF EachTaskOnce

\* What any thread does keeps tasks with one worker each, or completed.
LEMMA OnceKept ==
  ASSUME PoolTypes, RingIsFifo, EachTaskOnce, TaskEffect
  PROVE  EachTaskOnce'
  <1>1. ASSUME UNCHANGED <<completed, taskOf, taken, Holding>> PROVE EachTaskOnce'
    BY <1>1 DEF EachTaskOnce
  <1>2. ASSUME NEW p \in Producers, AddsTask(p) PROVE EachTaskOnce'
    BY <1>1, <1>2 DEF AddsTask
  <1>3. ASSUME NEW w \in Slots, TakesTask(w) PROVE EachTaskOnce'
    <2>1. taskOf' = [taskOf EXCEPT ![w] = taken + 1] /\ taken' = taken + 1
      BY <1>3, HeadOfRing DEF TakesTask, Dequeue
    <2>2. Holding' = Holding \cup {w} /\ w \notin Holding /\ Holding \subseteq Slots
      BY <1>3, TakesHolding DEF Holding
    <2>3. \A v \in Holding : taskOf'[v] = taskOf[v] /\ taskOf[v] \in 1 .. taken
      BY <2>1, <2>2 DEF EachTaskOnce, PoolTypes
    <2>4. taskOf'[w] = taken + 1 /\ completed' = completed /\ completed \subseteq 1 .. taken
      BY <1>3, <2>1 DEF EachTaskOnce, PoolTypes, TakesTask
    <2>5. taken + 1 \notin 1 .. taken /\ 1 .. taken + 1 = (1 .. taken) \cup {taken + 1}
      BY DEF PoolTypes
    <2>6. completed' \cup {taskOf'[v] : v \in Holding'} = 1 .. taken'
      <3>1. {taskOf'[v] : v \in Holding'} = {taskOf[v] : v \in Holding} \cup {taken + 1}
        BY <2>2, <2>3, <2>4
      <3> QED
        BY <2>1, <2>4, <2>5, <3>1 DEF EachTaskOnce
    <2>7. \A v \in Holding' : taskOf'[v] \notin completed'
      BY <2>2, <2>3, <2>4, <2>5 DEF EachTaskOnce
    <2>8. \A u, v \in Holding' : taskOf'[u] = taskOf'[v] => u = v
      BY <2>2, <2>3, <2>4, <2>5 DEF EachTaskOnce
    <2> QED
      BY <2>6, <2>7, <2>8 DEF EachTaskOnce
  <1>4. ASSUME NEW w \in Slots, RunTask(w) PROVE EachTaskOnce'
    <2>1. /\ taskOf' = [taskOf EXCEPT ![w] = 0] /\ taken' = taken
          /\ completed' = completed \cup {taskOf[w]}
      BY <1>4 DEF RunTask
    <2>2. Holding' = Holding \ {w} /\ w \in Holding /\ Holding \subseteq Slots
      BY <1>4, RunHolding DEF Holding
    <2>3. \A v \in Holding' : taskOf'[v] = taskOf[v]
      BY <2>1, <2>2 DEF PoolTypes
    <2>4. {taskOf'[v] : v \in Holding'} = {taskOf[v] : v \in Holding'}
      BY <2>3
    <2>5. {taskOf[v] : v \in Holding} = {taskOf[v] : v \in Holding'} \cup {taskOf[w]}
      BY <2>2
    <2> QED
      BY <2>1, <2>2, <2>3, <2>4, <2>5 DEF EachTaskOnce
  <1>5. ASSUME Shutdown, UNCHANGED Holding PROVE EachTaskOnce'
    BY <1>1, <1>5 DEF Shutdown, destroyFrame, historyVars
  <1>6. ASSUME LeavesTasks PROVE EachTaskOnce'
    BY <1>1, <1>6 DEF LeavesTasks, taskVars
  <1> QED
    BY <1>2, <1>3, <1>4, <1>5, <1>6 DEF TaskEffect

\* Every step keeps tasks with one worker each, or completed.
LEMMA OnceNext ==
  TypeOK /\ RingIsFifo /\ EachTaskOnce /\ [Next]_vars => EachTaskOnce'
  BY TypesOfPool, StepEffect, OnceKept

\* Every task a worker took is held by exactly one worker or completed: it is
\* never lost and never run twice.
THEOREM TasksRunOnce == Spec => []EachTaskOnce
  BY TypeCorrect, RingCorrect, OnceInit, OnceNext, PTL DEF Spec
-----------------------------------------------------------------------------
(* The pool implements the queue of tasks *)

\* n consecutive task numbers after t.
Run(t, n) == [i \in 1 .. n |-> t + i]

\* A run of task numbers is a sequence.
LEMMA RunIsSeq ==
  ASSUME NEW t \in Nat, NEW n \in Nat
  PROVE  Run(t, n) \in Seq(Nat) /\ Len(Run(t, n)) = n
  BY DEF Run

\* The next task number makes a run longer.
LEMMA RunAppend ==
  ASSUME NEW t \in Nat, NEW n \in Nat
  PROVE  Append(Run(t, n), t + n + 1) = Run(t, n + 1)
  BY RunIsSeq DEF Run

\* Without its first number a run begins one later.
LEMMA RunTail ==
  ASSUME NEW t \in Nat, NEW n \in Nat, n # 0
  PROVE  /\ Run(t, n) # << >> /\ Head(Run(t, n)) = t + 1
         /\ Tail(Run(t, n)) = Run(t + 1, n - 1)
  <1>1. Run(t, n) # << >> /\ Head(Run(t, n)) = t + 1
    <2>1. Run(t, n) # << >>
      BY RunIsSeq
    <2>2. Head(Run(t, n)) = Run(t, n)[1]
      BY <2>1, RunIsSeq
    <2> QED
      BY <2>1, <2>2 DEF Run
  <1>2. /\ Tail(Run(t, n)) \in Seq(Nat) /\ Len(Tail(Run(t, n))) = n - 1
        /\ \A i \in 1 .. n - 1 : Tail(Run(t, n))[i] = Run(t, n)[i + 1]
    BY <1>1, RunIsSeq
  <1>3. \A i \in 1 .. n - 1 : Run(t, n)[i + 1] = Run(t + 1, n - 1)[i]
    BY DEF Run
  <1>4. Run(t + 1, n - 1) \in Seq(Nat) /\ Len(Run(t + 1, n - 1)) = n - 1
    BY RunIsSeq
  <1>5. Tail(Run(t, n)) = Run(t + 1, n - 1)
    BY <1>2, <1>3, <1>4, SeqEqual
  <1> QED
    BY <1>1, <1>5

\* The abstract queue is the run of the accepted tasks nobody has taken.
LEMMA QueuedIsRun ==
  PoolTypes /\ RingIsFifo => Queued = Run(taken, queueSize)
  <1> SUFFICES ASSUME PoolTypes, RingIsFifo,
                      NEW i \in 1 .. queueSize
               PROVE  taskQ[(queueFront + i - 1) % queueCapacity] = taken + i
    BY DEF Queued, Run
  <1>1. i - 1 \in 0 .. queueSize - 1
    BY DEF PoolTypes
  <1>2. taskQ[(queueFront + (i - 1)) % queueCapacity] = taken + (i - 1) + 1
    BY <1>1 DEF RingIsFifo
  <1>3. queueFront + (i - 1) = queueFront + i - 1 /\ taken + (i - 1) + 1 = taken + i
    BY PoolAssumption DEF PoolTypes, Cells
  <1> QED
    BY <1>2, <1>3

\* The pool begins as the abstract queue does.
LEMMA ImplementsInit == Init => TQ!TQInit
  <1> SUFFICES ASSUME Init PROVE TQ!TQInit
    OBVIOUS
  <1>1. Queued = << >>
    BY DEF Init, Queued
  <1>2. {taskOf[w] : w \in Holding} = {}
    BY DEF Init, Holding
  <1> QED
    BY <1>1, <1>2 DEF Init, TQ!TQInit

\* What any thread does to the tasks is a step of the abstract queue or changes
\* nothing of it.
LEMMA ImplementsStep ==
  ASSUME PoolTypes, RingIsFifo, EachTaskOnce, PoolTypes', RingIsFifo', TaskEffect
  PROVE  [TQ!TQNext]_TQ!tqVars
  <1>0. (PoolTypes /\ RingIsFifo => Queued = Run(taken, queueSize))'
    BY QueuedIsRun, PTL
  <1>a. Queued = Run(taken, queueSize)
    BY QueuedIsRun
  <1>b. Queued' = Run(taken', queueSize')
    BY <1>0 DEF Run
  <1>c. queueSize \in Nat /\ taken \in Nat /\ accepted = taken + queueSize
    BY PoolAssumption DEF PoolTypes, RingIsFifo
  <1>1. /\ Queued = Run(taken, queueSize) /\ Queued' = Run(taken', queueSize')
        /\ queueSize \in Nat /\ taken \in Nat /\ accepted = taken + queueSize
    BY <1>a, <1>b, <1>c
  <1>2. ASSUME NEW p \in Producers, AddsTask(p) PROVE TQ!Accept
    <2>1. Queued' = Append(Queued, accepted + 1)
      BY <1>1, <1>2, RunAppend DEF AddsTask, Enqueue
    <2>2. Len(Queued) < queueCapacity
      <3>1. queueSize < queueCapacity
        BY <1>2, PoolAssumption DEF AddsTask, PoolTypes
      <3>2. Len(Queued) = queueSize
        BY <1>1, RunIsSeq
      <3> QED
        BY <3>1, <3>2
    <2>3. UNCHANGED {taskOf[w] : w \in Holding}
      BY <1>2 DEF AddsTask
    <2> QED
      BY <1>2, <2>1, <2>2, <2>3 DEF AddsTask, Enqueue, TQ!Accept
  <1>3. ASSUME NEW w \in Slots, TakesTask(w) PROVE TQ!Start
    <2>1. taskOf' = [taskOf EXCEPT ![w] = taken + 1]
      BY <1>3, HeadOfRing DEF TakesTask, Dequeue
    <2>2. Holding' = Holding \cup {w} /\ w \notin Holding /\ Holding \subseteq Slots
      BY <1>3, TakesHolding DEF Holding
    <2>3. {taskOf'[v] : v \in Holding'} = {taskOf[v] : v \in Holding} \cup {taken + 1}
      BY <2>1, <2>2 DEF PoolTypes
    <2>4. Queued # << >> /\ Head(Queued) = taken + 1 /\ Tail(Queued) = Queued'
      BY <1>1, <1>3, RunTail DEF TakesTask, Dequeue
    <2> QED
      BY <1>3, <2>3, <2>4 DEF TakesTask, TQ!Start
  <1>4. ASSUME NEW w \in Slots, RunTask(w)
        PROVE  \E t \in {taskOf[v] : v \in Holding} : TQ!Finish(t)
    <2>1. taskOf' = [taskOf EXCEPT ![w] = 0] /\ completed' = completed \cup {taskOf[w]}
      BY <1>4 DEF RunTask
    <2>2. Holding' = Holding \ {w} /\ w \in Holding /\ Holding \subseteq Slots
      BY <1>4, RunHolding DEF Holding
    <2>3. {taskOf'[v] : v \in Holding'} = {taskOf[v] : v \in Holding} \ {taskOf[w]}
      BY <2>1, <2>2 DEF PoolTypes, EachTaskOnce
    <2>4. UNCHANGED <<queueVars, taken, accepted, shutdown>>
      BY <1>4 DEF RunTask, workerFrame, destroyVars
    <2>5. UNCHANGED Queued
      BY <1>1, <2>4 DEF queueVars
    <2>6. taskOf[w] \in {taskOf[v] : v \in Holding}
      BY <2>2
    <2>7. TQ!Finish(taskOf[w])
      BY <2>1, <2>3, <2>4, <2>5, <2>6 DEF TQ!Finish
    <2> QED
      BY <2>6, <2>7 DEF TQ!Finish
  <1>5. ASSUME Shutdown, UNCHANGED Holding, ~shutdown PROVE TQ!Close
    BY <1>1, <1>5 DEF Shutdown, destroyFrame, historyVars, queueVars, TQ!Close
  <1>6. ASSUME UNCHANGED <<taskVars, Holding>> PROVE UNCHANGED TQ!tqVars
    BY <1>1, <1>6 DEF taskVars, queueVars, TQ!tqVars
  <1>7. ASSUME Shutdown, UNCHANGED Holding, shutdown PROVE UNCHANGED TQ!tqVars
    BY <1>6, <1>7 DEF Shutdown, destroyFrame, historyVars, taskVars, PoolTypes
  <1> QED
    BY <1>2, <1>3, <1>4, <1>5, <1>6, <1>7 DEF TaskEffect, TQ!TQNext, LeavesTasks

\* The pool, with its manager and its destruction, implements the first-in
\* first-out bounded queue that runs each task at most once.
THEOREM PoolImplementsTaskQueue == Spec => ImplementsTaskQueue
  <1>1. TypeOK /\ RingIsFifo /\ EachTaskOnce /\ TypeOK' /\ RingIsFifo' /\ [Next]_vars
          => [TQ!TQNext]_TQ!tqVars
    <2> SUFFICES ASSUME TypeOK, RingIsFifo, EachTaskOnce, TypeOK', RingIsFifo', [Next]_vars
                 PROVE  [TQ!TQNext]_TQ!tqVars
      OBVIOUS
    <2>1. PoolTypes /\ TaskEffect
      BY TypesOfPool, StepEffect
    <2>2. (TypeOK => PoolTypes)'
      BY TypesOfPool, PTL
    <2> QED
      BY <2>1, <2>2, ImplementsStep
  <1> QED
    BY <1>1, TypeCorrect, RingCorrect, TasksRunOnce, ImplementsInit, PTL
    DEF Spec, TQ!TQSpec, ImplementsTaskQueue
-----------------------------------------------------------------------------
(* The counters *)

\* The slots are finite, so that workers can be counted.
LEMMA SlotsFinite ==
  /\ IsFiniteSet(Slots)
  /\ \A S \in SUBSET Slots : IsFiniteSet(S) /\ Cardinality(S) \in Nat
  <1>1. IsFiniteSet(Slots)
    BY PoolAssumption, FS_Interval DEF Slots
  <1> QED
    BY <1>1, FS_Subset, FS_CardinalityType

\* What a step may do to the workers that are counted: one leaves Live, one
\* enters or leaves Busy, some enter Live.
CountsKept == UNCHANGED <<Live, Busy, liveNum, busyNum>> /\ (shutdown => shutdown')
Leaves(w) ==
  /\ w \in Live /\ Live' = Live \ {w}
  /\ \/ shutdown /\ UNCHANGED liveNum
     \/ liveNum > minNum /\ liveNum' = liveNum - 1
  /\ UNCHANGED <<Busy, busyNum, shutdown>>
EntersBusy(w) ==
  /\ w \in Slots \ Busy /\ Busy' = Busy \cup {w} /\ busyNum' = busyNum + 1
  /\ UNCHANGED <<Live, liveNum, shutdown>>
LeavesBusy(w) ==
  /\ w \in Busy /\ Busy' = Busy \ {w} /\ busyNum' = busyNum - 1
  /\ UNCHANGED <<Live, liveNum, shutdown>>
Grows(new) ==
  /\ new \subseteq Slots /\ new \cap Live = {}
  /\ Live' = Live \cup new /\ liveNum' = liveNum + Cardinality(new)
  /\ UNCHANGED <<Busy, busyNum, shutdown>>

\* Waking a worker changes neither set.
LEMMA SignalKeepsCounted ==
  ASSUME wpc \in [Slots -> PoolStates], SignalNotEmpty
  PROVE  Live' = Live /\ Busy' = Busy
  BY DEF SignalNotEmpty, Blocked, Live, Busy, NoWorker, PoolStates

\* Looking at the queue, a worker stays alive or leaves because of shutdown.
LEMMA TestNotEmptyCounts ==
  ASSUME PoolTypes, NEW w \in Slots, wpc[w] \in {"ready", "woken"}, TestNotEmpty(w),
         UNCHANGED <<liveNum, busyNum, shutdown>>
  PROVE  CountsKept \/ Leaves(w)
  <1> USE DEF PoolTypes, Live, Busy, NoWorker
  <1>1. CASE wpc' = [wpc EXCEPT ![w] = "blocking"] \/ wpc' = [wpc EXCEPT ![w] = "taken"]
    BY <1>1 DEF CountsKept
  <1>2. CASE shutdown /\ wpc' = [wpc EXCEPT ![w] = "exiting"]
    BY <1>2 DEF Leaves
  <1> QED
    BY <1>1, <1>2 DEF TestNotEmpty, Dequeue

\* All that a worker may do to them.
LEMMA WorkerCounts ==
  ASSUME PoolTypes, NEW w \in Slots, Worker(w)
  PROVE  CountsKept \/ Leaves(w) \/ EntersBusy(w) \/ LeavesBusy(w)
  <1> USE DEF PoolTypes, workerFrame, destroyVars, counterVars, At
  <1>1. CASE Acquire(w)
    BY <1>1, TestNotEmptyCounts DEF Acquire
  <1>2. CASE WakeStays(w)
    BY <1>2, TestNotEmptyCounts DEF WakeStays
  <1>3. CASE CondWait(w)
    BY <1>3 DEF CondWait, CountsKept, Live, Busy, NoWorker
  <1>4. CASE WakeExits(w)
    BY <1>4 DEF WakeExits, Leaves, Live, Busy, NoWorker
  <1>5. CASE BeginTask(w)
    BY <1>5 DEF BeginTask, EntersBusy, Live, Busy, NoWorker
  <1>6. CASE RunTask(w)
    BY <1>6 DEF RunTask, CountsKept, Live, Busy, NoWorker
  <1>7. CASE EndTask(w)
    BY <1>7 DEF EndTask, LeavesBusy, Live, Busy, NoWorker
  <1>8. CASE threadExit(w)
    BY <1>8 DEF threadExit, CountsKept, Live, Busy, NoWorker
  <1> QED
    BY <1>1, <1>2, <1>3, <1>4, <1>5, <1>6, <1>7, <1>8 DEF Worker

\* Nothing is counted anew if at most a worker is woken.
LEMMA OthersCount ==
  ASSUME PoolTypes, UNCHANGED <<liveNum, busyNum>>, shutdown => shutdown',
         SignalNotEmpty \/ UNCHANGED wpc
  PROVE  CountsKept
  BY SignalKeepsCounted DEF PoolTypes, CountsKept, Live, Busy

\* A manager adds workers or leaves the counts alone.
LEMMA ManagerCounts ==
  ASSUME PoolTypes, ManagerMove
  PROVE  CountsKept \/ \E new \in SUBSET Slots : Grows(new)
  <1>1. CASE StartsWorkers
    <2>1. PICK new \in SUBSET {i \in Slots : wpc[i] = "none"} :
            /\ wpc' = [i \in Slots |-> IF i \in new THEN "ready" ELSE wpc[i]]
            /\ liveNum' = liveNum + Cardinality(new)
      BY <1>1 DEF StartsWorkers
    <2>2. Grows(new)
      BY <2>1
      DEF PoolTypes, ManagerMove, managerFrame, destroyVars, Grows, Live, Busy, NoWorker
    <2> QED
      BY <2>2
  <1>2. CASE UNCHANGED liveNum /\ (SignalNotEmpty \/ UNCHANGED wpc)
    BY <1>2, OthersCount DEF ManagerMove, managerFrame, destroyVars
  <1> QED
    BY <1>1, <1>2 DEF ManagerMove

CountEffect ==
  \/ CountsKept
  \/ \E w \in Slots : Leaves(w) \/ EntersBusy(w) \/ LeavesBusy(w)
  \/ \E new \in SUBSET Slots : Grows(new)

\* Every step of every thread does one of these.
LEMMA CountsEffect == ASSUME TypeOK, [Next]_vars PROVE CountEffect
  <1>0. PoolTypes
    BY TypesOfPool
  <1>1. ASSUME NEW p \in Producers, Producer(p) PROVE CountsKept
    BY <1>0, <1>1, OthersCount
    DEF Producer, Add, AddResume, TestNotFull, Enqueue, addFrame, counterVars, destroyVars
  <1>2. CASE Destroyer
    BY <1>0, <1>2, OthersCount
    DEF Destroyer, Shutdown, JoinManager, WakeConsumer, Free, destroyFrame, counterVars,
        CountEffect
  <1>3. CASE SpuriousWakeup
    BY <1>3
    DEF TypeOK, SpuriousWakeup, CountsKept, Blocked, Live, Busy, NoWorker, counterVars,
        destroyVars, CountEffect
  <1>4. CASE UNCHANGED vars
    BY <1>0, <1>4, OthersCount DEF vars, counterVars, destroyVars, CountEffect
  <1> QED
    BY <1>0, <1>1, <1>2, <1>3, <1>4, WorkerCounts, ManagerMoves, ManagerCounts
    DEF Next, CountEffect

\* threadPoolCreate starts minNum threads.
LEMMA CountersInit == Init => CountersExact
  <1> SUFFICES ASSUME Init PROVE CountersExact
    OBVIOUS
  <1>1. Live = 0 .. minNum - 1
    BY PoolAssumption DEF Init, Live, NoWorker, Slots
  <1>2. Busy = {}
    BY DEF Init, Busy
  <1>3. Cardinality(Live) = minNum /\ minNum \in Nat
    <2>1. Cardinality(0 .. minNum - 1) = IF 0 > minNum - 1 THEN 0 ELSE minNum - 1 - 0 + 1
      BY PoolAssumption, FS_Interval
    <2> QED
      BY <1>1, <2>1, PoolAssumption
  <1>4. Cardinality(Busy) = 0
    BY <1>2, FS_EmptySet
  <1> QED
    BY <1>3, <1>4 DEF Init, CountersExact, LiveNumCounts, BusyNumCounts

\* Every such step moves a counter as it moves what is counted.
LEMMA CountersKept == ASSUME PoolTypes, CountersExact, CountEffect PROVE CountersExact'
  <1> USE DEF CountersExact, LiveNumCounts, BusyNumCounts
  <1>1. /\ IsFiniteSet(Live) /\ Cardinality(Live) \in Nat
        /\ IsFiniteSet(Busy) /\ Cardinality(Busy) \in Nat
        /\ liveNum \in Nat /\ shutdown \in BOOLEAN
    BY SlotsFinite DEF Live, Busy, PoolTypes
  <1>2. CASE CountsKept
    BY <1>1, <1>2 DEF CountsKept
  <1>3. ASSUME NEW w \in Slots, Leaves(w) PROVE CountersExact'
    <2>1. Cardinality(Live') = Cardinality(Live) - 1
      BY <1>1, <1>3, FS_RemoveElement DEF Leaves
    <2> QED
      BY <1>1, <1>3, <2>1 DEF Leaves
  <1>4. ASSUME NEW w \in Slots, EntersBusy(w) PROVE CountersExact'
    <2>1. Cardinality(Busy') = Cardinality(Busy) + 1
      BY <1>1, <1>4, FS_AddElement DEF EntersBusy
    <2> QED
      BY <1>1, <1>4, <2>1 DEF EntersBusy
  <1>5. ASSUME NEW w \in Slots, LeavesBusy(w) PROVE CountersExact'
    <2>1. Cardinality(Busy') = Cardinality(Busy) - 1
      BY <1>1, <1>5, FS_RemoveElement DEF LeavesBusy
    <2> QED
      BY <1>1, <1>5, <2>1 DEF LeavesBusy
  <1>6. ASSUME NEW new \in SUBSET Slots, Grows(new) PROVE CountersExact'
    <2>1. IsFiniteSet(new) /\ Cardinality(new) \in Nat
      BY SlotsFinite
    <2>2. Live \cap new = {}
      BY <1>6 DEF Grows
    <2>3. Cardinality(Live \cap new) = 0
      BY <2>2, FS_EmptySet
    <2>4. Cardinality(Live') = Cardinality(Live) + Cardinality(new) - Cardinality(Live \cap new)
      BY <1>1, <1>6, <2>1, FS_Union DEF Grows
    <2>5. Cardinality(Live') = Cardinality(Live) + Cardinality(new)
      BY <1>1, <2>1, <2>3, <2>4
    <2> QED
      BY <1>1, <1>6, <2>1, <2>5 DEF Grows
  <1> QED
    BY <1>2, <1>3, <1>4, <1>5, <1>6 DEF CountEffect

\* Every step keeps the counters exact.
LEMMA CountersNext == TypeOK /\ CountersExact /\ [Next]_vars => CountersExact'
  BY TypesOfPool, CountsEffect, CountersKept

\* Lines 202-275: for any number of threads liveNum counts the workers that have
\* not left and busyNum those between its two updates; after shutdown liveNum
\* can only be too large.
THEOREM CountersStayExact == Spec => []CountersExact
  BY TypeCorrect, CountersInit, CountersNext, PTL DEF Spec
-----------------------------------------------------------------------------
(* The producers that sleep *)

\* What a step may do to the producers that sleep or were woken and to the free
\* cells: nothing, or one producer goes to sleep, wakes, or fills a cell, or a
\* cell becomes free, for which a producer is woken if one sleeps.
SleepersKept == UNCHANGED <<BlockedProducers, WokenProducers, queueSize, shutdown>>
FallsAsleep(p) ==
  /\ queueSize = queueCapacity
  /\ BlockedProducers' = BlockedProducers \cup {p} /\ WokenProducers' = WokenProducers \ {p}
  /\ UNCHANGED <<queueSize, shutdown>>
WakesUp(p) ==
  /\ p \in BlockedProducers
  /\ BlockedProducers' = BlockedProducers \ {p} /\ WokenProducers' = WokenProducers \cup {p}
FillsCell(p) ==
  /\ queueSize' = queueSize + 1
  /\ BlockedProducers' = BlockedProducers /\ WokenProducers' = WokenProducers \ {p}
  /\ UNCHANGED shutdown
FreesCell ==
  /\ queueSize' = queueSize - 1
  /\ \/ \E p \in Producers : WakesUp(p)
     \/ BlockedProducers' = {}
  /\ UNCHANGED shutdown

\* What threadPoolAdd does once it may test the queue, unless the pool is shut
\* down.
LEMMA TestNotFullSleepers ==
  ASSUME TypeOK, NEW p \in Producers, ppc[p] \in {"idle", "woken"}, TestNotFull(p),
         UNCHANGED shutdown, ~shutdown
  PROVE  FallsAsleep(p) \/ FillsCell(p)
  <1> USE DEF TypeOK, BlockedProducers, WokenProducers
  <1>1. CASE queueSize = queueCapacity
    BY <1>1 DEF TestNotFull, FallsAsleep, queueVars
  <1>2. CASE queueSize # queueCapacity
    BY <1>2 DEF TestNotFull, Enqueue, FillsCell
  <1> QED
    BY <1>1, <1>2

\* A signal of notFull wakes a producer unless none sleeps.
LEMMA SignalNotFullWakes ==
  ASSUME TypeOK, SignalNotFull
  PROVE  (\E p \in Producers : WakesUp(p)) \/ BlockedProducers' = {}
  BY DEF TypeOK, SignalNotFull, WakesUp, BlockedProducers, WokenProducers

\* Every step does one of these as long as the pool is not shut down.
LEMMA SleepersEffect ==
  ASSUME TypeOK, [Next]_vars
  PROVE  \/ SleepersKept \/ FreesCell
         \/ \E p \in Producers : \/ FallsAsleep(p) \/ FillsCell(p)
                                 \/ WakesUp(p) /\ UNCHANGED <<queueSize, shutdown>>
         \/ shutdown'
  <1>0. shutdown \in BOOLEAN
    BY DEF TypeOK
  <1>1. ASSUME UNCHANGED <<ppc, queueSize, shutdown>> PROVE SleepersKept
    BY <1>1 DEF SleepersKept, BlockedProducers, WokenProducers
  <1>2. ASSUME NEW p \in Producers, Producer(p), ~shutdown'
        PROVE  FallsAsleep(p) \/ FillsCell(p)
    BY <1>2, TestNotFullSleepers DEF Producer, Add, AddResume, addFrame, destroyVars
  <1>3. ASSUME NEW w \in Slots, TestNotEmpty(w), UNCHANGED shutdown
        PROVE  SleepersKept \/ FreesCell
    BY <1>1, <1>3, SignalNotFullWakes DEF TestNotEmpty, Dequeue, FreesCell, queueVars
  <1>4. ASSUME NEW w \in Slots, Worker(w) PROVE SleepersKept \/ FreesCell
    BY <1>1, <1>3, <1>4
    DEF Worker, Acquire, CondWait, WakeExits, WakeStays, BeginTask, RunTask, EndTask,
        threadExit, workerFrame, destroyVars, queueVars
  <1>5. CASE Manager
    BY <1>1, <1>5
    DEF Manager, ManagerLoop, ReadPool, ReadBusy, Grow, SkipGrow, Shrink, SkipShrink,
        SignalExit, managerFrame, destroyVars, queueVars
  <1>6. CASE Destroyer
    BY <1>1, <1>6
    DEF Destroyer, Shutdown, JoinManager, WakeConsumer, Free, destroyFrame, queueVars
  <1>7. CASE SpuriousWakeup
    <2>1. UNCHANGED <<queueSize, shutdown>>
      BY <1>7 DEF SpuriousWakeup, queueVars, destroyVars
    <2>2. UNCHANGED ppc \/ \E p \in BlockedProducers : ppc' = [ppc EXCEPT ![p] = "woken"]
      BY <1>7 DEF SpuriousWakeup
    <2> QED
      BY <1>1, <2>1, <2>2 DEF TypeOK, BlockedProducers, WokenProducers, WakesUp
  <1>8. CASE UNCHANGED vars
    BY <1>1, <1>8 DEF vars, queueVars, destroyVars
  <1> QED
    BY <1>2, <1>4, <1>5, <1>6, <1>7, <1>8 DEF Next

\* A pool begins without producers that sleep.
LEMMA StrandedInit == Init => NoStrandedProducer
  BY DEF Init, NoStrandedProducer, BlockedProducers

\* A step that frees a cell beside a sleeping producer wakes one for it, and
\* only a woken producer uses such a wakeup up, by filling a cell or by finding
\* every cell full.
LEMMA StrandedNext == TypeOK /\ NoStrandedProducer /\ [Next]_vars => NoStrandedProducer'
  <1> SUFFICES ASSUME TypeOK, NoStrandedProducer, [Next]_vars PROVE NoStrandedProducer'
    OBVIOUS
  <1> USE DEF NoStrandedProducer
  <1>1. /\ IsFiniteSet(WokenProducers) /\ Cardinality(WokenProducers) \in Nat
        /\ queueSize \in Nat /\ queueCapacity \in Nat
        /\ BlockedProducers \cap WokenProducers = {}
    BY PoolAssumption, FS_Subset, FS_CardinalityType
    DEF TypeOK, WokenProducers, BlockedProducers
  <1>2. CASE SleepersKept
    BY <1>2 DEF SleepersKept
  <1>3. ASSUME NEW p \in Producers
        PROVE  /\ Cardinality(WokenProducers \ {p}) \in Nat
               /\ Cardinality(WokenProducers \ {p}) >= Cardinality(WokenProducers) - 1
    <2>1. CASE p \in WokenProducers
      <3>1. /\ IsFiniteSet(WokenProducers \ {p})
            /\ Cardinality(WokenProducers \ {p}) = Cardinality(WokenProducers) - 1
        BY <1>1, <2>1, FS_RemoveElement
      <3>2. Cardinality(WokenProducers \ {p}) \in Nat
        BY <3>1, FS_CardinalityType
      <3> QED
        BY <1>1, <3>1, <3>2
    <2>2. CASE p \notin WokenProducers
      <3>1. WokenProducers \ {p} = WokenProducers
        BY <2>2
      <3> QED
        BY <1>1, <3>1
    <2> QED
      BY <2>1, <2>2
  <1>4. ASSUME NEW p \in Producers, FallsAsleep(p) PROVE NoStrandedProducer'
    BY <1>1, <1>3, <1>4 DEF FallsAsleep
  <1>5. ASSUME NEW p \in Producers, FillsCell(p) PROVE NoStrandedProducer'
    BY <1>1, <1>3, <1>5 DEF FillsCell
  <1>6. ASSUME NEW p \in Producers, WakesUp(p)
        PROVE  Cardinality(WokenProducers') = Cardinality(WokenProducers) + 1
    BY <1>1, <1>6, FS_AddElement DEF WakesUp
  <1>7. ASSUME NEW p \in Producers, WakesUp(p), UNCHANGED <<queueSize, shutdown>>
        PROVE  NoStrandedProducer'
    <2>1. BlockedProducers # {} /\ queueSize' = queueSize /\ shutdown' = shutdown
      BY <1>7 DEF WakesUp
    <2>2. Cardinality(WokenProducers') = Cardinality(WokenProducers) + 1
      BY <1>6, <1>7
    <2> QED
      BY <1>1, <2>1, <2>2
  <1>8. CASE FreesCell
    BY <1>1, <1>6, <1>8 DEF FreesCell, WakesUp
  <1> QED
    BY <1>2, <1>4, <1>5, <1>7, <1>8, SleepersEffect

\* Lines 147-151 and 224: for any number of producers and workers, and although
\* a wakeup may be spurious, no producer sleeps while there are more free cells
\* than producers woken to fill them.
THEOREM NoProducerStranded == Spec => []NoStrandedProducer
  BY TypeCorrect, StrandedInit, StrandedNext, PTL DEF Spec
-----------------------------------------------------------------------------
(* The older pools do to their tasks and workers what ThreadPool does *)

\* Once it may test the queue, a producer of any pool does what ThreadPool's
\* does, or adds without a test after it was woken.
TestsOrAdds(p) == TestNotFull(p) \/ (ppc[p] = "woken" /\ ~shutdown /\ Enqueue(p))

Adds(p) ==
  /\ PoolLockFree /\ UNCHANGED addFrame
  /\ ppc[p] = "woken" \/ (ppc[p] = "idle" /\ accepted < MaxTasks)

\* A producer of ThreadPool.
LEMMA AddMoves ==
  ASSUME NEW p, accepted \in Nat, Add(p)
  PROVE  Adds(p) /\ TestNotFull(p)
  <1>1. IsFiniteSet({q \in Producers : ppc[q] # "idle"})
    BY PoolAssumption, FS_Subset
  <1>2. Cardinality({q \in Producers : ppc[q] # "idle"}) \in Nat
    BY <1>1, FS_CardinalityType
  <1>3. accepted + Cardinality({q \in Producers : ppc[q] # "idle"}) < MaxTasks
    BY DEF Add
  <1>4. accepted < MaxTasks
    BY <1>2, <1>3, PoolAssumption
  <1> QED
    BY <1>4 DEF Add, Adds

\* Every instance counts alike.
LEMMA SameCardinality ==
  \A S : /\ P1!Cardinality(S) = Cardinality(S)
         /\ P2!Cardinality(S) = Cardinality(S)
         /\ P3!Cardinality(S) = Cardinality(S)
  <1>1. \A S : P1!Cardinality(S) = Cardinality(S)
    BY DEF P1!Cardinality, Cardinality
  <1>2. \A S : P2!Cardinality(S) = Cardinality(S)
    BY DEF P2!Cardinality, Cardinality
  <1>3. \A S : P3!Cardinality(S) = Cardinality(S)
    BY DEF P3!Cardinality, Cardinality
  <1> QED
    BY <1>1, <1>2, <1>3

\* The first pool's, by its own definitions.
LEMMA OldAdds ==
  ASSUME NEW p, accepted \in Nat, P1!threadpoolAdd(p)
  PROVE  Adds(p) /\ TestsOrAdds(p)
  <1>1. P1!SignalNotEmpty => SignalNotEmpty
    BY DEF P1!SignalNotEmpty, SignalNotEmpty, P1!Blocked, Blocked, P1!Slots, Slots
  <1>2. P1!Enqueue(p) => Enqueue(p)
    BY <1>1 DEF P1!Enqueue, Enqueue
  <1>3. P1!TestNotFull(p) => TestNotFull(p)
    BY <1>2 DEF P1!TestNotFull, TestNotFull, P1!queueVars, queueVars
  <1>4. P1!PoolLockFree => PoolLockFree
    BY DEF P1!PoolLockFree, PoolLockFree, P1!Freed, Freed, P1!Slots, Slots
  <1>5. UNCHANGED P1!addFrame => UNCHANGED addFrame
    BY DEF P1!addFrame, addFrame, P1!counterVars, counterVars, P1!managerVars, managerVars,
           P1!destroyVars, destroyVars
  <1>6. P1!Add(p) => Add(p)
    BY <1>3, <1>4, <1>5, SameCardinality DEF P1!Add, Add
  <1>7. CASE P1!Add(p)
    BY <1>6, <1>7, AddMoves DEF TestsOrAdds
  <1>8. CASE P1!AddResumeOnce(p)
    BY <1>2, <1>4, <1>5, <1>8
    DEF P1!AddResumeOnce, Adds, TestsOrAdds, TestNotFull, P1!queueVars, queueVars
  <1> QED
    BY <1>7, <1>8 DEF P1!threadpoolAdd

\* The second pool's.
LEMMA Src2Adds ==
  ASSUME NEW p, accepted \in Nat, P2!task_add(p)
  PROVE  Adds(p) /\ TestsOrAdds(p)
  <1>1. P2!SignalNotEmpty => SignalNotEmpty
    BY DEF P2!SignalNotEmpty, SignalNotEmpty, P2!Blocked, Blocked, P2!Slots, Slots
  <1>2. P2!Enqueue(p) => Enqueue(p)
    BY <1>1 DEF P2!Enqueue, Enqueue
  <1>3. P2!TestNotFull(p) => TestNotFull(p)
    BY <1>2 DEF P2!TestNotFull, TestNotFull, P2!queueVars, queueVars
  <1>4. P2!PoolLockFree => PoolLockFree
    BY DEF P2!PoolLockFree, PoolLockFree, P2!Freed, Freed, P2!Slots, Slots
  <1>5. UNCHANGED P2!addFrame => UNCHANGED addFrame
    BY DEF P2!addFrame, addFrame, P2!counterVars, counterVars, P2!managerVars, managerVars,
           P2!destroyVars, destroyVars
  <1>6. P2!Add(p) => Add(p)
    BY <1>3, <1>4, <1>5, SameCardinality DEF P2!Add, Add
  <1>7. CASE P2!Add(p)
    BY <1>6, <1>7, AddMoves DEF TestsOrAdds
  <1>8. CASE P2!Src!AddResumeOnce(p)
    <2>1. P2!Src!SignalNotEmpty => SignalNotEmpty
      BY DEF P2!Src!SignalNotEmpty, SignalNotEmpty, P2!Src!Blocked, Blocked, P2!Src!Slots,
             Slots
    <2>2. P2!Src!Enqueue(p) => Enqueue(p)
      BY <2>1 DEF P2!Src!Enqueue, Enqueue
    <2>3. P2!Src!PoolLockFree => PoolLockFree
      BY DEF P2!Src!PoolLockFree, PoolLockFree, P2!Src!Freed, Freed, P2!Src!Slots, Slots
    <2>4. UNCHANGED P2!Src!addFrame => UNCHANGED addFrame
      BY DEF P2!Src!addFrame, addFrame, P2!Src!counterVars, counterVars, P2!Src!managerVars,
             managerVars, P2!Src!destroyVars, destroyVars
    <2> QED
      BY <1>8, <2>2, <2>3, <2>4
      DEF P2!Src!AddResumeOnce, Adds, TestsOrAdds, TestNotFull, P2!Src!queueVars, queueVars
  <1> QED
    BY <1>7, <1>8 DEF P2!task_add

\* The third pool's, which always test.
LEMMA Src3Adds ==
  ASSUME NEW p, accepted \in Nat, P3!task_add(p)
  PROVE  Adds(p) /\ TestNotFull(p)
  <1>1. P3!SignalNotEmpty => SignalNotEmpty
    BY DEF P3!SignalNotEmpty, SignalNotEmpty, P3!Blocked, Blocked, P3!Slots, Slots
  <1>2. P3!Enqueue(p) => Enqueue(p)
    BY <1>1 DEF P3!Enqueue, Enqueue
  <1>3. P3!TestNotFull(p) => TestNotFull(p)
    BY <1>2 DEF P3!TestNotFull, TestNotFull, P3!queueVars, queueVars
  <1>4. P3!PoolLockFree => PoolLockFree
    BY DEF P3!PoolLockFree, PoolLockFree, P3!Freed, Freed, P3!Slots, Slots
  <1>5. UNCHANGED P3!addFrame => UNCHANGED addFrame
    BY DEF P3!addFrame, addFrame, P3!counterVars, counterVars, P3!managerVars, managerVars,
           P3!destroyVars, destroyVars
  <1>6. CASE P3!Add(p)
    <2>1. Add(p)
      BY <1>3, <1>4, <1>5, <1>6, SameCardinality DEF P3!Add, Add
    <2> QED
      BY <2>1, AddMoves
  <1>7. CASE P3!AddResume(p)
    BY <1>3, <1>4, <1>5, <1>7 DEF P3!AddResume, Adds
  <1> QED
    BY <1>6, <1>7 DEF P3!task_add, P3!Producer

\* Whatever the program, what adding does; the servers' pools always test.
LEMMA AddTaskMoves ==
  ASSUME NEW p, accepted \in Nat, AddTask(p)
  PROVE  Adds(p) /\ TestsOrAdds(p) /\ (Server => TestNotFull(p))
  <1>1. ASSUME Producer(p) PROVE Adds(p) /\ TestNotFull(p)
    BY <1>1, AddMoves DEF Producer, AddResume, Adds
  <1>2. CASE program = "src/main.cpp" /\ P1!threadpoolAdd(p)
    BY <1>2, OldAdds DEF Server, Servers
  <1>3. CASE program = "src2/main.cpp" /\ P2!task_add(p)
    BY <1>3, Src2Adds DEF Server, Servers
  <1>4. CASE Producer(p) \/ P3!task_add(p)
    BY <1>1, <1>4, Src3Adds DEF TestsOrAdds
  <1> QED
    BY <1>2, <1>3, <1>4 DEF AddTask

\* The managers of the older pools move as ThreadPool's does.
LEMMA OldManagerMoves == P1!manager => ManagerMove
  <1>1. P1!SignalNotEmpty => SignalNotEmpty
    BY DEF P1!SignalNotEmpty, SignalNotEmpty, P1!Blocked, Blocked, P1!Slots, Slots
  <1>2. \A n : P1!CreateWorkers(n) => StartsWorkers
    BY SameCardinality DEF P1!CreateWorkers, StartsWorkers, P1!Slots, Slots
  <1>3. UNCHANGED P1!managerFrame => UNCHANGED managerFrame
    BY DEF P1!managerFrame, managerFrame, P1!queueVars, queueVars, P1!destroyVars,
           destroyVars, P1!historyVars, historyVars
  <1> QED
    BY <1>1, <1>2, <1>3
    DEF P1!manager, P1!ManagerLoop, P1!ReadCounters, P1!GrowByFreeSlots, P1!SkipGrow,
        P1!TestBusy, P1!TestLive, P1!RequestExit, P1!SignalExit, ManagerMove

\* The second pool's.
LEMMA Src2ManagerMoves == P2!manager => ManagerMove
  <1>1. P2!SignalNotEmpty => SignalNotEmpty
    BY DEF P2!SignalNotEmpty, SignalNotEmpty, P2!Blocked, Blocked, P2!Slots, Slots
  <1>2. \A n : P2!CreateWorkers(n) => StartsWorkers
    BY SameCardinality DEF P2!CreateWorkers, StartsWorkers, P2!Slots, Slots
  <1>3. UNCHANGED P2!managerFrame => UNCHANGED managerFrame
    BY DEF P2!managerFrame, managerFrame, P2!queueVars, queueVars, P2!destroyVars,
           destroyVars, P2!historyVars, historyVars
  <1>4. UNCHANGED P2!Src!managerFrame => UNCHANGED managerFrame
    BY DEF P2!Src!managerFrame, managerFrame, P2!Src!queueVars, queueVars,
           P2!Src!destroyVars, destroyVars, P2!Src!historyVars, historyVars
  <1> QED
    BY <1>1, <1>2, <1>3, <1>4
    DEF P2!manager, P2!ManagerLoop, P2!Src!ReadCounters, P2!Grow, P2!SkipGrow, P2!Shrink,
        P2!SkipShrink, P2!SignalExit, ManagerMove

\* The third pool's.
LEMMA Src3ManagerMoves == P3!manager => ManagerMove
  <1>1. P3!SignalNotEmpty => SignalNotEmpty
    BY DEF P3!SignalNotEmpty, SignalNotEmpty, P3!Blocked, Blocked, P3!Slots, Slots
  <1>2. \A n : P3!CreateWorkers(n) => StartsWorkers
    BY SameCardinality DEF P3!CreateWorkers, StartsWorkers, P3!Slots, Slots
  <1>3. UNCHANGED P3!managerFrame => UNCHANGED managerFrame
    BY DEF P3!managerFrame, managerFrame, P3!queueVars, queueVars, P3!destroyVars,
           destroyVars, P3!historyVars, historyVars
  <1>4. UNCHANGED P3!Src!managerFrame => UNCHANGED managerFrame
    BY DEF P3!Src!managerFrame, managerFrame, P3!Src!queueVars, queueVars,
           P3!Src!destroyVars, destroyVars, P3!Src!historyVars, historyVars
  <1> QED
    BY <1>1, <1>2, <1>3, <1>4
    DEF P3!manager, P3!ManagerLoop, P3!Src!ReadCounters, P3!GrowForWaiting, P3!SkipGrowing,
        P3!Shrink, P3!SkipShrink, P3!SignalExit, ManagerMove
-----------------------------------------------------------------------------
(* What the programs keep *)

\* The thread that adds: main in a demo, connect in a server.
Acceptor == IF Demo THEN "main" ELSE "connect"

\* How many tasks it adds.
Limit == IF Demo THEN DemoTasks ELSE MaxTasks

\* Nobody but the acceptor ever waits for room; it waits while the ring is full,
\* and there is room when a signal has woken it.
OneProducer ==
  \A p \in Producers : ppc[p] \in {"waiting", "woken"} =>
    /\ p = Acceptor
    /\ accepted \in 1 .. Limit - 1
    /\ IF ppc[p] = "waiting" THEN queueSize = queueCapacity
       ELSE Demo /\ ~startled => queueSize < queueCapacity

\* The pool is shut down when all tasks are in.
ShutdownLast == shutdown => Demo /\ accepted = DemoTasks

\* A worker about to sleep keeps the mutex, and with it the queue empty.
LooksWhenEmpty == \A w \in Slots : wpc[w] = "blocking" => queueSize = 0

\* Only a worker between lines 217 and 232 has a task.
TasksHeld == \A w \in Slots \ Holding : taskOf[w] = 0

\* Until connect is taken it is the only task.
ConnectFirst == Server /\ taken = 0 => accepted <= 1

\* The workers other than the one that runs connect.
Servants == {w \in Live : Server => taskOf[w] # ConnectTask}
Woken    == {w \in Slots : wpc[w] = "woken"}
AllAsleep ==
  /\ Servants \cap Blocked # {}
  /\ \A w \in Servants : wpc[w] \in {"waiting", "woken"}

\* While a worker sleeps beside queued tasks and none is at work, each of those
\* tasks was signalled to a worker that is still to wake or that has left.
HelpLeft ==
  ~shutdown /\ queueSize > 0 /\ AllAsleep
    => queueSize + liveNum <= maxNum + Cardinality(Woken)

\* A demo's ring has overflowed, and the model stops.
Stopped == Overflowed /\ Demo /\ startled /\ BlockedProducers = {}

TasksInv ==
  /\ PoolTypes /\ program \in Demos \cup Servers /\ startled \in BOOLEAN
  /\ minNum <= liveNum
  /\ RingIsFifo /\ EachTaskOnce /\ CountersExact /\ OneProducer /\ ShutdownLast
HelpInv == LooksWhenEmpty /\ TasksHeld /\ ConnectFirst /\ HelpLeft

ProgramInv == (TasksInv /\ HelpInv) \/ Stopped
-----------------------------------------------------------------------------
(* What a step of a program does *)

\* Only the acceptor adds, and main the task connect.
AddsInTurn(p) ==
  /\ Adds(p) /\ TestNotFull(p)
  /\ Demo => accepted < DemoTasks
  /\ \/ p = Acceptor /\ (Server => InConnect)
     \/ Server /\ accepted = 0

ProgramMove ==
  \/ \E w \in Slots : Worker(w)
  \/ \E p \in Producers : AddsInTurn(p)
  \/ Demo /\ accepted = DemoTasks /\ Destroyer
  \/ ManagerMove

\* A producer that waits goes on without a signal.
WaiterReturns ==
  /\ \E p \in BlockedProducers : ppc' = [ppc EXCEPT ![p] = "woken"]
  /\ startled' = (startled \/ Demo)
  /\ UNCHANGED <<queueVars, counterVars, wpc, taskOf, destroyVars, historyVars, program>>

\* A demo's main adds to the full ring.
Overflows(p) ==
  /\ Demo /\ startled /\ queueSize = queueCapacity /\ p = Acceptor
  /\ Enqueue(p) /\ UNCHANGED <<program, startled>>

\* A producer that was woken and adds without a test finds room, unless no signal
\* has woken it.
LEMMA WokenFindsRoom ==
  ASSUME PoolTypes, OneProducer, NEW p \in Producers, TestsOrAdds(p), Demo
  PROVE  TestNotFull(p) \/ (startled /\ queueSize = queueCapacity /\ p = Acceptor /\ Enqueue(p))
  <1>1. ASSUME ppc[p] = "woken", ~startled PROVE queueSize # queueCapacity
    BY <1>1, PoolAssumption DEF OneProducer, PoolTypes
  <1>2. ASSUME ppc[p] = "woken" PROVE p = Acceptor
    BY <1>2 DEF OneProducer
  <1> QED
    BY <1>1, <1>2 DEF TestsOrAdds, TestNotFull

\* Every step of a program is one of these moves.
LEMMA ProgramMoves ==
  ASSUME PoolTypes, OneProducer, program \in Demos \cup Servers, startled \in BOOLEAN, ProgramNext
  PROVE  \/ ProgramMove /\ UNCHANGED <<program, startled>>
         \/ WaiterReturns
         \/ \E p \in Producers : Overflows(p)
  <1>1. ASSUME NEW w \in Slots, WorkerStep(w) \/ AcceptFails(w) \/ working(w)
        PROVE  Worker(w)
    BY <1>1 DEF WorkerStep, AcceptFails, working, Worker
  <1>2. ASSUME NEW p \in Producers, AddTask(p)
        PROVE  Adds(p) /\ TestsOrAdds(p) /\ (Server => TestNotFull(p))
    BY <1>2, AddTaskMoves DEF PoolTypes
  <1>3. {"main", "connect"} \subseteq Producers /\ ~(Demo /\ Server)
    BY ProgramsAssumption DEF Demo, Server, Demos, Servers
  <1>4. ASSUME demo_main, UNCHANGED <<program, startled>>
        PROVE  ProgramMove \/ \E p \in Producers : Overflows(p)
    <2>1. CASE Demo /\ accepted = DemoTasks /\ Destroyer
      BY <2>1 DEF ProgramMove
    <2>2. CASE Demo /\ accepted < DemoTasks /\ AddTask("main")
      <3>1. \/ TestNotFull("main")
            \/ startled /\ queueSize = queueCapacity /\ "main" = Acceptor /\ Enqueue("main")
        BY <1>2, <1>3, <2>2, WokenFindsRoom
      <3>2. TestNotFull("main") => AddsInTurn("main")
        BY <1>2, <1>3, <2>2 DEF AddsInTurn, Acceptor
      <3> QED
        BY <1>3, <1>4, <2>2, <3>1, <3>2 DEF ProgramMove, Overflows
    <2> QED
      BY <1>4, <2>1, <2>2 DEF demo_main
  <1>5. ASSUME server_main PROVE ProgramMove
    BY <1>2, <1>3, <1>5 DEF server_main, AddsInTurn, ProgramMove
  <1>6. ASSUME connect PROVE ProgramMove
    BY <1>2, <1>3, <1>6 DEF connect, AddsInTurn, Acceptor, ProgramMove
  <1>7. ASSUME PoolManager PROVE ProgramMove
    BY <1>7, ManagerMoves, OldManagerMoves, Src2ManagerMoves, Src3ManagerMoves
    DEF PoolManager, ProgramMove
  <1>8. CASE UnsignalledReturn
    <2>1. CASE \E w \in Blocked : wpc' = [wpc EXCEPT ![w] = "woken"] /\ UNCHANGED ppc
      <3>1. ProgramMove
        BY <1>8, <2>1
        DEF UnsignalledReturn, SpuriousWakeup, ProgramMove, ManagerMove, managerFrame,
            SignalNotEmpty, counterVars
      <3>2. UNCHANGED <<program, startled>>
        BY <1>8, <2>1 DEF UnsignalledReturn
      <3> QED
        BY <3>1, <3>2
    <2>2. CASE \E p \in BlockedProducers : ppc' = [ppc EXCEPT ![p] = "woken"] /\ UNCHANGED wpc
      <3>1. ppc' # ppc
        BY <2>2 DEF BlockedProducers, PoolTypes
      <3> QED
        BY <1>8, <2>2, <3>1 DEF UnsignalledReturn, SpuriousWakeup, WaiterReturns
    <2> QED
      BY <1>8, <2>1, <2>2 DEF UnsignalledReturn, SpuriousWakeup
  <1> QED
    BY <1>1, <1>4, <1>5, <1>6, <1>7, <1>8 DEF ProgramNext, ProgramMove, Continue

\* To the tasks it does what any thread of a pool does.
LEMMA MoveTasks == ASSUME PoolTypes, ProgramMove PROVE TaskEffect
  BY WorkerEffect, TestNotFullEffect, ManagerEffect, DestroyerEffect
  DEF ProgramMove, AddsInTurn, Adds, TaskEffect

\* And to the workers that are counted.
LEMMA MoveCounts == ASSUME PoolTypes, ProgramMove PROVE CountEffect
  <1>1. ASSUME NEW p \in Producers, AddsInTurn(p) PROVE CountsKept
    BY <1>1, OthersCount
    DEF AddsInTurn, Adds, TestNotFull, Enqueue, addFrame, counterVars, destroyVars
  <1>2. ASSUME Destroyer PROVE CountsKept
    BY <1>2, OthersCount
    DEF Destroyer, Shutdown, JoinManager, WakeConsumer, Free, destroyFrame, counterVars
  <1> QED
    BY <1>1, <1>2, WorkerCounts, ManagerCounts DEF ProgramMove, CountEffect

\* A worker keeps the types, and liveNum at minNum or above.
LEMMA WorkerTypes ==
  ASSUME PoolTypes, minNum <= liveNum, NEW w \in Slots, Worker(w)
  PROVE  PoolTypes' /\ minNum <= liveNum'
  <1> USE DEF PoolTypes, queueVars, counterVars, destroyVars, workerFrame
  <1>1. ASSUME TestNotEmpty(w), UNCHANGED <<liveNum, busyNum, completed, workerFrame>>
        PROVE  PoolTypes' /\ minNum <= liveNum'
    <2>1. wpc' \in [Slots -> PoolStates]
      BY <1>1 DEF TestNotEmpty, Dequeue, PoolStates
    <2>2. CASE UNCHANGED <<queueVars, taskOf, ppc, taken>>
      BY <1>1, <2>1, <2>2
    <2>3. CASE queueSize # 0 /\ Dequeue(w)
      <3>1. (queueFront + 1) % queueCapacity \in Cells
        BY NextCell
      <3>2. ppc' \in [Producers -> ProducerStates]
        BY <2>3, SignalNotFullType DEF Dequeue
      <3> QED
        BY <1>1, <2>1, <2>3, <3>1, <3>2, PoolAssumption DEF Dequeue
    <2> QED
      BY <1>1, <2>2, <2>3 DEF TestNotEmpty
  <1>2. CASE Acquire(w)
    BY <1>1, <1>2 DEF Acquire
  <1>3. CASE WakeStays(w)
    BY <1>1, <1>3 DEF WakeStays
  <1>4. CASE CondWait(w)
    BY <1>4 DEF CondWait, PoolStates
  <1>5. CASE WakeExits(w)
    BY <1>5, PoolAssumption DEF WakeExits, PoolStates
  <1>6. CASE BeginTask(w)
    BY <1>6 DEF BeginTask, PoolStates
  <1>7. CASE RunTask(w)
    BY <1>7 DEF RunTask, PoolStates
  <1>8. CASE EndTask(w)
    BY <1>8 DEF EndTask, PoolStates
  <1>9. CASE threadExit(w)
    BY <1>9 DEF threadExit, PoolStates
  <1> QED
    BY <1>2, <1>3, <1>4, <1>5, <1>6, <1>7, <1>8, <1>9 DEF Worker

\* So does every move.
LEMMA MoveTypes ==
  ASSUME PoolTypes, minNum <= liveNum, ProgramMove
  PROVE  PoolTypes' /\ minNum <= liveNum'
  <1> USE DEF PoolTypes, queueVars, counterVars, destroyVars, historyVars
  <1>1. ASSUME NEW p \in Producers, AddsInTurn(p) PROVE PoolTypes' /\ minNum <= liveNum'
    <2>1. ppc' \in [Producers -> ProducerStates]
      BY <1>1 DEF AddsInTurn, TestNotFull, Enqueue, ProducerStates
    <2>2. UNCHANGED addFrame
      BY <1>1 DEF AddsInTurn, Adds
    <2>3. CASE UNCHANGED <<queueVars, wpc, accepted>>
      BY <2>1, <2>2, <2>3 DEF addFrame
    <2>4. CASE queueSize # queueCapacity /\ Enqueue(p)
      <3>1. (queueRear + 1) % queueCapacity \in Cells
        BY NextCell
      <3>2. wpc' \in [Slots -> PoolStates]
        BY <2>4, SignalNotEmptyType DEF Enqueue
      <3> QED
        BY <2>1, <2>2, <2>4, <3>1, <3>2, PoolAssumption DEF Enqueue, addFrame
    <2> QED
      BY <1>1, <2>3, <2>4 DEF AddsInTurn, TestNotFull
  <1>2. ASSUME ManagerMove PROVE PoolTypes' /\ minNum <= liveNum'
    <2>1. CASE StartsWorkers
      <3>1. PICK new \in SUBSET {i \in Slots : wpc[i] = "none"} :
              /\ wpc' = [i \in Slots |-> IF i \in new THEN "ready" ELSE wpc[i]]
              /\ liveNum' = liveNum + Cardinality(new)
        BY <2>1 DEF StartsWorkers
      <3>2. Cardinality(new) \in Nat
        BY SlotsFinite
      <3>3. wpc' \in [Slots -> PoolStates]
        BY <3>1 DEF PoolStates
      <3>4. liveNum' \in Nat /\ minNum <= liveNum'
        BY <3>1, <3>2, PoolAssumption
      <3> QED
        BY <1>2, <3>3, <3>4 DEF ManagerMove, managerFrame
    <2>2. CASE UNCHANGED liveNum /\ (SignalNotEmpty \/ UNCHANGED wpc)
      <3>1. wpc' \in [Slots -> PoolStates]
        BY <2>2, SignalNotEmptyType
      <3> QED
        BY <1>2, <2>2, <3>1 DEF ManagerMove, managerFrame
    <2> QED
      BY <1>2, <2>1, <2>2 DEF ManagerMove
  <1>3. ASSUME Destroyer PROVE PoolTypes' /\ minNum <= liveNum'
    <2>1. wpc' \in [Slots -> PoolStates]
      BY <1>3, SignalNotEmptyType
      DEF Destroyer, Shutdown, JoinManager, WakeConsumer, Free
    <2>2. shutdown' \in BOOLEAN /\ UNCHANGED destroyFrame
      BY <1>3 DEF Destroyer, Shutdown, JoinManager, WakeConsumer, Free
    <2> QED
      BY <2>1, <2>2 DEF destroyFrame
  <1> QED
    BY <1>1, <1>2, <1>3, WorkerTypes DEF ProgramMove
-----------------------------------------------------------------------------
(* One thread adds *)

\* What a move may do to the producers: nothing, or one of them tests the queue,
\* or a task is taken and the sleeper, if there is one, is woken.
LEMMA MoveProducers ==
  ASSUME PoolTypes, ProgramMove
  PROVE  \/ \E p \in Producers : AddsInTurn(p)
         \/ UNCHANGED <<ppc, queueSize, accepted>>
         \/ \E w \in Slots : TakesTask(w)
  <1>1. ASSUME NEW w \in Slots, Worker(w), ~TakesTask(w)
        PROVE  UNCHANGED <<ppc, queueSize, accepted>>
    <2>1. ASSUME TestNotEmpty(w), ~TakesTask(w), wpc[w] \in {"ready", "woken"},
                 UNCHANGED <<completed, workerFrame>>
          PROVE  UNCHANGED <<ppc, queueSize, accepted>>
      BY <2>1 DEF TestNotEmpty, TakesTask, workerFrame, destroyVars, queueVars
    <2> QED
      BY <1>1, <2>1
      DEF Worker, Acquire, CondWait, WakeExits, WakeStays, BeginTask, RunTask, EndTask,
          threadExit, At, workerFrame, queueVars
  <1>2. ASSUME ManagerMove PROVE UNCHANGED <<ppc, queueSize, accepted>>
    BY <1>2 DEF ManagerMove, managerFrame, queueVars, historyVars
  <1>3. ASSUME Destroyer PROVE UNCHANGED <<ppc, queueSize, accepted>>
    BY <1>3
    DEF Destroyer, Shutdown, JoinManager, WakeConsumer, Free, destroyFrame, queueVars,
        historyVars
  <1> QED
    BY <1>1, <1>2, <1>3 DEF ProgramMove

\* An empty history means an empty ring.
LEMMA NothingAccepted ==
  ASSUME PoolTypes, RingIsFifo, accepted = 0
  PROVE  queueSize = 0 /\ queueCapacity > 0
  BY PoolAssumption DEF PoolTypes, RingIsFifo

\* The acceptor stays alone.
LEMMA OneProducerKept ==
  ASSUME PoolTypes, RingIsFifo, OneProducer, ProgramMove, UNCHANGED <<program, startled>>
  PROVE  OneProducer'
  <1>0. /\ Acceptor' = Acceptor /\ Limit' = Limit /\ Demo' = Demo /\ Limit \in Nat
        /\ queueSize \in 0 .. queueCapacity /\ queueCapacity \in Nat \ {0}
        /\ accepted \in Nat /\ taken \in Nat /\ accepted = taken + queueSize
        /\ MaxTasks \in Nat
        /\ ppc \in [Producers -> ProducerStates]
    BY PoolAssumption, ProgramsAssumption DEF Acceptor, Limit, Demo, PoolTypes, RingIsFifo
  <1>1. CASE UNCHANGED <<ppc, queueSize, accepted>>
    BY <1>0, <1>1 DEF OneProducer
  <1>2. ASSUME NEW w \in Slots, TakesTask(w) PROVE OneProducer'
    <2>1. /\ queueSize' = queueSize - 1 /\ queueSize # 0 /\ accepted' = accepted
          /\ SignalNotFull
      BY <1>2 DEF TakesTask, Dequeue
    <2>2. SUFFICES ASSUME NEW q \in Producers, ppc'[q] \in {"waiting", "woken"}
                   PROVE  /\ q = Acceptor /\ accepted \in 1 .. Limit - 1
                          /\ ppc'[q] # "waiting"
      BY <1>0, <2>1 DEF OneProducer
    <2>3. ppc[q] \in {"waiting", "woken"}
      BY <1>0, <2>1, <2>2 DEF SignalNotFull, BlockedProducers
    <2>4. q = Acceptor /\ accepted \in 1 .. Limit - 1
      BY <2>3 DEF OneProducer
    <2>5. ppc'[q] # "waiting"
      <3>1. ASSUME NEW p \in BlockedProducers PROVE p = q
        BY <2>4, <3>1 DEF OneProducer, BlockedProducers
      <3> QED
        BY <1>0, <2>1, <3>1 DEF SignalNotFull, BlockedProducers
    <2> QED
      BY <2>4, <2>5
  <1>3. ASSUME NEW p \in Producers, AddsInTurn(p) PROVE OneProducer'
    <2>1. \A q \in Producers \ {p} : ppc[q] \notin {"waiting", "woken"}
      <3>1. CASE p = Acceptor
        BY <3>1 DEF OneProducer
      <3>2. CASE accepted = 0
        BY <3>2 DEF OneProducer
      <3> QED
        BY <1>3, <3>1, <3>2 DEF AddsInTurn
    <2>2. \A q \in Producers \ {p} : ppc'[q] \notin {"waiting", "woken"}
      BY <1>0, <1>3, <2>1 DEF AddsInTurn, TestNotFull, Enqueue
    <2>3. SUFFICES ASSUME ppc'[p] \in {"waiting", "woken"}
                   PROVE  /\ p = Acceptor /\ accepted' \in 1 .. Limit - 1
                          /\ ppc'[p] = "waiting" /\ queueSize' = queueCapacity
      BY <1>0, <2>2 DEF OneProducer
    <2>4. /\ ppc'[p] = "waiting" /\ queueSize = queueCapacity
          /\ queueSize' = queueSize /\ accepted' = accepted
      BY <1>0, <1>3, <2>3 DEF AddsInTurn, TestNotFull, Enqueue, queueVars
    <2>5. accepted # 0 /\ accepted < Limit
      <3>1. ppc[p] = "woken" => accepted \in 1 .. Limit - 1
        BY DEF OneProducer
      <3>2. ppc[p] = "idle" => accepted < Limit
        BY <1>3 DEF AddsInTurn, Adds, Limit
      <3> QED
        BY <1>0, <1>3, <2>4, <3>1, <3>2 DEF AddsInTurn, Adds
    <2>6. p = Acceptor
      BY <1>3, <2>5 DEF AddsInTurn
    <2> QED
      BY <1>0, <2>4, <2>5, <2>6
  <1> QED
    BY <1>1, <1>2, <1>3, MoveProducers

\* The pool is shut down when its last task is in, and takes none afterwards.
LEMMA ShutdownKept ==
  ASSUME PoolTypes, ShutdownLast, ProgramMove, UNCHANGED program
  PROVE  ShutdownLast'
  <1>0. Demo' = Demo /\ shutdown \in BOOLEAN
    BY DEF Demo, PoolTypes
  <1>1. ASSUME UNCHANGED <<shutdown, accepted>> PROVE ShutdownLast'
    BY <1>0, <1>1 DEF ShutdownLast
  <1>2. ASSUME NEW p \in Producers, AddsInTurn(p) PROVE ShutdownLast'
    BY <1>0, <1>2
    DEF AddsInTurn, Adds, addFrame, destroyVars, TestNotFull, Enqueue, ShutdownLast
  <1>3. ASSUME NEW w \in Slots, Worker(w) PROVE UNCHANGED <<shutdown, accepted>>
    BY <1>3
    DEF Worker, Acquire, CondWait, WakeExits, WakeStays, BeginTask, RunTask, EndTask,
        threadExit, workerFrame, destroyVars
  <1>4. ASSUME ManagerMove PROVE UNCHANGED <<shutdown, accepted>>
    BY <1>4 DEF ManagerMove, managerFrame, destroyVars, historyVars
  <1>5. ASSUME Demo, accepted = DemoTasks, Destroyer PROVE ShutdownLast'
    <2>1. UNCHANGED accepted
      BY <1>5
      DEF Destroyer, Shutdown, JoinManager, WakeConsumer, Free, destroyFrame, historyVars
    <2> QED
      BY <1>0, <1>5, <2>1 DEF ShutdownLast
  <1> QED
    BY <1>1, <1>2, <1>3, <1>4, <1>5 DEF ProgramMove

\* A producer that goes on without a signal leaves the rest alone.
LEMMA ReturnKept ==
  ASSUME TasksInv, WaiterReturns
  PROVE  TasksInv' /\ TaskEffect
  <1>0. /\ ppc \in [Producers -> ProducerStates] /\ startled \in BOOLEAN
        /\ Demo' = Demo /\ Acceptor' = Acceptor /\ Limit' = Limit
    BY DEF TasksInv, PoolTypes, WaiterReturns, Demo, Acceptor, Limit
  <1>1. LeavesTasks /\ CountsKept
    BY DEF WaiterReturns, LeavesTasks, taskVars, historyVars, destroyVars, Holding, CountsKept,
           counterVars, Live, Busy
  <1>2. TaskEffect /\ CountEffect
    BY <1>1 DEF TaskEffect, CountEffect
  <1>3. RingIsFifo' /\ EachTaskOnce' /\ CountersExact'
    BY <1>2, RingKept, OnceKept, CountersKept DEF TasksInv
  <1>4. /\ PoolTypes' /\ minNum <= liveNum' /\ program' \in Demos \cup Servers
        /\ startled' \in BOOLEAN
    <2>1. ppc' \in [Producers -> ProducerStates]
      BY <1>0 DEF WaiterReturns, BlockedProducers, ProducerStates
    <2>2. startled' \in BOOLEAN
      BY <1>0 DEF WaiterReturns, Demo
    <2> QED
      BY <2>1, <2>2
      DEF TasksInv, PoolTypes, WaiterReturns, queueVars, counterVars, destroyVars, historyVars
  <1>5. OneProducer'
    <2>1. /\ \A q \in Producers : ppc'[q] = ppc[q] \/ (ppc[q] = "waiting" /\ ppc'[q] = "woken")
          /\ queueSize' = queueSize /\ accepted' = accepted /\ (Demo => startled')
      BY <1>0 DEF WaiterReturns, BlockedProducers, queueVars, historyVars
    <2>2. OneProducer
      BY DEF TasksInv
    <2> QED
      BY <1>0, <2>1, <2>2 DEF OneProducer
  <1>6. ShutdownLast'
    BY <1>0 DEF TasksInv, ShutdownLast, WaiterReturns, destroyVars, historyVars
  <1> QED
    BY <1>2, <1>3, <1>4, <1>5, <1>6 DEF TasksInv

\* The overflow is the last step.
LEMMA OverflowStops ==
  ASSUME TasksInv, NEW p \in Producers, Overflows(p)
  PROVE  Stopped'
  <1>0. /\ queueCapacity \in Nat /\ ppc \in [Producers -> ProducerStates] /\ OneProducer
    BY PoolAssumption DEF TasksInv, PoolTypes
  <1>1. /\ Demo' /\ startled' /\ queueSize' = queueCapacity + 1
        /\ ppc' = [ppc EXCEPT ![p] = "idle"] /\ p = Acceptor
    BY DEF Overflows, Enqueue, Demo
  <1>2. BlockedProducers' = {}
    BY <1>0, <1>1 DEF BlockedProducers, OneProducer
  <1> QED
    BY <1>0, <1>1, <1>2 DEF Stopped, Overflowed

\* It is.
LEMMA StoppedStays == Stopped /\ [ProgramNext]_progVars => Stopped'
  BY DEF Stopped, Overflowed, Demo, BlockedProducers, ProgramNext, Continue, UnsignalledReturn,
         progVars, vars, queueVars

\* The tasks and the counters in every reachable state of a program.
LEMMA TasksInvNext ==
  ASSUME TasksInv, [ProgramNext]_progVars
  PROVE  (TasksInv' /\ TaskEffect) \/ Stopped'
  <1>1. ASSUME ProgramMove, UNCHANGED <<program, startled>> PROVE TasksInv' /\ TaskEffect
    <2>2. TaskEffect /\ CountEffect
      BY <1>1, MoveTasks, MoveCounts DEF TasksInv
    <2>3. PoolTypes' /\ minNum <= liveNum'
      BY <1>1, MoveTypes DEF TasksInv
    <2>4. RingIsFifo' /\ EachTaskOnce' /\ CountersExact'
      BY <2>2, RingKept, OnceKept, CountersKept DEF TasksInv
    <2>5. OneProducer' /\ ShutdownLast'
      BY <1>1, OneProducerKept, ShutdownKept DEF TasksInv
    <2> QED
      BY <1>1, <2>2, <2>3, <2>4, <2>5 DEF TasksInv
  <1>2. CASE ProgramNext
    BY <1>1, <1>2, ProgramMoves, ReturnKept, OverflowStops DEF TasksInv
  <1>3. CASE UNCHANGED progVars
    <2>1. LeavesTasks /\ CountsKept
      BY <1>3
      DEF progVars, vars, LeavesTasks, taskVars, historyVars, destroyVars, Holding, CountsKept,
          counterVars, Live, Busy
    <2>2. TaskEffect /\ CountEffect
      BY <2>1 DEF TaskEffect, CountEffect
    <2>3. RingIsFifo' /\ EachTaskOnce' /\ CountersExact'
      BY <2>2, RingKept, OnceKept, CountersKept DEF TasksInv
    <2>4. /\ PoolTypes' /\ minNum <= liveNum' /\ program' \in Demos \cup Servers
          /\ startled' \in BOOLEAN
      BY <1>3
      DEF TasksInv, PoolTypes, progVars, vars, queueVars, counterVars, destroyVars, historyVars
    <2>5. OneProducer' /\ ShutdownLast'
      BY <1>3
      DEF TasksInv, OneProducer, ShutdownLast, Acceptor, Limit, Demo, progVars, vars, queueVars,
          destroyVars, historyVars
    <2> QED
      BY <2>2, <2>3, <2>4, <2>5 DEF TasksInv
  <1> QED
    BY <1>2, <1>3

\* A program begins so.
LEMMA TasksInvInit == ProgramInit => TasksInv
  <1> SUFFICES ASSUME ProgramInit PROVE TasksInv
    OBVIOUS
  <1>1. Init /\ program \in Demos \cup Servers /\ startled = FALSE
    BY DEF ProgramInit
  <1>2. PoolTypes
    BY <1>1, TypeInvInit, TypesOfPool DEF TypeInv
  <1>3. RingIsFifo /\ EachTaskOnce /\ CountersExact
    BY <1>1, RingInit, OnceInit, CountersInit
  <1>4. minNum <= liveNum /\ OneProducer /\ ShutdownLast
    BY <1>1, PoolAssumption DEF Init, OneProducer, ShutdownLast
  <1>5. startled \in BOOLEAN
    BY <1>1, Zenon
  <1> QED
    BY <1>1, <1>2, <1>3, <1>4, <1>5 DEF TasksInv

\* liveNum, while it is exact, counts slots.
LEMMA LiveFits ==
  ASSUME CountersExact, ~shutdown
  PROVE  liveNum <= maxNum
  <1>1. Cardinality(Live) <= Cardinality(Slots)
    BY SlotsFinite, FS_Subset DEF Live
  <1>2. Cardinality(Slots) = maxNum
    <2>1. Cardinality(0 .. maxNum - 1) = IF 0 > maxNum - 1 THEN 0 ELSE maxNum - 1 - 0 + 1
      BY PoolAssumption, FS_Interval
    <2> QED
      BY <2>1, PoolAssumption DEF Slots
  <1> QED
    BY <1>1, <1>2 DEF CountersExact, LiveNumCounts

\* The inductive invariant of the four programs' pools.
THEOREM TasksInductive == ProgramSpec => [](TasksInv \/ Stopped)
  <1>1. (TasksInv \/ Stopped) /\ [ProgramNext]_progVars => TasksInv' \/ Stopped'
    BY TasksInvNext, StoppedStays
  <1> QED
    BY <1>1, TasksInvInit, PTL DEF ProgramSpec

\* src/threadpool.cpp 105-121 and 190-205, src2/pthreadpool.cpp 86-102 and
\* 190-201, src3/pthreadpool.cpp 198-209: for every size, with one thread that
\* adds at a time, no ring overflows unless a demo's main was woken without a
\* signal, and until then the four pools keep their queue in order, run each task
\* once, and count their threads.
THEOREM PoolsCorrect == ProgramSpec => []PoolsInv
  <1>1. TasksInv => PoolsInv
    BY LiveFits, PoolAssumption DEF TasksInv, PoolTypes, PoolsInv, Overflowed
  <1>2. Stopped => PoolsInv
    BY DEF Stopped, PoolsInv
  <1> QED
    BY <1>1, <1>2, TasksInductive, PTL

\* src/main.cpp 18 and src2/main.cpp 21: with no more tasks than the ring has
\* cells, as both demos have it, no ring overflows at all.
THEOREM DemosFit ==
  ASSUME DemoTasks <= queueCapacity
  PROVE  ProgramSpec => []~Overflowed
  <1>1. ASSUME TasksInv, ~startled, [ProgramNext]_progVars PROVE TasksInv' /\ ~startled'
    <2>1. /\ OneProducer /\ PoolTypes /\ accepted = taken + queueSize /\ queueCapacity \in Nat
          /\ DemoTasks \in Nat /\ taken \in Nat
      BY <1>1, PoolAssumption, ProgramsAssumption DEF TasksInv, RingIsFifo, PoolTypes
    <2>2. Demo => BlockedProducers = {}
      <3> SUFFICES ASSUME Demo, NEW p \in Producers, ppc[p] = "waiting" PROVE FALSE
        BY DEF BlockedProducers
      <3>1. queueSize = queueCapacity /\ accepted <= DemoTasks - 1
        BY <2>1 DEF OneProducer, Limit
      <3> QED
        BY <2>1, <3>1
    <2>3. ~startled'
      BY <1>1, <2>2
      DEF ProgramNext, Continue, UnsignalledReturn, SpuriousWakeup, progVars
    <2> QED
      BY <1>1, <2>3, TasksInvNext DEF Stopped
  <1>2. TasksInv => ~Overflowed
    BY PoolAssumption DEF TasksInv, PoolTypes, Overflowed
  <1>3. ProgramInit => ~startled
    BY DEF ProgramInit
  <1> QED
    BY <1>1, <1>2, <1>3, TasksInvInit, PTL DEF ProgramSpec

\* src/threadpool.cpp 105-121, src2/pthreadpool.cpp 86-102: all four pools are the
\* first-in first-out bounded queue to their programs, those of the servers with
\* waits that return unsignalled, and the two that do not look again for room as
\* long as no such return lets main go on.
THEOREM ProgramsImplementTaskQueue ==
  ProgramSpec /\ [](Demo => ~startled) => ImplementsTaskQueue
  <1>1. ProgramInit => TQ!TQInit
    BY ImplementsInit DEF ProgramInit
  <1>2. ASSUME TasksInv \/ Stopped, Demo => ~startled, (Demo => ~startled)',
               [ProgramNext]_progVars
        PROVE  [TQ!TQNext]_TQ!tqVars
    <2>1. TasksInv /\ TasksInv' /\ TaskEffect
      BY <1>2, TasksInvNext DEF Stopped
    <2> QED
      BY <2>1, ImplementsStep DEF TasksInv
  <1> QED
    BY <1>1, <1>2, TasksInductive, PTL DEF ProgramSpec, TQ!TQSpec, ImplementsTaskQueue
-----------------------------------------------------------------------------
(* Whoever waits for room has help *)

\* Lines 196-214 leave a worker about to sleep alone with an empty queue.
LEMMA LooksKept ==
  ASSUME PoolTypes, LooksWhenEmpty, ProgramMove
  PROVE  LooksWhenEmpty'
  <1> USE DEF LooksWhenEmpty
  <1>0. wpc \in [Slots -> PoolStates]
    BY DEF PoolTypes
  <1>1. ASSUME UNCHANGED queueSize, \A w \in Slots : wpc'[w] = "blocking" => wpc[w] = "blocking"
        PROVE  LooksWhenEmpty'
    BY <1>1
  <1>2. ASSUME SignalNotEmpty \/ UNCHANGED wpc
        PROVE  \A w \in Slots : wpc'[w] = "blocking" => wpc[w] = "blocking"
    BY <1>0, <1>2 DEF SignalNotEmpty, Blocked
  <1>3. ASSUME NEW w \in Slots, TestNotEmpty(w), PoolLockFree PROVE LooksWhenEmpty'
    BY <1>0, <1>3 DEF TestNotEmpty, Dequeue, PoolLockFree, queueVars
  <1>4. ASSUME NEW w \in Slots, Worker(w) PROVE LooksWhenEmpty'
    <2>1. CASE Acquire(w) \/ WakeStays(w)
      BY <1>3, <2>1 DEF Acquire, WakeStays
    <2>2. CASE ~(Acquire(w) \/ WakeStays(w))
      BY <1>0, <1>1, <1>4, <2>2
      DEF Worker, CondWait, WakeExits, BeginTask, RunTask, EndTask, threadExit, queueVars
    <2> QED
      BY <2>1, <2>2
  <1>5. ASSUME NEW p \in Producers, AddsInTurn(p) PROVE LooksWhenEmpty'
    <2>1. \A w \in Slots : wpc[w] # "blocking"
      BY <1>5 DEF AddsInTurn, Adds, PoolLockFree
    <2>2. SignalNotEmpty \/ UNCHANGED wpc
      BY <1>5 DEF AddsInTurn, TestNotFull, Enqueue
    <2> QED
      BY <1>2, <2>1, <2>2
  <1>6. ASSUME ManagerMove PROVE LooksWhenEmpty'
    <2>1. UNCHANGED queueSize
      BY <1>6 DEF ManagerMove, managerFrame, queueVars
    <2>2. CASE StartsWorkers
      BY <1>0, <1>1, <2>1, <2>2 DEF StartsWorkers
    <2> QED
      BY <1>1, <1>2, <1>6, <2>1, <2>2 DEF ManagerMove
  <1>7. ASSUME Destroyer PROVE LooksWhenEmpty'
    BY <1>1, <1>2, <1>7
    DEF Destroyer, Shutdown, JoinManager, WakeConsumer, Free, destroyFrame, queueVars
  <1> QED
    BY <1>4, <1>5, <1>6, <1>7 DEF ProgramMove

\* A task is kept from its dequeueing to its end.
LEMMA TasksHeldKept ==
  ASSUME PoolTypes, TasksHeld, TaskEffect
  PROVE  TasksHeld'
  <1> USE DEF TasksHeld
  <1>0. taskOf \in [Slots -> Nat]
    BY DEF PoolTypes
  <1>1. ASSUME UNCHANGED <<taskOf, Holding>> PROVE TasksHeld'
    BY <1>1
  <1>2. ASSUME NEW w \in Slots, TakesTask(w) PROVE TasksHeld'
    BY <1>0, <1>2, TakesHolding DEF TakesTask, Dequeue
  <1>3. ASSUME NEW w \in Slots, RunTask(w) PROVE TasksHeld'
    BY <1>0, <1>3, RunHolding DEF RunTask
  <1> QED
    BY <1>1, <1>2, <1>3
    DEF TaskEffect, AddsTask, Shutdown, destroyFrame, LeavesTasks, taskVars

\* connect is the first task, and the next one comes from it.
LEMMA ConnectFirstKept ==
  ASSUME TasksInv, ConnectFirst, TaskEffect, ProgramMove, UNCHANGED program
  PROVE  ConnectFirst'
  <1>0. /\ Server' = Server /\ ~(Demo /\ Server) /\ taken \in Nat /\ accepted \in Nat
        /\ PoolTypes /\ EachTaskOnce
    BY DEF TasksInv, Server, Demo, Servers, Demos, PoolTypes
  <1>1. ASSUME UNCHANGED <<accepted, taken>> PROVE ConnectFirst'
    BY <1>0, <1>1 DEF ConnectFirst
  <1>2. ASSUME NEW w \in Slots, TakesTask(w) PROVE ConnectFirst'
    BY <1>0, <1>2 DEF TakesTask, Dequeue, ConnectFirst
  <1>3. ASSUME NEW w \in Slots, RunTask(w) PROVE UNCHANGED <<accepted, taken>>
    BY <1>3 DEF RunTask, workerFrame
  <1>4. ASSUME NEW p \in Producers, AddsInTurn(p) PROVE ConnectFirst'
    <2>1. UNCHANGED taken /\ (accepted' = accepted + 1 \/ UNCHANGED accepted)
      BY <1>4 DEF AddsInTurn, Adds, addFrame, TestNotFull, Enqueue
    <2>2. ASSUME InConnect PROVE taken # 0
      <3>1. PICK w \in Slots : wpc[w] = "running" /\ taskOf[w] = ConnectTask
        BY <2>2 DEF InConnect
      <3>2. w \in Holding
        BY <3>1 DEF Holding
      <3>3. taskOf[w] \in 1 .. taken
        BY <1>0, <3>2 DEF EachTaskOnce
      <3> QED
        BY <1>0, <3>3
    <2>3. Server => accepted = 0 \/ InConnect
      BY <1>4 DEF AddsInTurn
    <2> QED
      BY <1>0, <2>1, <2>2, <2>3 DEF ConnectFirst
  <1>5. ASSUME ~\E p \in Producers : AddsInTurn(p) PROVE UNCHANGED <<accepted, taken>> \/ \E w \in Slots : TakesTask(w)
    BY <1>0, <1>3, <1>5, WorkerEffect, ManagerEffect, DestroyerEffect
    DEF ProgramMove, LeavesTasks, taskVars, Shutdown, destroyFrame, historyVars
  <1> QED
    BY <1>1, <1>2, <1>4, <1>5
\* A worker that is woken for a task makes one more that is to wake; it slept,
\* so it was no worker at work.
LEMMA SignalledWorker ==
  ASSUME PoolTypes, TasksHeld, NEW v \in Blocked, wpc' = [wpc EXCEPT ![v] = "woken"],
         UNCHANGED <<taskOf, program>>
  PROVE  /\ AllAsleep' => AllAsleep
         /\ Cardinality(Woken') = Cardinality(Woken) + 1
  <1>0. v \in Slots /\ wpc[v] = "waiting" /\ wpc \in [Slots -> PoolStates]
    BY DEF Blocked, PoolTypes
  <1>1. taskOf[v] = 0
    BY <1>0 DEF TasksHeld, Holding
  <1>2. v \in Servants /\ Servants' = Servants
    BY <1>0, <1>1 DEF Servants, Live, NoWorker, ConnectTask, Server
  <1>3. \A u \in Slots \ {v} : wpc'[u] = wpc[u]
    BY <1>0
  <1>4. AllAsleep' => AllAsleep
    BY <1>0, <1>2, <1>3 DEF AllAsleep, Servants, Live
  <1>5. Woken' = Woken \cup {v} /\ v \notin Woken
    BY <1>0 DEF Woken
  <1>6. IsFiniteSet(Woken)
    BY SlotsFinite DEF Woken
  <1> QED
    BY <1>4, <1>5, <1>6, FS_AddElement

\* A step that at most wakes a worker keeps the count of the tasks' signals.
LEMMA SignalKeepsHelp ==
  ASSUME PoolTypes, TasksHeld, HelpLeft, SignalNotEmpty \/ UNCHANGED wpc,
         UNCHANGED <<taskOf, program, queueSize, liveNum>>, shutdown => shutdown'
  PROVE  HelpLeft'
  <1>0. /\ liveNum \in Nat /\ queueSize \in Nat /\ maxNum \in Nat
        /\ Cardinality(Woken) \in Nat /\ shutdown \in BOOLEAN
    BY PoolAssumption, SlotsFinite DEF PoolTypes, Woken
  <1>1. CASE UNCHANGED wpc
    BY <1>1
    DEF HelpLeft, AllAsleep, Servants, Live, Blocked, Woken, Server
  <1>2. ASSUME NEW v \in Blocked, wpc' = [wpc EXCEPT ![v] = "woken"] PROVE HelpLeft'
    <2>1. (AllAsleep' => AllAsleep) /\ Cardinality(Woken') = Cardinality(Woken) + 1
      BY <1>2, SignalledWorker
    <2>2. queueSize' = queueSize /\ liveNum' = liveNum
      OBVIOUS
    <2> QED
      BY <1>0, <2>1, <2>2 DEF HelpLeft
  <1> QED
    BY <1>1, <1>2 DEF SignalNotEmpty

\* A worker that looks at the queue takes a task, and is at work, or leaves no
\* task to speak of.
LEMMA LookKeepsHelp ==
  ASSUME TasksInv, ConnectFirst, NEW w \in Slots, wpc[w] \in {"ready", "woken"},
         TestNotEmpty(w), UNCHANGED <<shutdown, program>>
  PROVE  HelpLeft'
  <1>0. /\ PoolTypes /\ RingIsFifo
        /\ wpc \in [Slots -> PoolStates] /\ taskOf \in [Slots -> Nat]
        /\ queueSize \in Nat /\ taken \in Nat /\ accepted = taken + queueSize
    BY PoolAssumption DEF TasksInv, PoolTypes, RingIsFifo
  <1>1. CASE queueSize = 0 /\ UNCHANGED queueVars
    BY <1>1 DEF queueVars, HelpLeft
  <1>2. CASE shutdown
    BY <1>2 DEF HelpLeft
  <1>3. CASE queueSize # 0 /\ Dequeue(w)
    <2>1. /\ wpc' = [wpc EXCEPT ![w] = "taken"] /\ queueSize' = queueSize - 1
          /\ taskOf' = [taskOf EXCEPT ![w] = taken + 1]
      BY <1>0, <1>3, HeadOfRing DEF Dequeue
    <2>2. CASE Server /\ taken = 0
      <3>1. queueSize' = 0
        BY <1>0, <1>3, <2>1, <2>2 DEF ConnectFirst
      <3> QED
        BY <3>1 DEF HelpLeft
    <2>3. CASE ~(Server /\ taken = 0)
      <3>1. wpc'[w] = "taken" /\ taskOf'[w] = taken + 1
        BY <1>0, <2>1
      <3>2. w \in Servants'
        BY <1>0, <2>3, <3>1 DEF Servants, Live, NoWorker, ConnectTask, Server
      <3>3. ~AllAsleep'
        BY <3>1, <3>2 DEF AllAsleep
      <3> QED
        BY <3>3 DEF HelpLeft
    <2> QED
      BY <2>2, <2>3
  <1> QED
    BY <1>1, <1>2, <1>3 DEF TestNotEmpty

\* A worker keeps the count: it leaves it alone, or leaves the pool with its
\* signal, or is at work.
LEMMA WorkerKeepsHelp ==
  ASSUME TasksInv, HelpInv, NEW w \in Slots, Worker(w), UNCHANGED program
  PROVE  HelpLeft'
  <1>0. /\ wpc \in [Slots -> PoolStates] /\ taskOf \in [Slots -> Nat]
        /\ queueSize \in Nat /\ liveNum \in Nat /\ maxNum \in Nat
        /\ Cardinality(Woken) \in Nat /\ IsFiniteSet(Woken)
        /\ LooksWhenEmpty /\ TasksHeld /\ ConnectFirst /\ HelpLeft
    BY PoolAssumption, SlotsFinite DEF TasksInv, HelpInv, PoolTypes, Woken
  <1>1. ASSUME wpc'[w] \in {"ready", "running", "finished"}, taskOf'[w] = 0 PROVE HelpLeft'
    <2>1. w \in Servants'
      BY <1>1 DEF Servants, Live, NoWorker, ConnectTask
    <2> QED
      BY <1>1, <2>1 DEF AllAsleep, HelpLeft
  <1>2. CASE Acquire(w) \/ WakeStays(w)
    BY <1>0, <1>2, LookKeepsHelp DEF Acquire, WakeStays, At, workerFrame, destroyVars
  <1>3. CASE CondWait(w)
    BY <1>0, <1>3 DEF CondWait, At, LooksWhenEmpty, HelpLeft, queueVars
  <1>4. CASE WakeExits(w)
    <2>1. /\ w \in Woken /\ Woken' = Woken \ {w} /\ Blocked' = Blocked
          /\ Servants' = Servants \ {w} /\ liveNum' = liveNum - 1
          /\ UNCHANGED <<queueSize, shutdown>>
      BY <1>0, <1>4
      DEF WakeExits, At, Woken, Blocked, Servants, Live, NoWorker, Server, queueVars,
          workerFrame, destroyVars
    <2>2. Cardinality(Woken') = Cardinality(Woken) - 1
      BY <1>0, <2>1, FS_RemoveElement
    <2>3. AllAsleep' => AllAsleep
      BY <1>0, <1>4, <2>1 DEF AllAsleep, WakeExits, At, Servants, Live
    <2> QED
      BY <1>0, <2>1, <2>2, <2>3 DEF HelpLeft
  <1>5. CASE BeginTask(w)
    <2>1. /\ Woken' = Woken /\ Blocked' = Blocked /\ Servants' = Servants
          /\ UNCHANGED <<queueSize, shutdown, liveNum>>
      BY <1>0, <1>5
      DEF BeginTask, At, Woken, Blocked, Servants, Live, NoWorker, Server, queueVars,
          workerFrame, destroyVars
    <2>2. AllAsleep' => AllAsleep
      BY <1>0, <1>5, <2>1 DEF AllAsleep, BeginTask, At, Servants, Live
    <2> QED
      BY <1>0, <2>1, <2>2 DEF HelpLeft
  <1>6. CASE RunTask(w)
    BY <1>0, <1>1, <1>6 DEF RunTask
  <1>7. CASE EndTask(w)
    <2>1. taskOf'[w] = 0
      BY <1>0, <1>7 DEF EndTask, At, TasksHeld, Holding
    <2> QED
      BY <1>0, <1>1, <1>7, <2>1 DEF EndTask
  <1>8. CASE threadExit(w)
    <2>1. /\ Woken' = Woken /\ Blocked' = Blocked /\ Servants' = Servants
          /\ UNCHANGED <<queueSize, shutdown, liveNum>>
      BY <1>0, <1>8
      DEF threadExit, At, Woken, Blocked, Servants, Live, NoWorker, Server, queueVars,
          counterVars, workerFrame, destroyVars
    <2>2. AllAsleep' => AllAsleep
      BY <1>0, <1>8, <2>1 DEF AllAsleep, threadExit, At, Servants, Live, NoWorker
    <2> QED
      BY <1>0, <2>1, <2>2 DEF HelpLeft
  <1> QED
    BY <1>2, <1>3, <1>4, <1>5, <1>6, <1>7, <1>8 DEF Worker

\* Every move keeps the count.
LEMMA HelpLeftKept ==
  ASSUME TasksInv, HelpInv, ProgramMove, UNCHANGED program
  PROVE  HelpLeft'
  <1>0. /\ wpc \in [Slots -> PoolStates] /\ taskOf \in [Slots -> Nat]
        /\ queueSize \in Nat /\ liveNum \in Nat /\ maxNum \in Nat
        /\ Cardinality(Woken) \in Nat
        /\ PoolTypes /\ TasksHeld /\ HelpLeft /\ CountersExact
    BY PoolAssumption, SlotsFinite DEF TasksInv, HelpInv, PoolTypes, Woken
  <1>1. ASSUME NEW p \in Producers, AddsInTurn(p) PROVE HelpLeft'
    <2>1. UNCHANGED <<taskOf, liveNum, shutdown>>
      BY <1>1 DEF AddsInTurn, Adds, addFrame, counterVars, destroyVars
    <2>2. CASE UNCHANGED <<queueVars, wpc, accepted>>
      BY <1>0, <2>1, <2>2, SignalKeepsHelp DEF queueVars
    <2>3. CASE ~shutdown /\ Enqueue(p)
      <3>1. queueSize' = queueSize + 1 /\ SignalNotEmpty
        BY <2>3 DEF Enqueue
      <3>2. CASE Blocked = {} /\ UNCHANGED wpc
        BY <3>2 DEF HelpLeft, AllAsleep, Blocked
      <3>3. ASSUME NEW v \in Blocked, wpc' = [wpc EXCEPT ![v] = "woken"] PROVE HelpLeft'
        <4>1. /\ AllAsleep' => AllAsleep
              /\ Cardinality(Woken') = Cardinality(Woken) + 1
          BY <1>0, <2>1, <3>3, SignalledWorker
        <4>2. liveNum <= maxNum
          BY <1>0, <2>3, LiveFits
        <4> QED
          BY <1>0, <2>1, <2>3, <3>1, <4>1, <4>2 DEF HelpLeft
      <3> QED
        BY <3>1, <3>2, <3>3 DEF SignalNotEmpty
    <2> QED
      BY <1>1, <2>2, <2>3 DEF AddsInTurn, TestNotFull
  <1>2. ASSUME ManagerMove PROVE HelpLeft'
    <2>1. UNCHANGED <<taskOf, queueSize, shutdown>>
      BY <1>2 DEF ManagerMove, managerFrame, queueVars, destroyVars
    <2>2. CASE StartsWorkers
      <3>1. PICK new \in SUBSET {i \in Slots : wpc[i] = "none"} :
              /\ wpc' = [i \in Slots |-> IF i \in new THEN "ready" ELSE wpc[i]]
              /\ liveNum' = liveNum + Cardinality(new)
        BY <2>2 DEF StartsWorkers
      <3>2. CASE new = {}
        <4>1. wpc' = wpc
          BY <1>0, <3>1, <3>2
        <4>2. liveNum' = liveNum
          BY <1>0, <3>1, <3>2, FS_EmptySet
        <4> QED
          BY <1>0, <2>1, <4>1, <4>2, SignalKeepsHelp
      <3>3. ASSUME NEW v \in new PROVE HelpLeft'
        <4>1. v \in Slots /\ wpc[v] = "none" /\ wpc'[v] = "ready"
          BY <3>1
        <4>2. taskOf'[v] = 0
          BY <1>0, <2>1, <4>1 DEF TasksHeld, Holding
        <4>3. v \in Servants'
          BY <4>1, <4>2 DEF Servants, Live, NoWorker, ConnectTask
        <4> QED
          BY <4>1, <4>3 DEF AllAsleep, HelpLeft
      <3> QED
        BY <3>2, <3>3
    <2> QED
      BY <1>0, <1>2, <2>1, <2>2, SignalKeepsHelp DEF ManagerMove
  <1>3. ASSUME Destroyer PROVE HelpLeft'
    BY <1>0, <1>3, SignalKeepsHelp
    DEF Destroyer, Shutdown, JoinManager, WakeConsumer, Free, destroyFrame, queueVars,
        counterVars
  <1> QED
    BY <1>1, <1>2, <1>3, WorkerKeepsHelp DEF ProgramMove

\* A producer's return takes no help away.
LEMMA ReturnKeepsHelp ==
  ASSUME HelpInv, WaiterReturns
  PROVE  HelpInv'
  BY DEF HelpInv, LooksWhenEmpty, TasksHeld, ConnectFirst, HelpLeft, AllAsleep, Servants, Woken,
         Live, Blocked, Holding, Server, WaiterReturns, queueVars, counterVars, destroyVars,
         historyVars

\* The invariant with the workers' help is inductive.
LEMMA ProgramInvNext == ProgramInv /\ [ProgramNext]_progVars => ProgramInv'
  <1> SUFFICES ASSUME ProgramInv, [ProgramNext]_progVars PROVE ProgramInv'
    OBVIOUS
  <1>1. CASE Stopped
    BY <1>1, StoppedStays DEF ProgramInv
  <1>2. CASE TasksInv /\ HelpInv
    <2>1. CASE Stopped'
      BY <2>1 DEF ProgramInv
    <2>2. CASE TasksInv' /\ TaskEffect
      <3>1. ASSUME ProgramMove, UNCHANGED program PROVE HelpInv'
        BY <1>2, <2>2, <3>1, LooksKept, TasksHeldKept, ConnectFirstKept, HelpLeftKept
        DEF TasksInv, HelpInv
      <3>2. ASSUME NEW p \in Producers, Overflows(p) PROVE Stopped'
        BY <1>2, <3>2, OverflowStops
      <3>3. CASE ProgramNext
        BY <1>2, <2>2, <3>1, <3>2, <3>3, ProgramMoves, ReturnKeepsHelp DEF TasksInv, ProgramInv
      <3>4. CASE UNCHANGED progVars
        BY <1>2, <2>2, <3>4
        DEF ProgramInv, HelpInv, LooksWhenEmpty, TasksHeld, ConnectFirst, HelpLeft, AllAsleep,
            Servants, Woken, Live, Blocked, Holding, Server, progVars, vars, queueVars,
            counterVars, destroyVars, historyVars
      <3> QED
        BY <3>3, <3>4
    <2> QED
      BY <1>2, <2>1, <2>2, TasksInvNext
  <1> QED
    BY <1>1, <1>2 DEF ProgramInv

\* A program begins with it.
LEMMA ProgramInvInit == ProgramInit => ProgramInv
  BY TasksInvInit
  DEF ProgramInit, Init, ProgramInv, HelpInv, LooksWhenEmpty, TasksHeld, ConnectFirst, HelpLeft

\* With more cells than threads may leave, the ring cannot fill on the signals of
\* workers that left.
LEMMA WaiterIsHelped ==
  ASSUME TasksInv, HelpInv, RingOutlastsExits
  PROVE  WaiterHasHelp
  <1>0. /\ queueCapacity \in Nat \ {0} /\ minNum \in Nat /\ maxNum \in Nat /\ liveNum \in Nat
        /\ minNum <= liveNum /\ queueCapacity > maxNum - minNum /\ Limit \in Nat
        /\ shutdown \in BOOLEAN /\ ~(Demo /\ Server) /\ (Demo \/ Server)
        /\ OneProducer /\ ShutdownLast /\ LooksWhenEmpty /\ TasksHeld /\ HelpLeft
    BY PoolAssumption, ProgramsAssumption
    DEF TasksInv, HelpInv, PoolTypes, RingOutlastsExits, Limit, Demo, Server, Demos, Servers
  <1> SUFFICES ASSUME NEW p \in BlockedProducers,
                      NEW others, others = {w \in Live : p = "connect" => taskOf[w] # ConnectTask},
                      others # {}, others \cap Awake = {}
               PROVE  FALSE
    BY DEF WaiterHasHelp
  <1>1. /\ p = Acceptor /\ accepted < Limit /\ accepted \in Nat /\ queueSize = queueCapacity
    BY <1>0 DEF BlockedProducers, OneProducer
  <1>2. ~shutdown
    BY <1>0, <1>1 DEF ShutdownLast, Limit
  <1>3. others = Servants
    BY <1>0, <1>1 DEF Acceptor, Servants
  <1>4. \A w \in Slots : wpc[w] # "blocking"
    BY <1>0, <1>1 DEF LooksWhenEmpty
  <1>5. \A w \in Servants : w \in Slots /\ wpc[w] = "waiting"
    BY <1>3, <1>4 DEF Awake, Servants, Live
  <1>6. AllAsleep
    BY <1>3, <1>5 DEF AllAsleep, Blocked
  <1>7. Woken = {}
    <2> SUFFICES ASSUME NEW w \in Slots, wpc[w] = "woken" PROVE FALSE
      BY DEF Woken
    <2>1. taskOf[w] = 0
      BY <1>0 DEF TasksHeld, Holding
    <2>2. w \in Servants
      BY <2>1 DEF Servants, Live, NoWorker, ConnectTask
    <2> QED
      BY <1>5, <2>2
  <1>8. Cardinality(Woken) = 0
    BY <1>7, FS_EmptySet
  <1>9. queueCapacity + liveNum <= maxNum
    BY <1>0, <1>1, <1>2, <1>6, <1>8 DEF HelpLeft
  <1> QED
    BY <1>0, <1>9

\* server.cpp 64-73: an acceptor that waits for room in the ring of the pool it
\* runs in, or a demo's main, has help: some other worker is awake, unless there
\* is none at all.  It takes the ring and the pool the programs ask for.
THEOREM AcceptorHasHelp ==
  ASSUME RingOutlastsExits
  PROVE  ProgramSpec => []WaiterHasHelp
  <1>1. ProgramInv => WaiterHasHelp
    BY WaiterIsHelped DEF ProgramInv, Stopped, WaiterHasHelp
  <1> QED
    BY <1>1, ProgramInvInit, ProgramInvNext, PTL DEF ProgramSpec
=============================================================================
