------------------------------ MODULE SemStack ------------------------------
(***************************************************************************)
(* The producers and consumers of thread/main.cpp: a linked list that is   *)
(* only touched under a mutex, with two counting semaphores, psem for the  *)
(* places left and csem for the nodes present.  New nodes go in front of   *)
(* head and are taken from head.  A thread is before its sem_wait or in    *)
(* its sleep ("wait"), between sem_wait and the critical section ("lock"), *)
(* or between the critical section and its sem_post ("post").              *)
(* The critical section itself is one step.                                *)
(***************************************************************************)
EXTENDS Integers, Sequences, FiniteSets

CONSTANTS Producers, Consumers, \* the threads created by main
          Places,               \* initial value of psem
          MaxNodes              \* bound of the model: nodes that are produced

ASSUME SemAssumption ==
  /\ IsFiniteSet(Producers) /\ IsFiniteSet(Consumers)
  /\ Producers \cap Consumers = {}
  /\ Places \in Nat /\ MaxNodes \in Nat

VARIABLES psem, csem, \* the semaphores
          list,       \* the nodes, head first
          pc,         \* per thread: "wait", "lock" or "post"
          made, used  \* history: nodes produced, the set of nodes consumed

vars == <<psem, csem, list, pc, made, used>>

Threads == Producers \cup Consumers
In(S, place) == {t \in S : pc[t] = place}

Init ==
  /\ psem = Places /\ csem = 0
  /\ list = << >>
  /\ pc = [t \in Threads |-> "wait"]
  /\ made = 0 /\ used = {}
-----------------------------------------------------------------------------
(* produce *)

\* Mutant: the producer does not wait for a place.
PWaitsForNothing(p) ==
  /\ pc[p] = "wait"
  /\ made + Cardinality(In(Producers, "lock")) < MaxNodes
  /\ pc' = [pc EXCEPT ![p] = "lock"]
  /\ UNCHANGED <<psem, csem, list, made, used>>

PWait(p) ==
  /\ pc[p] = "wait" /\ psem > 0
  /\ made + Cardinality(In(Producers, "lock")) < MaxNodes
  /\ psem' = psem - 1
  /\ pc' = [pc EXCEPT ![p] = "lock"]
  /\ UNCHANGED <<csem, list, made, used>>

\* Lines 207-213.
Push(p) ==
  /\ pc[p] = "lock"
  /\ made' = made + 1
  /\ list' = <<made + 1>> \o list
  /\ pc' = [pc EXCEPT ![p] = "post"]
  /\ UNCHANGED <<psem, csem, used>>

\* Mutant: the other semaphore is posted.
PPostsPsem(p) ==
  /\ pc[p] = "post"
  /\ psem' = psem + 1
  /\ pc' = [pc EXCEPT ![p] = "wait"]
  /\ UNCHANGED <<csem, list, made, used>>

PPost(p) ==
  /\ pc[p] = "post"
  /\ csem' = csem + 1
  /\ pc' = [pc EXCEPT ![p] = "wait"]
  /\ UNCHANGED <<psem, list, made, used>>
-----------------------------------------------------------------------------
(* consume *)

CWait(c) ==
  /\ pc[c] = "wait" /\ csem > 0
  /\ csem' = csem - 1
  /\ pc' = [pc EXCEPT ![c] = "lock"]
  /\ UNCHANGED <<psem, list, made, used>>

\* Mutant: head is not moved before the node is freed.
PopKeepsHead(c) ==
  /\ pc[c] = "lock" /\ list # << >>
  /\ used' = used \cup {Head(list)}
  /\ pc' = [pc EXCEPT ![c] = "post"]
  /\ UNCHANGED <<psem, csem, list, made>>

\* Lines 224-229.  With an empty list line 226 would read through a null
\* head: the program has no next state.
Pop(c) ==
  /\ pc[c] = "lock" /\ list # << >>
  /\ used' = used \cup {Head(list)}
  /\ list' = Tail(list)
  /\ pc' = [pc EXCEPT ![c] = "post"]
  /\ UNCHANGED <<psem, csem, made>>

CPost(c) ==
  /\ pc[c] = "post"
  /\ psem' = psem + 1
  /\ pc' = [pc EXCEPT ![c] = "wait"]
  /\ UNCHANGED <<csem, list, made, used>>
-----------------------------------------------------------------------------
Producer(p) == PWait(p) \/ Push(p) \/ PPost(p)
Consumer(c) == CWait(c) \/ Pop(c) \/ CPost(c)

Next == (\E p \in Producers : Producer(p)) \/ (\E c \in Consumers : Consumer(c))

Spec == Init /\ [][Next]_vars

(* Every thread that is not blocked runs on: the mutex is free between any *)
(* two steps, and sleep returns.                                           *)
FairSpec ==
  /\ Spec
  /\ \A p \in Producers : WF_vars(Producer(p))
  /\ \A c \in Consumers : WF_vars(Consumer(c))
-----------------------------------------------------------------------------
TypeOK ==
  /\ psem \in Nat /\ csem \in Nat
  /\ list \in Seq(Nat) /\ made \in Nat /\ used \subseteq Nat
  /\ pc \in [Threads -> {"wait", "lock", "post"}]

\* Lines 206-214, 223-230: the two semaphores and the threads between their
\* sem_wait and their sem_post always add up to psem's initial value.
PlacesConserved ==
  psem + csem
    + Cardinality(In(Producers, "lock")) + Cardinality(In(Producers, "post"))
    + Cardinality(In(Consumers, "lock")) + Cardinality(In(Consumers, "post")) = Places

\* Lines 208-230: a node is in the list for every unit of csem, every producer
\* that has yet to post it and every consumer that has yet to take it.
NodesCounted ==
  Len(list) = csem + Cardinality(In(Producers, "post")) + Cardinality(In(Consumers, "lock"))

\* The two of them are one inductive invariant: it is what keeps a consumer
\* from a null head and the list within Places nodes.
SemInv == TypeOK /\ PlacesConserved /\ NodesCounted

\* Lines 225-227: a consumer past its semaphore finds a node at head.
HeadIsNode == In(Consumers, "lock") # {} => list # << >>

\* The list never holds more than Places nodes.
ListBounded == Len(list) <= Places

\* Lines 208-211, 225-228: every node is in the list once or has been consumed
\* once, whichever threads interleave.
EachNodeOnce ==
  /\ {list[i] : i \in DOMAIN list} \cup used = 1 .. made
  /\ Len(list) + Cardinality(used) = made

\* Lines 214 and 223: whenever nodes are present one more is consumed after a
\* while.  It need not be a given one: the list is last in first out, and the
\* oldest node may stay for ever.
ConsumptionGoesOn ==
  \A n \in 0 .. MaxNodes :
    (list # << >> /\ Cardinality(used) = n) ~> Cardinality(used) > n
=============================================================================
