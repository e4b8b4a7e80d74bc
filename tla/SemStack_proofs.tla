-------------------------- MODULE SemStack_proofs ---------------------------
(* Proofs about SemStack, for any number of threads and of places. *)
EXTENDS SemStack, FiniteSetTheorems, SequenceTheorems, TLAPS

Count(S, place) == Cardinality(In(S, place))

-----------------------------------------------------------------------------
(* Counting threads *)

\* The threads of a finite set that are at one place can be counted.
LEMMA CountType ==
  ASSUME NEW S, IsFiniteSet(S), NEW place
  PROVE  IsFiniteSet(In(S, place)) /\ Count(S, place) \in Nat
  BY FS_Subset, FS_CardinalityType DEF In, Count

\* How many threads of S the program counters f put at x.
At(f, S, x) == Cardinality({u \in S : f[u] = x})

\* The program counters f become g: thread t of S goes from a to b.
Move(f, g, S, t, a, b) ==
  /\ S \subseteq DOMAIN f /\ IsFiniteSet(S) /\ t \in S
  /\ f[t] = a /\ a # b
  /\ g = [f EXCEPT ![t] = b]

\* A move takes one thread from a's count to b's and changes no other.
LEMMA MoveCounts ==
  ASSUME NEW f, NEW g, NEW S, NEW t, NEW a, NEW b, Move(f, g, S, t, a, b)
  PROVE  /\ At(g, S, a) = At(f, S, a) - 1
         /\ At(g, S, b) = At(f, S, b) + 1
         /\ \A x : x # a /\ x # b => At(g, S, x) = At(f, S, x)
  <1> DEFINE F(x) == {u \in S : f[u] = x}
             G(x) == {u \in S : g[u] = x}
  <1>1. /\ IsFiniteSet(F(a)) /\ Cardinality(F(a)) \in Nat
        /\ IsFiniteSet(F(b)) /\ Cardinality(F(b)) \in Nat
    BY FS_Subset, FS_CardinalityType DEF Move
  <1>2. G(a) = F(a) \ {t} /\ t \in F(a)
    BY DEF Move
  <1>3. G(b) = F(b) \cup {t} /\ t \notin F(b)
    BY DEF Move
  <1>4. \A x : x # a /\ x # b => G(x) = F(x)
    BY DEF Move
  <1>5. Cardinality(G(a)) = Cardinality(F(a)) - 1
    BY <1>1, <1>2, FS_RemoveElement
  <1>6. Cardinality(G(b)) = Cardinality(F(b)) + 1
    BY <1>1, <1>3, FS_AddElement
  <1> QED
    BY <1>4, <1>5, <1>6 DEF At

\* A thread outside S that moves is not counted in S.
LEMMA OthersStay ==
  ASSUME NEW D, NEW V, NEW f \in [D -> V], NEW S, S \subseteq D,
         NEW t \in D \ S, NEW b, NEW g, g = [f EXCEPT ![t] = b], NEW x
  PROVE  {u \in S : g[u] = x} = {u \in S : f[u] = x}
  OBVIOUS
-----------------------------------------------------------------------------
(* The invariant *)

\* The initial state has its types.
LEMMA SemTypeInit == Init => TypeOK
  BY SemAssumption DEF Init, TypeOK

\* Every step of produce and consume keeps the types.
LEMMA SemTypeNext == TypeOK /\ [Next]_vars => TypeOK'
  <1> SUFFICES ASSUME TypeOK, [Next]_vars PROVE TypeOK'
    OBVIOUS
  <1> USE DEF TypeOK
  <1>1. ASSUME NEW p \in Producers, Producer(p) PROVE TypeOK'
    <2>1. CASE PWait(p)
      BY <2>1 DEF PWait, Threads
    <2>2. CASE Push(p)
      <3>1. <<made + 1>> \o list \in Seq(Nat)
        BY ConcatProperties
      <3> QED
        BY <2>2, <3>1 DEF Push, Threads
    <2>3. CASE PPost(p)
      BY <2>3 DEF PPost, Threads
    <2> QED
      BY <1>1, <2>1, <2>2, <2>3 DEF Producer
  <1>2. ASSUME NEW c \in Consumers, Consumer(c) PROVE TypeOK'
    <2>1. CASE CWait(c)
      BY <2>1 DEF CWait, Threads
    <2>2. CASE Pop(c)
      BY <2>2, HeadTailProperties DEF Pop, Threads
    <2>3. CASE CPost(c)
      BY <2>3 DEF CPost, Threads
    <2> QED
      BY <1>2, <2>1, <2>2, <2>3 DEF Consumer
  <1>3. CASE UNCHANGED vars
    BY <1>3 DEF vars
  <1> QED
    BY <1>1, <1>2, <1>3 DEF Next

\* At the start all places are in psem and the list is empty.
LEMMA SemInvInit == Init => SemInv
  <1> SUFFICES ASSUME Init PROVE PlacesConserved /\ NodesCounted
    BY SemTypeInit DEF SemInv
  <1>1. \A S \in SUBSET Threads : In(S, "lock") = {} /\ In(S, "post") = {}
    BY DEF Init, In
  <1>2. Producers \in SUBSET Threads /\ Consumers \in SUBSET Threads
    BY DEF Threads
  <1>3. /\ In(Producers, "lock") = {} /\ In(Producers, "post") = {}
        /\ In(Consumers, "lock") = {} /\ In(Consumers, "post") = {}
    BY <1>1, <1>2
  <1>4. /\ Cardinality(In(Producers, "lock")) = 0 /\ Cardinality(In(Producers, "post")) = 0
        /\ Cardinality(In(Consumers, "lock")) = 0 /\ Cardinality(In(Consumers, "post")) = 0
    BY <1>3, FS_EmptySet
  <1>5. psem = Places /\ csem = 0 /\ Len(list) = 0 /\ Places \in Nat
    BY SemAssumption DEF Init
  <1>6. PlacesConserved
    BY <1>4, <1>5, Z3 DEF PlacesConserved
  <1>7. NodesCounted
    BY <1>4, <1>5, Z3 DEF NodesCounted
  <1> QED
    BY <1>6, <1>7

\* The counts the invariant speaks of.
PL == Count(Producers, "lock")
PP == Count(Producers, "post")
CL == Count(Consumers, "lock")
CP == Count(Consumers, "post")

\* SemInv, said with the four counts.
LEMMA SemInvCounts ==
  SemInv <=> /\ TypeOK
             /\ psem + csem + PL + PP + CL + CP = Places
             /\ Len(list) = csem + PP + CL
  BY DEF SemInv, PlacesConserved, NodesCounted, PL, PP, CL, CP, Count

\* The four counts are numbers.
LEMMA CountTypes ==
  /\ PL \in Nat /\ PP \in Nat /\ CL \in Nat /\ CP \in Nat
  BY CountType, SemAssumption DEF PL, PP, CL, CP

\* What a move of a producer, or of a consumer, does to the counts.
LEMMA ProducerMoves ==
  ASSUME TypeOK, NEW p \in Producers, NEW a, NEW b, a # b,
         pc[p] = a, pc' = [pc EXCEPT ![p] = b]
  PROVE  /\ Move(pc, pc', Producers, p, a, b)
         /\ CL' = CL /\ CP' = CP
  <1>1. /\ IsFiniteSet(Producers) /\ Producers \subseteq Threads
        /\ Consumers \subseteq Threads /\ p \in Threads \ Consumers
        /\ pc \in [Threads -> {"wait", "lock", "post"}]
    BY SemAssumption DEF Threads, TypeOK
  <1>2. Move(pc, pc', Producers, p, a, b)
    BY <1>1 DEF Move
  <1>3. CL' = CL
    BY <1>1, OthersStay DEF CL, Count, In
  <1>4. CP' = CP
    BY <1>1, OthersStay DEF CP, Count, In
  <1> QED
    BY <1>2, <1>3, <1>4

\* The same for a consumer.
LEMMA ConsumerMoves ==
  ASSUME TypeOK, NEW c \in Consumers, NEW a, NEW b, a # b,
         pc[c] = a, pc' = [pc EXCEPT ![c] = b]
  PROVE  /\ Move(pc, pc', Consumers, c, a, b)
         /\ PL' = PL /\ PP' = PP
  <1>1. /\ IsFiniteSet(Consumers) /\ Consumers \subseteq Threads
        /\ Producers \subseteq Threads /\ c \in Threads \ Producers
        /\ pc \in [Threads -> {"wait", "lock", "post"}]
    BY SemAssumption DEF Threads, TypeOK
  <1>2. Move(pc, pc', Consumers, c, a, b)
    BY <1>1 DEF Move
  <1>3. PL' = PL
    BY <1>1, OthersStay DEF PL, Count, In
  <1>4. PP' = PP
    BY <1>1, OthersStay DEF PP, Count, In
  <1> QED
    BY <1>2, <1>3, <1>4

\* Every sem_wait, critical section and sem_post keeps SemInv: what it takes
\* from one count it gives to another, or to the list.
LEMMA SemInvNext == SemInv /\ [Next]_vars => SemInv'
  <1> SUFFICES ASSUME SemInv, [Next]_vars
               PROVE  /\ (psem + csem + PL + PP + CL + CP = Places)'
                      /\ (Len(list) = csem + PP + CL)'
    <2>1. (SemInv <=> /\ TypeOK
                      /\ psem + csem + PL + PP + CL + CP = Places
                      /\ Len(list) = csem + PP + CL)'
      BY SemInvCounts, PTL
    <2> QED
      BY <2>1, SemTypeNext DEF SemInv
  <1>0. /\ PL = At(pc, Producers, "lock") /\ PP = At(pc, Producers, "post")
        /\ CL = At(pc, Consumers, "lock") /\ CP = At(pc, Consumers, "post")
        /\ PL' = At(pc', Producers, "lock") /\ PP' = At(pc', Producers, "post")
        /\ CL' = At(pc', Consumers, "lock") /\ CP' = At(pc', Consumers, "post")
    BY DEF PL, PP, CL, CP, Count, In, At
  <1>1. /\ TypeOK /\ psem \in Nat /\ csem \in Nat /\ Places \in Nat
        /\ psem + csem + PL + PP + CL + CP = Places
        /\ Len(list) = csem + PP + CL
        /\ PL \in Nat /\ PP \in Nat /\ CL \in Nat /\ CP \in Nat
    BY SemInvCounts, CountTypes, SemAssumption DEF TypeOK
  <1>2. ASSUME NEW p \in Producers, Producer(p)
        PROVE  /\ psem' + csem' + PL' + PP' + CL' + CP' = Places
               /\ Len(list') = csem' + PP' + CL'
    <2>1. CASE PWait(p)
      <3>2. /\ Move(pc, pc', Producers, p, "wait", "lock")
            /\ CL' = CL /\ CP' = CP
        BY <1>1, <2>1, ProducerMoves DEF PWait
      <3>3. PL' = PL + 1 /\ PP' = PP
        BY <1>0, <3>2, MoveCounts
      <3> QED
        BY <1>1, <2>1, <3>2, <3>3 DEF PWait
    <2>2. CASE Push(p)
      <3>1. Len(list') = Len(list) + 1
        BY <2>2, ConcatProperties DEF Push, TypeOK, SemInv
      <3>2. /\ Move(pc, pc', Producers, p, "lock", "post")
            /\ CL' = CL /\ CP' = CP
        BY <1>1, <2>2, ProducerMoves DEF Push
      <3>3. PL' = PL - 1 /\ PP' = PP + 1
        BY <1>0, <3>2, MoveCounts
      <3> QED
        BY <1>1, <2>2, <3>1, <3>2, <3>3 DEF Push
    <2>3. CASE PPost(p)
      <3>2. /\ Move(pc, pc', Producers, p, "post", "wait")
            /\ CL' = CL /\ CP' = CP
        BY <1>1, <2>3, ProducerMoves DEF PPost
      <3>3. PL' = PL /\ PP' = PP - 1
        BY <1>0, <3>2, MoveCounts
      <3> QED
        BY <1>1, <2>3, <3>2, <3>3 DEF PPost
    <2> QED
      BY <1>2, <2>1, <2>2, <2>3 DEF Producer
  <1>3. ASSUME NEW c \in Consumers, Consumer(c)
        PROVE  /\ psem' + csem' + PL' + PP' + CL' + CP' = Places
               /\ Len(list') = csem' + PP' + CL'
    <2>1. CASE CWait(c)
      <3>2. /\ Move(pc, pc', Consumers, c, "wait", "lock")
            /\ PL' = PL /\ PP' = PP
        BY <1>1, <2>1, ConsumerMoves DEF CWait
      <3>3. CL' = CL + 1 /\ CP' = CP
        BY <1>0, <3>2, MoveCounts
      <3> QED
        BY <1>1, <2>1, <3>2, <3>3 DEF CWait
    <2>2. CASE Pop(c)
      <3>1. Len(list') = Len(list) - 1
        BY <2>2, HeadTailProperties DEF Pop, TypeOK, SemInv
      <3>2. /\ Move(pc, pc', Consumers, c, "lock", "post")
            /\ PL' = PL /\ PP' = PP
        BY <1>1, <2>2, ConsumerMoves DEF Pop
      <3>3. CL' = CL - 1 /\ CP' = CP + 1
        BY <1>0, <3>2, MoveCounts
      <3> QED
        BY <1>1, <2>2, <3>1, <3>2, <3>3 DEF Pop
    <2>3. CASE CPost(c)
      <3>2. /\ Move(pc, pc', Consumers, c, "post", "wait")
            /\ PL' = PL /\ PP' = PP
        BY <1>1, <2>3, ConsumerMoves DEF CPost
      <3>3. CL' = CL /\ CP' = CP - 1
        BY <1>0, <3>2, MoveCounts
      <3> QED
        BY <1>1, <2>3, <3>2, <3>3 DEF CPost
    <2> QED
      BY <1>3, <2>1, <2>2, <2>3 DEF Consumer
  <1>4. CASE UNCHANGED vars
    BY <1>1, <1>4 DEF vars, PL, PP, CL, CP, Count, In
  <1> QED
    BY <1>2, <1>3, <1>4 DEF Next

\* Lines 203-234: the semaphores, the threads and the list add up in every
\* reachable state, for any number of threads and places.
THEOREM SemInvariant == Spec => []SemInv
  BY SemInvInit, SemInvNext, PTL DEF Spec
-----------------------------------------------------------------------------
(* What follows from it *)

\* The two semaphores and the threads under way add up to the initial places.
THEOREM PlacesAlwaysConserved == Spec => []PlacesConserved
  <1>1. SemInv => PlacesConserved
    BY DEF SemInv
  <1> QED
    BY <1>1, SemInvariant, PTL

\* A consumer that has passed its semaphore finds a node: head is not null,
\* for any number of producers, consumers and places.
THEOREM ConsumerFindsNode == Spec => []HeadIsNode
  <1>1. ASSUME SemInv PROVE HeadIsNode
    <2>1. ASSUME In(Consumers, "lock") # {} PROVE list # << >>
      <3>1. CL # 0
        BY <2>1, CountType, FS_EmptySet, SemAssumption DEF CL, Count
      <3>2. Len(list) # 0
        BY <1>1, <3>1, SemInvCounts, CountTypes DEF TypeOK
      <3> QED
        BY <3>2
    <2> QED
      BY <2>1 DEF HeadIsNode
  <1> QED
    BY <1>1, SemInvariant, PTL

\* The list never holds more nodes than there were places at the start.
THEOREM ListStaysBounded == Spec => []ListBounded
  <1>1. ASSUME SemInv PROVE ListBounded
    <2>1. /\ psem \in Nat /\ csem \in Nat /\ Places \in Nat
          /\ psem + csem + PL + PP + CL + CP = Places
          /\ Len(list) = csem + PP + CL
      BY <1>1, SemInvCounts, SemAssumption DEF TypeOK
    <2>2. PL \in Nat /\ PP \in Nat /\ CL \in Nat /\ CP \in Nat
      BY CountTypes
    <2>3. csem + PP + CL <= Places
      BY <2>1, <2>2
    <2> QED
      BY <2>1, <2>3 DEF ListBounded
  <1> QED
    BY <1>1, SemInvariant, PTL
-----------------------------------------------------------------------------
(* Sequences without repetition *)

Elements(s) == {s[i] : i \in DOMAIN s}
Distinct(s) == \A i, j \in DOMAIN s : s[i] = s[j] => i = j

\* A new first element is one more, and leaves the elements distinct.
LEMMA Prepended ==
  ASSUME NEW S, NEW s \in Seq(S), NEW e \in S
  PROVE  LET t == <<e>> \o s
         IN /\ t \in Seq(S) /\ Len(t) = Len(s) + 1
            /\ Elements(t) = Elements(s) \cup {e}
            /\ Distinct(s) /\ e \notin Elements(s) => Distinct(t)
  <1> DEFINE n == Len(s)
             t == <<e>> \o s
  <1>1. n \in Nat /\ DOMAIN s = 1 .. n
    BY LenProperties
  <1>2. /\ t \in Seq(S) /\ Len(t) = n + 1 /\ DOMAIN t = 1 .. n + 1
        /\ t[1] = e /\ \A k \in 1 .. n + 1 : k # 1 => t[k] = s[k - 1]
    <2>1. <<e>> \in Seq(S) /\ Len(<<e>>) = 1 /\ <<e>>[1] = e
      OBVIOUS
    <2>2. /\ t \in Seq(S) /\ Len(t) = 1 + n
          /\ \A k \in 1 .. 1 + n : t[k] = IF k <= 1 THEN <<e>>[k] ELSE s[k - 1]
      BY <2>1, ConcatProperties
    <2> QED
      BY <1>1, <2>1, <2>2, LenProperties
  <1> HIDE DEF n, t
  <1>3. ASSUME NEW k \in DOMAIN t PROVE t[k] \in Elements(s) \cup {e}
    <2>1. CASE k = 1
      BY <1>2, <2>1
    <2>2. CASE k # 1
      <3>1. k - 1 \in DOMAIN s /\ t[k] = s[k - 1]
        BY <1>1, <1>2, <2>2
      <3> QED
        BY <3>1 DEF Elements
    <2> QED
      BY <2>1, <2>2
  <1>4. ASSUME NEW k \in DOMAIN s PROVE s[k] \in Elements(t)
    <2>1. k + 1 \in DOMAIN t /\ t[k + 1] = s[k]
      BY <1>1, <1>2
    <2> QED
      BY <2>1 DEF Elements
  <1>5. e \in Elements(t)
    BY <1>1, <1>2 DEF Elements
  <1>6. Elements(t) = Elements(s) \cup {e}
    <2>1. Elements(t) \subseteq Elements(s) \cup {e}
      BY <1>3 DEF Elements
    <2>2. Elements(s) \subseteq Elements(t)
      BY <1>4 DEF Elements
    <2> QED
      BY <1>5, <2>1, <2>2
  <1>7. ASSUME Distinct(s), e \notin Elements(s), NEW i \in DOMAIN t, NEW j \in DOMAIN t,
               t[i] = t[j]
        PROVE  i = j
    <2>1. \A k \in DOMAIN t : k # 1 => k - 1 \in DOMAIN s /\ t[k] = s[k - 1] /\ t[k] # e
      <3> TAKE k \in DOMAIN t
      <3> HAVE k # 1
      <3>1. k - 1 \in DOMAIN s /\ t[k] = s[k - 1]
        BY <1>1, <1>2
      <3> QED
        BY <1>7, <3>1 DEF Elements
    <2>2. CASE i = 1 \/ j = 1
      BY <1>2, <1>7, <2>1, <2>2
    <2>3. CASE i # 1 /\ j # 1
      <3>1. i - 1 = j - 1
        BY <1>7, <2>1, <2>3 DEF Distinct
      <3> QED
        BY <1>1, <1>2, <3>1
    <2> QED
      BY <2>2, <2>3
  <1> QED
    BY <1>2, <1>6, <1>7 DEF Distinct, n, t

\* A sequence without its first element has one element less, if that element
\* occurs once.
LEMMA Beheaded ==
  ASSUME NEW S, NEW s \in Seq(S), s # << >>
  PROVE  /\ Tail(s) \in Seq(S) /\ Len(Tail(s)) = Len(s) - 1 /\ Len(s) \in Nat \ {0}
         /\ Head(s) \in Elements(s)
         /\ Elements(s) = Elements(Tail(s)) \cup {Head(s)}
         /\ Distinct(s) => Distinct(Tail(s)) /\ Head(s) \notin Elements(Tail(s))
  <1> DEFINE n == Len(s)
             t == Tail(s)
  <1>1. n \in Nat \ {0} /\ DOMAIN s = 1 .. n /\ Head(s) = s[1]
    BY LenProperties, EmptySeq
  <1>2. /\ t \in Seq(S) /\ Len(t) = n - 1 /\ DOMAIN t = 1 .. n - 1
        /\ \A k \in 1 .. n - 1 : t[k] = s[k + 1]
    <2>1. /\ t \in Seq(S) /\ Len(t) = n - 1
          /\ \A k \in 1 .. Len(t) : t[k] = s[k + 1]
      BY HeadTailProperties
    <2> QED
      BY <2>1, LenProperties
  <1> HIDE DEF n, t
  <1>3. ASSUME NEW k \in DOMAIN s PROVE s[k] \in Elements(t) \cup {s[1]}
    <2>1. CASE k # 1
      <3>1. k - 1 \in DOMAIN t /\ t[k - 1] = s[k]
        BY <1>1, <1>2, <2>1
      <3> QED
        BY <3>1 DEF Elements
    <2> QED
      BY <2>1
  <1>4. ASSUME NEW k \in DOMAIN t PROVE k + 1 \in DOMAIN s /\ t[k] = s[k + 1] /\ k + 1 # 1
    BY <1>1, <1>2
  <1>5. 1 \in DOMAIN s
    BY <1>1
  <1>6. Elements(s) = Elements(t) \cup {s[1]}
    <2>1. Elements(s) \subseteq Elements(t) \cup {s[1]}
      BY <1>3 DEF Elements
    <2>2. Elements(t) \subseteq Elements(s)
      BY <1>4 DEF Elements
    <2> QED
      BY <1>5, <2>1, <2>2 DEF Elements
  <1>7. ASSUME Distinct(s) PROVE Distinct(t) /\ s[1] \notin Elements(t)
    <2>1. ASSUME NEW i \in DOMAIN t, NEW j \in DOMAIN t, t[i] = t[j] PROVE i = j
      <3>1. i + 1 = j + 1
        BY <1>4, <1>7, <2>1 DEF Distinct
      <3> QED
        BY <1>2, <3>1
    <2>2. ASSUME NEW i \in DOMAIN t PROVE t[i] # s[1]
      BY <1>4, <1>5, <1>7 DEF Distinct
    <2> QED
      BY <2>1, <2>2 DEF Distinct, Elements
  <1> QED
    BY <1>1, <1>2, <1>5, <1>6, <1>7 DEF n, t, Elements
-----------------------------------------------------------------------------
(* Each node once *)

\* What EachNodeOnce needs to be inductive: the nodes of the list differ from
\* each other and from those that were consumed.
OnceInv ==
  /\ EachNodeOnce
  /\ Distinct(list) /\ Elements(list) \cap used = {}

\* At the start there is no node.
LEMMA OnceInvInit == Init => OnceInv
  <1> SUFFICES ASSUME Init PROVE OnceInv
    OBVIOUS
  <1>1. list = << >> /\ DOMAIN list = {} /\ Len(list) = 0 /\ used = {} /\ made = 0
    BY DEF Init
  <1>2. Cardinality(used) = 0
    BY <1>1, FS_EmptySet
  <1>3. 1 .. made = {} /\ Elements(list) = {}
    BY <1>1 DEF Elements
  <1> QED
    BY <1>1, <1>2, <1>3 DEF OnceInv, EachNodeOnce, Distinct, Elements

\* The consumed nodes can be counted, since they are among those made.
LEMMA UsedFinite == TypeOK /\ EachNodeOnce => IsFiniteSet(used) /\ Cardinality(used) \in Nat
  <1> SUFFICES ASSUME TypeOK, EachNodeOnce PROVE IsFiniteSet(used) /\ Cardinality(used) \in Nat
    OBVIOUS
  <1>1. used \in SUBSET (1 .. made) /\ IsFiniteSet(1 .. made)
    BY FS_Interval DEF EachNodeOnce, TypeOK
  <1> QED
    BY <1>1, FS_Subset, FS_CardinalityType

\* OnceInv in terms of Elements.
LEMMA OnceInvElements ==
  OnceInv <=> /\ Elements(list) \cup used = 1 .. made
              /\ Len(list) + Cardinality(used) = made
              /\ Distinct(list) /\ Elements(list) \cap used = {}
  BY DEF OnceInv, EachNodeOnce, Elements

\* Lines 208-211: the new head is a node that was neither in the list nor used.
LEMMA PushKeepsOnce ==
  ASSUME TypeOK, OnceInv, NEW p \in Producers, Push(p)
  PROVE  /\ Elements(list') \cup used' = 1 .. made'
         /\ Len(list') + Cardinality(used') = made'
         /\ Distinct(list') /\ Elements(list') \cap used' = {}
  <1>1. made' = made + 1 /\ used' = used /\ list' = <<made + 1>> \o list
    BY DEF Push
  <1>2. made \in Nat /\ made + 1 \in Nat /\ list \in Seq(Nat) /\ Len(list) \in Nat
    BY LenProperties DEF TypeOK
  <1>3. /\ Elements(list) \cup used = 1 .. made
        /\ Len(list) + Cardinality(used) = made
        /\ Distinct(list) /\ Elements(list) \cap used = {}
    BY OnceInvElements
  <1>4. made + 1 \notin 1 .. made /\ 1 .. made + 1 = (1 .. made) \cup {made + 1}
    BY <1>2
  <1>5. /\ Len(list') = Len(list) + 1 /\ Elements(list') = Elements(list) \cup {made + 1}
        /\ Distinct(list) /\ made + 1 \notin Elements(list) => Distinct(list')
    BY <1>1, <1>2, Prepended
  <1>6. Cardinality(used) \in Nat
    BY UsedFinite DEF OnceInv
  <1>7. Len(list') + Cardinality(used') = made'
    BY <1>1, <1>2, <1>3, <1>5, <1>6
  <1> QED
    BY <1>1, <1>3, <1>4, <1>5, <1>7

\* Lines 225-228: the node at head leaves the list and is used once.
LEMMA PopKeepsOnce ==
  ASSUME TypeOK, OnceInv, NEW c \in Consumers, Pop(c)
  PROVE  /\ Elements(list') \cup used' = 1 .. made'
         /\ Len(list') + Cardinality(used') = made'
         /\ Distinct(list') /\ Elements(list') \cap used' = {}
  <1>1. list # << >> /\ list' = Tail(list) /\ made' = made /\ used' = used \cup {Head(list)}
    BY DEF Pop
  <1>2. made \in Nat /\ list \in Seq(Nat)
    BY DEF TypeOK
  <1>3. /\ Elements(list) \cup used = 1 .. made
        /\ Len(list) + Cardinality(used) = made
        /\ Distinct(list) /\ Elements(list) \cap used = {}
    BY OnceInvElements
  <1>4. /\ Len(list') = Len(list) - 1 /\ Len(list) \in Nat
        /\ Head(list) \in Elements(list) /\ Elements(list) = Elements(list') \cup {Head(list)}
        /\ Distinct(list') /\ Head(list) \notin Elements(list')
    BY <1>1, <1>2, <1>3, Beheaded
  <1>5. Len(list') + Cardinality(used') = made'
    <2>1. IsFiniteSet(used) /\ Cardinality(used) \in Nat
      BY UsedFinite DEF OnceInv
    <2>2. Head(list) \notin used
      BY <1>3, <1>4
    <2>3. Cardinality(used') = Cardinality(used) + 1
      BY <1>1, <2>1, <2>2, FS_AddElement
    <2> QED
      BY <1>1, <1>2, <1>3, <1>4, <2>1, <2>3
  <1> QED
    BY <1>1, <1>3, <1>4, <1>5

\* Every step of every thread keeps OnceInv.
LEMMA OnceInvNext == TypeOK /\ OnceInv /\ [Next]_vars => OnceInv'
  <1> SUFFICES ASSUME TypeOK, OnceInv, [Next]_vars PROVE OnceInv'
    OBVIOUS
  <1>1. ASSUME UNCHANGED <<list, made, used>> PROVE OnceInv'
    BY <1>1 DEF OnceInv, EachNodeOnce, Distinct, Elements
  <1>2. ASSUME /\ Elements(list') \cup used' = 1 .. made'
               /\ Len(list') + Cardinality(used') = made'
               /\ Distinct(list') /\ Elements(list') \cap used' = {}
        PROVE  OnceInv'
    BY <1>2 DEF OnceInv, EachNodeOnce, Distinct, Elements
  <1>3. ASSUME NEW p \in Producers, Producer(p) PROVE OnceInv'
    BY <1>1, <1>2, <1>3, PushKeepsOnce DEF Producer, PWait, PPost
  <1>4. ASSUME NEW c \in Consumers, Consumer(c) PROVE OnceInv'
    BY <1>1, <1>2, <1>4, PopKeepsOnce DEF Consumer, CWait, CPost
  <1>5. CASE UNCHANGED vars
    BY <1>1, <1>5 DEF vars
  <1> QED
    BY <1>3, <1>4, <1>5 DEF Next

\* Lines 208-211, 225-228: every node that was made is in the list once or has
\* been consumed once, whichever threads interleave and however many they are.
THEOREM NodesOnce == Spec => []EachNodeOnce
  <1>1. SemInv => TypeOK
    BY DEF SemInv
  <1>2. OnceInv => EachNodeOnce
    BY DEF OnceInv
  <1> QED
    BY <1>1, <1>2, SemInvariant, OnceInvInit, OnceInvNext, PTL DEF Spec
=============================================================================
