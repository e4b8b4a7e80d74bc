--------------------------- MODULE MemPool_proofs ----------------------------
(***************************************************************************)
(* Proofs about MemPool, for every number of blocks.  The type invariant,  *)
(* the chain and the counter are inductive together: _malloc needs the     *)
(* chain to know that ptr is a block, _free the counter to know that there *)
(* is room for one block more.                                             *)
(***************************************************************************)
EXTENDS MemPool, FiniteSetTheorems, TLAPS

IInv == TypeOK /\ ChainIsFreeBlocks /\ FreeCountIsExact

\* The pool begins with every block in the chain, in the order of the page.
LEMMA InitIInv == Init => IInv
<1> SUFFICES ASSUME Init PROVE IInv
  OBVIOUS
<1> USE MemPoolAssumption
<1>1. TypeOK
  BY DEF Init, TypeOK, Blocks, Past, NULL, Data
<1>2. ChainIsFreeBlocks
  <2> DEFINE f == [i \in 1 .. free_count + 1 |-> i]
  <2>1. f \in [1 .. free_count + 1 -> Blocks \cup {Past}]
    BY DEF Init, Blocks, Past
  <2>2. f[1] = ptr /\ f[free_count + 1] = Past
    BY DEF Init, Past
  <2>3. \A i \in 1 .. free_count : f[i] \in Blocks \ held /\ f[i + 1] = next[f[i]]
    BY DEF Init, Blocks
  <2>4. \A i, j \in 1 .. free_count : f[i] = f[j] => i = j
    BY DEF Init
  <2>5. ASSUME NEW b \in Blocks PROVE \E i \in 1 .. free_count : f[i] = b
    <3>1. b \in 1 .. free_count /\ f[b] = b
      BY DEF Init, Blocks
    <3> QED
      BY <3>1
  <2> HIDE DEF f
  <2> QED
    BY <2>1, <2>2, <2>3, <2>4, <2>5 DEF ChainIsFreeBlocks, IsChain
<1>3. FreeCountIsExact
  BY FS_EmptySet DEF Init, FreeCountIsExact
<1> QED
  BY <1>1, <1>2, <1>3 DEF IInv

\* held stays finite, which the counting needs.
LEMMA HeldFinite == ASSUME TypeOK PROVE IsFiniteSet(held)
<1>1. IsFiniteSet(Blocks)
  BY MemPoolAssumption, FS_Interval DEF Blocks
<1> QED
  BY <1>1, FS_Subset DEF TypeOK

\* A block that is handed out is the head of the chain, and the rest of the
\* chain stays.
LEMMA MallocIInv ==
  ASSUME IInv, NEW fits \in BOOLEAN, _malloc(fits)
  PROVE  IInv'
<1> USE MemPoolAssumption
<1>1. CASE ~(free_count # 0 /\ fits)
  <2>1. /\ answer' = NULL /\ ptr' = ptr /\ next' = next
        /\ free_count' = free_count /\ held' = held
    BY <1>1 DEF _malloc
  <2>2. TypeOK'
    BY <2>1 DEF IInv, TypeOK, Blocks, Past, Data, NULL
  <2>3. ChainIsFreeBlocks'
    <3>1. PICK f \in [1 .. free_count + 1 -> Blocks \cup {Past}] : IsChain(f)
      BY DEF IInv, ChainIsFreeBlocks
    <3>2. f \in [1 .. free_count' + 1 -> Blocks \cup {Past}]
      BY <2>1, <3>1
    <3>3. IsChain(f)'
      BY <2>1, <3>1, Zenon DEF IsChain
    <3> QED
      BY <3>2, <3>3, Zenon DEF ChainIsFreeBlocks, Blocks, Past
  <2>4. FreeCountIsExact'
    BY <2>1 DEF IInv, FreeCountIsExact
  <2> QED
    BY <2>2, <2>3, <2>4 DEF IInv
<1>2. CASE free_count # 0 /\ fits
  <2>1. /\ answer' = ptr /\ ptr' = next[ptr] /\ next' = [next EXCEPT ![ptr] = Data]
        /\ free_count' = free_count - 1 /\ held' = held \cup {ptr}
    BY <1>2 DEF _malloc
  <2>2. PICK f \in [1 .. free_count + 1 -> Blocks \cup {Past}] : IsChain(f)
    BY DEF IInv, ChainIsFreeBlocks
  <2>3. free_count \in Nat \ {0} /\ free_count <= BlockCount
    BY <1>2 DEF IInv, TypeOK
  <2>4. ptr = f[1] /\ ptr \in Blocks \ held /\ next[ptr] = f[2]
    BY <2>2, <2>3 DEF IsChain
  <2>5. f[2] \in Blocks \cup {Past}
    BY <2>2, <2>3
  <2>6. TypeOK'
    <3>1. next' \in [Blocks -> Blocks \cup {Past, Data}]
      BY <2>1, <2>4 DEF IInv, TypeOK
    <3>2. ptr' \in Blocks \cup {Past} /\ answer' \in Blocks \cup {NULL} /\ held' \subseteq Blocks
      BY <2>1, <2>4, <2>5 DEF IInv, TypeOK
    <3>3. free_count' \in 0 .. BlockCount
      BY <2>1, <2>3
    <3> QED
      BY <3>1, <3>2, <3>3 DEF TypeOK, Blocks, Past, Data, NULL
  <2>7. ChainIsFreeBlocks'
    <3>0. PICK g : g = [i \in 1 .. free_count' + 1 |-> f[i + 1]]
      OBVIOUS
    <3>1. g \in [1 .. free_count' + 1 -> Blocks \cup {Past}]
      BY <2>1, <2>2, <2>3, <3>0
    <3>2. g[1] = ptr' /\ g[free_count' + 1] = Past
      BY <2>1, <2>2, <2>3, <2>4, <3>0 DEF IsChain
    <3>3. ASSUME NEW i \in 1 .. free_count'
          PROVE  g[i] \in Blocks \ held' /\ g[i + 1] = next'[g[i]]
      <4>1. i + 1 \in 1 .. free_count /\ g[i] = f[i + 1] /\ g[i + 1] = f[i + 2]
        BY <2>1, <2>3, <3>0
      <4>2. f[i + 1] \in Blocks \ held /\ f[i + 2] = next[f[i + 1]] /\ f[i + 1] # f[1]
        BY <2>2, <2>3, <4>1 DEF IsChain
      <4> QED
        BY <2>1, <2>4, <4>1, <4>2 DEF IInv, TypeOK
    <3>4. ASSUME NEW i \in 1 .. free_count', NEW j \in 1 .. free_count', g[i] = g[j]
          PROVE  i = j
      <4>1. i + 1 \in 1 .. free_count /\ j + 1 \in 1 .. free_count /\ f[i + 1] = f[j + 1]
        BY <2>1, <2>3, <3>0, <3>4
      <4> QED
        BY <2>2, <4>1 DEF IsChain
    <3>5. ASSUME NEW b \in Blocks \ held' PROVE \E i \in 1 .. free_count' : g[i] = b
      <4>1. PICK i \in 1 .. free_count : f[i] = b
        BY <2>1, <2>2 DEF IsChain
      <4>2. i # 1
        BY <2>1, <2>4, <4>1
      <4>3. i - 1 \in 1 .. free_count' /\ g[i - 1] = b
        BY <2>1, <2>3, <3>0, <4>1, <4>2
      <4> QED
        BY <4>3
    <3>6. IsChain(g)'
      BY <3>2, <3>3, <3>4, <3>5 DEF IsChain, Blocks, Past
    <3> QED
      BY <3>1, <3>6 DEF ChainIsFreeBlocks, Blocks, Past
  <2>8. FreeCountIsExact'
    <3>1. Cardinality(held') = Cardinality(held) + 1 /\ Cardinality(held) \in Nat
      BY <2>1, <2>4, HeldFinite, FS_AddElement, FS_CardinalityType DEF IInv
    <3> QED
      BY <2>1, <2>3, <3>1 DEF IInv, FreeCountIsExact
  <2> QED
    BY <2>6, <2>7, <2>8 DEF IInv
<1> QED
  BY <1>1, <1>2

\* A block that is freed goes in front of the chain.
LEMMA FreeIInv ==
  ASSUME IInv, NEW b \in Blocks, _free(b)
  PROVE  IInv'
<1> USE MemPoolAssumption
<1>1. /\ b \in held /\ next' = [next EXCEPT ![b] = ptr] /\ ptr' = b
      /\ free_count' = free_count + 1 /\ held' = held \ {b} /\ answer' = answer
  BY DEF _free
<1>2. PICK f \in [1 .. free_count + 1 -> Blocks \cup {Past}] : IsChain(f)
  BY DEF IInv, ChainIsFreeBlocks
<1>3. free_count \in Nat
  BY DEF IInv, TypeOK
<1>4. FreeCountIsExact' /\ free_count' <= BlockCount
  <2>1. IsFiniteSet(held \ {b}) /\ Cardinality(held \ {b}) = Cardinality(held) - 1
        /\ Cardinality(held) \in Nat
    BY <1>1, HeldFinite, FS_RemoveElement, FS_CardinalityType DEF IInv
  <2>2. Cardinality(held \ {b}) \in Nat
    BY <2>1, FS_CardinalityType
  <2> QED
    BY <1>1, <1>3, <2>1, <2>2 DEF IInv, FreeCountIsExact
<1>5. TypeOK'
  BY <1>1, <1>3, <1>4 DEF IInv, TypeOK, Blocks, Past, Data, NULL
<1>6. ChainIsFreeBlocks'
  <2>0. PICK g : g = [i \in 1 .. free_count' + 1 |-> IF i = 1 THEN b ELSE f[i - 1]]
    OBVIOUS
  <2>1. g \in [1 .. free_count' + 1 -> Blocks \cup {Past}]
    BY <1>1, <1>2, <1>3, <2>0
  <2>2. g[1] = ptr' /\ g[free_count' + 1] = Past
    BY <1>1, <1>2, <1>3, <2>0 DEF IsChain
  <2>3. ASSUME NEW i \in 1 .. free_count'
        PROVE  g[i] \in Blocks \ held' /\ g[i + 1] = next'[g[i]]
    <3>1. CASE i = 1
      <4>1. g[1] = b /\ g[2] = f[1] /\ f[1] = ptr
        BY <1>1, <1>2, <1>3, <2>0 DEF IsChain
      <4> QED
        BY <1>1, <3>1, <4>1 DEF IInv, TypeOK
    <3>2. CASE i # 1
      <4>1. i - 1 \in 1 .. free_count /\ g[i] = f[i - 1] /\ g[i + 1] = f[i]
        BY <1>1, <1>3, <2>0, <3>2
      <4>2. f[i - 1] \in Blocks \ held /\ f[i] = next[f[i - 1]]
        BY <1>2, <1>3, <4>1 DEF IsChain
      <4> QED
        BY <1>1, <4>1, <4>2 DEF IInv, TypeOK
    <3> QED
      BY <3>1, <3>2
  <2>4. ASSUME NEW i \in 1 .. free_count', NEW j \in 1 .. free_count', g[i] = g[j]
        PROVE  i = j
    <3>1. ASSUME NEW k \in 1 .. free_count', k # 1
          PROVE  k - 1 \in 1 .. free_count /\ g[k] = f[k - 1] /\ g[k] # b
      BY <1>1, <1>2, <1>3, <2>0, <3>1 DEF IsChain
    <3>2. g[1] = b
      BY <1>1, <1>3, <2>0
    <3>3. CASE i = 1 \/ j = 1
      BY <2>4, <3>1, <3>2, <3>3
    <3>4. CASE i # 1 /\ j # 1
      <4>1. f[i - 1] = f[j - 1] /\ i - 1 \in 1 .. free_count /\ j - 1 \in 1 .. free_count
        BY <2>4, <3>1, <3>4
      <4>2. i - 1 = j - 1
        BY <1>2, <4>1 DEF IsChain
      <4> QED
        BY <4>2
    <3> QED
      BY <3>3, <3>4
  <2>5. ASSUME NEW c \in Blocks \ held' PROVE \E i \in 1 .. free_count' : g[i] = c
    <3>1. CASE c = b
      BY <1>1, <1>3, <2>0, <3>1
    <3>2. CASE c # b
      <4>1. PICK i \in 1 .. free_count : f[i] = c
        BY <1>1, <1>2, <3>2 DEF IsChain
      <4>2. i + 1 \in 1 .. free_count' /\ g[i + 1] = c
        BY <1>1, <1>3, <2>0, <4>1
      <4> QED
        BY <4>2
    <3> QED
      BY <3>1, <3>2
  <2>6. IsChain(g)'
    BY <2>2, <2>3, <2>4, <2>5 DEF IsChain, Blocks, Past
  <2> QED
    BY <2>1, <2>6 DEF ChainIsFreeBlocks, Blocks, Past
<1> QED
  BY <1>4, <1>5, <1>6 DEF IInv

\* IInv is an invariant of the pool.
THEOREM PoolInvariant == Spec => []IInv
<1>1. IInv /\ [Next]_vars => IInv'
  <2> SUFFICES ASSUME IInv, [Next]_vars PROVE IInv'
    OBVIOUS
  <2>1. CASE Malloc
    BY <2>1, MallocIInv DEF Malloc
  <2>2. ASSUME NEW b \in Blocks, _free(b) PROVE IInv'
    BY <2>2, FreeIInv
  <2>3. CASE UNCHANGED vars
    <3>1. /\ answer' = answer /\ ptr' = ptr /\ next' = next
          /\ free_count' = free_count /\ held' = held
      BY <2>3 DEF vars
    <3>2. TypeOK'
      BY <3>1 DEF IInv, TypeOK, Blocks, Past, Data, NULL
    <3>3. ChainIsFreeBlocks'
      <4>1. PICK f \in [1 .. free_count + 1 -> Blocks \cup {Past}] : IsChain(f)
        BY DEF IInv, ChainIsFreeBlocks
      <4>2. IsChain(f)'
        BY <3>1, <4>1 DEF IsChain, Blocks, Past
      <4> QED
        BY <3>1, <4>1, <4>2 DEF ChainIsFreeBlocks, Blocks, Past
    <3> QED
      BY <3>1, <3>2, <3>3 DEF IInv, FreeCountIsExact
  <2> QED
    BY <2>1, <2>2, <2>3 DEF Next
<1> QED
  BY <1>1, InitIInv, PTL DEF Spec

\* Lines 26-33, 41-45 and 52-54: the chain from ptr is exactly the blocks the
\* user does not hold, for every number of blocks and every sequence of calls.
THEOREM ChainStaysFreeBlocks == Spec => []ChainIsFreeBlocks
<1>1. IInv => ChainIsFreeBlocks
  BY DEF IInv
<1> QED
  BY <1>1, PoolInvariant, PTL

\* Lines 21, 45 and 54: free_count is exact, for every number of blocks.
THEOREM FreeCountStaysExact == Spec => []FreeCountIsExact
<1>1. IInv => FreeCountIsExact
  BY DEF IInv
<1> QED
  BY <1>1, PoolInvariant, PTL
=============================================================================
