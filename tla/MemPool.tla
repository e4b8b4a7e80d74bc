------------------------------ MODULE MemPool -------------------------------
(***************************************************************************)
(* The fixed-size block allocator of threadpool/src4/mempool/              *)
(* memorypool.cpp: a page cut into blocks, the free ones linked through    *)
(* their first bytes.  Blocks are numbered from the start of the page;     *)
(* Past is the address after the last one, where memp_init's chain ends    *)
(* and where its last line writes NULL.                                    *)
(*                                                                         *)
(* A block is as large as a pointer or larger.  The user frees only what   *)
(* it holds and writes only there, which destroys the link.                *)
(***************************************************************************)
EXTENDS Integers, FiniteSets

CONSTANT BlockCount \* MEM_PAGE_SIZE / block_size

ASSUME MemPoolAssumption == BlockCount \in Nat \ {0}

VARIABLES ptr, next, free_count, \* the pool: first free block, links, counter
          held,   \* the blocks the user has
          answer  \* what the last _malloc returned, 0 for NULL

vars == <<ptr, next, free_count, held, answer>>

Blocks == 1 .. BlockCount
Past   == BlockCount + 1
NULL   == 0
Data   == 0  \* a link overwritten by the user

Init ==
  /\ ptr = 1 /\ free_count = BlockCount
  /\ next = [b \in Blocks |-> b + 1]
  /\ held = {} /\ answer = NULL

\* fits: size is at most block_size.
_malloc(fits) ==
  IF free_count # 0 /\ fits
  THEN /\ answer' = ptr
       /\ ptr' = next[ptr]
       /\ next' = [next EXCEPT ![ptr] = Data]
       /\ free_count' = free_count - 1
       /\ held' = held \cup {ptr}
  ELSE answer' = NULL /\ UNCHANGED <<ptr, next, free_count, held>>

\* Mutant: ptr moves before the block is linked to it.
FreeMovesFirst(b) ==
  /\ b \in held
  /\ ptr' = b /\ next' = [next EXCEPT ![b] = b]
  /\ free_count' = free_count + 1
  /\ held' = held \ {b}
  /\ UNCHANGED answer

\* Mutant: the block is not counted.
FreeUncounted(b) ==
  /\ b \in held
  /\ next' = [next EXCEPT ![b] = ptr] /\ ptr' = b
  /\ held' = held \ {b}
  /\ UNCHANGED <<free_count, answer>>

_free(b) ==
  /\ b \in held
  /\ next' = [next EXCEPT ![b] = ptr] /\ ptr' = b
  /\ free_count' = free_count + 1
  /\ held' = held \ {b}
  /\ UNCHANGED answer

Malloc == \E fits \in BOOLEAN : _malloc(fits)

Next == Malloc \/ \E b \in Blocks : _free(b)

Spec == Init /\ [][Next]_vars
-----------------------------------------------------------------------------
TypeOK ==
  /\ ptr \in Blocks \cup {Past} /\ next \in [Blocks -> Blocks \cup {Past, Data}]
  /\ free_count \in 0 .. BlockCount
  /\ held \subseteq Blocks /\ answer \in Blocks \cup {NULL}

\* f is the chain of free blocks: it begins at ptr, follows the links through
\* free_count blocks and ends past the page.
IsChain(f) ==
  /\ f[1] = ptr /\ f[free_count + 1] = Past
  /\ \A i \in 1 .. free_count : f[i] \in Blocks \ held /\ f[i + 1] = next[f[i]]
  /\ \A i, j \in 1 .. free_count : f[i] = f[j] => i = j
  /\ \A b \in Blocks \ held : \E i \in 1 .. free_count : f[i] = b

\* Lines 26-33, 41-45 and 52-54: whatever the order of calls, the chain from
\* ptr has every block the user does not hold, once each, and no other; so
\* line 43 never follows a link the user wrote, no block is handed out twice,
\* and NULL is returned only when there is none.
ChainIsFreeBlocks ==
  \E f \in [1 .. free_count + 1 -> Blocks \cup {Past}] : IsChain(f)

\* Lines 21, 45 and 54: free_count is the number of blocks not handed out.
FreeCountIsExact == free_count + Cardinality(held) = BlockCount
=============================================================================
