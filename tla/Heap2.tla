------------------------------- MODULE Heap2 -------------------------------
(***************************************************************************)
(* The allocator of lpc2378-tests (FreeRTOS heap_2.c): the free blocks are *)
(* linked in the order of their sizes, an allocation takes the first that  *)
(* is large enough and splits it, and a freed block goes back as it is.    *)
(*                                                                         *)
(* Each call runs with the scheduler suspended and interrupts do not       *)
(* allocate, so that a call is one step.  A block is named by the address  *)
(* of its xBlockLink, counted from the start of xHeap.ucHeap.              *)
(*                                                                         *)
(* The program frees only what it has allocated, once, and asks for less   *)
(* than would make xWantedSize wrap.                                       *)
(***************************************************************************)
EXTENDS Integers, Sequences, FiniteSets, SequencesExt

CONSTANTS
    configTOTAL_HEAP_SIZE,
    portBYTE_ALIGNMENT,
    LinkSize,       \* sizeof(xBlockLink)
    Requests        \* the sizes the program asks for

VARIABLES
    free,       \* the list from xStart to xEnd, without these two
    size,       \* size[b]: xBlockSize of every block, free or not
    used,       \* used[b]: history: what was asked for, for each block in use
    refused     \* history: what the last call asked for, if it got NULL

vars == <<free, size, used, refused>>

none == -1

heapSTRUCT_SIZE == LinkSize + portBYTE_ALIGNMENT - (LinkSize % portBYTE_ALIGNMENT)
heapMINIMUM_BLOCK_SIZE == heapSTRUCT_SIZE * 2

\* The heap holds at least one link.
ASSUME HeapAssumption ==
    /\ {portBYTE_ALIGNMENT, LinkSize} \subseteq Nat \ {0} /\ Requests \subseteq Nat
    /\ configTOTAL_HEAP_SIZE \in Nat /\ configTOTAL_HEAP_SIZE % portBYTE_ALIGNMENT = 0
    /\ heapSTRUCT_SIZE <= configTOTAL_HEAP_SIZE

-----------------------------------------------------------------------------
\* Mutant: behind the other free blocks.
InsertLast(list, b, sizes) == Append(list, b)

\* In front of the first block that is not smaller.
prvInsertBlockIntoFreeList(list, b, sizes) ==
    LET larger == {i \in DOMAIN list : sizes[list[i]] >= sizes[b]}
    IN IF larger = {} THEN Append(list, b)
       ELSE InsertAt(list, CHOOSE i \in larger : \A j \in larger : i <= j, b)

\* xWantedSize with room for the link, rounded up.
Wanted(n) ==
    LET w == n + heapSTRUCT_SIZE
    IN IF n = 0 THEN 0
       ELSE IF w % portBYTE_ALIGNMENT = 0 THEN w
       ELSE w + portBYTE_ALIGNMENT - (w % portBYTE_ALIGNMENT)

Suffices(b, n) == size[b] >= Wanted(n)

\* The position in the list at which the search ends.
FirstFit(n) == CHOOSE i \in DOMAIN free : Suffices(free[i], n)
                                          /\ \A j \in 1..i-1 : ~Suffices(free[j], n)

\* prvHeapInit, which the first call of pvPortMalloc does: one free block.
Init ==
    /\ free = <<0>>
    /\ size = [b \in {0} |-> configTOTAL_HEAP_SIZE]
    /\ used = [b \in {} |-> 0]
    /\ refused = none

-----------------------------------------------------------------------------
Take(b, n) ==
    /\ used' = [x \in DOMAIN used \cup {b} |-> IF x = b THEN n ELSE used[x]]
    /\ refused' = none

CanServe(n) ==
    /\ Wanted(n) > 0 /\ Wanted(n) < configTOTAL_HEAP_SIZE
    /\ \E i \in DOMAIN free : Suffices(free[i], n)

ReturnNull(n) ==
    /\ ~CanServe(n)
    /\ refused' = n
    /\ UNCHANGED <<free, size, used>>

\* What would remain of the block is too small to be one.
TakeWhole(n) ==
    /\ CanServe(n)
    /\ LET b == free[FirstFit(n)]
       IN /\ size[b] - Wanted(n) <= heapMINIMUM_BLOCK_SIZE
          /\ Take(b, n)
    /\ free' = RemoveAt(free, FirstFit(n))
    /\ UNCHANGED size

\* Mutant: the block that is taken stays in the list.
SplitKeepsBoth(n) ==
    /\ CanServe(n)
    /\ LET b == free[FirstFit(n)]
           new == b + Wanted(n)
       IN /\ size[b] - Wanted(n) > heapMINIMUM_BLOCK_SIZE
          /\ size' = [x \in DOMAIN size \cup {new} |->
                        CASE x = new -> size[b] - Wanted(n) [] x = b -> Wanted(n) [] OTHER -> size[x]]
          /\ free' = prvInsertBlockIntoFreeList(free, new, size')
          /\ Take(b, n)

\* Mutant: the remainder is not put in the list.
SplitLosesRest(n) ==
    /\ CanServe(n)
    /\ LET b == free[FirstFit(n)]
       IN /\ size[b] - Wanted(n) > heapMINIMUM_BLOCK_SIZE
          /\ size' = [size EXCEPT ![b] = Wanted(n)]
          /\ free' = RemoveAt(free, FirstFit(n))
          /\ Take(b, n)

\* The remainder becomes a free block behind the one that is taken.
Split(n) ==
    /\ CanServe(n)
    /\ LET b == free[FirstFit(n)]
           new == b + Wanted(n)
       IN /\ size[b] - Wanted(n) > heapMINIMUM_BLOCK_SIZE
          /\ size' = [x \in DOMAIN size \cup {new} |->
                        CASE x = new -> size[b] - Wanted(n) [] x = b -> Wanted(n) [] OTHER -> size[x]]
          /\ free' = prvInsertBlockIntoFreeList(RemoveAt(free, FirstFit(n)), new, size')
          /\ Take(b, n)

pvPortMalloc(n) == ReturnNull(n) \/ TakeWhole(n) \/ Split(n)

vPortFree(b) ==
    /\ b \in DOMAIN used
    /\ free' = prvInsertBlockIntoFreeList(free, b, size)
    /\ used' = [x \in DOMAIN used \ {b} |-> used[x]]
    /\ refused' = none
    /\ UNCHANGED size

Next == (\E n \in Requests : pvPortMalloc(n)) \/ (\E b \in DOMAIN used : vPortFree(b))

Spec == Init /\ [][Next]_vars

-----------------------------------------------------------------------------
\* No byte of the heap is lost or owned twice, however the blocks have been
\* split: they follow one another from the start of the heap to its end, and
\* each is either in use or in the free list, once.
Tiles ==
    /\ 0 \in DOMAIN size
    /\ \A b \in DOMAIN size :
          /\ b + size[b] \in DOMAIN size \cup {configTOTAL_HEAP_SIZE}
          /\ size[b] >= heapSTRUCT_SIZE
          /\ \A c \in DOMAIN size : c > b => c >= b + size[b]
    /\ ToSet(free) = DOMAIN size \ DOMAIN used
    /\ Cardinality(ToSet(free)) = Len(free)

\* A request takes the smallest free block that is large enough, and fails only
\* if there is none: the order of the list survives every split and free.  (The
\* whole heap in one piece is never given away.)
BestFit ==
    [][/\ \A b \in DOMAIN used' \ DOMAIN used :
             b \in ToSet(free) /\ Suffices(b, used'[b])
             /\ \A c \in ToSet(free) : Suffices(c, used'[b]) => size[b] <= size[c]
       /\ refused' \notin {none, 0} /\ Wanted(refused') # configTOTAL_HEAP_SIZE =>
             \A c \in ToSet(free) : ~Suffices(c, refused')]_vars

Memory == INSTANCE Allocator WITH
    HeapSize <- configTOTAL_HEAP_SIZE,
    Alignment <- portBYTE_ALIGNMENT,
    Sizes <- Requests,
    used <- [a \in {b + heapSTRUCT_SIZE : b \in DOMAIN used} |-> used[a - heapSTRUCT_SIZE]]

\* The pieces of memory that pvPortMalloc hands out are as large as asked for,
\* aligned, inside the heap and apart from all others in use.
ImplementsAllocator == Memory!Spec
=============================================================================
