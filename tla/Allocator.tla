----------------------------- MODULE Allocator -----------------------------
(***************************************************************************)
(* What malloc and free promise: the memory that is in use lies inside the *)
(* heap, aligned, and no two pieces of it overlap.                         *)
(***************************************************************************)
EXTENDS Naturals

CONSTANTS
    HeapSize,   \* bytes
    Alignment,
    Sizes       \* what the program asks for

VARIABLE used       \* used[a]: the size of the piece of memory in use at address a

Address == {a \in 0..HeapSize-1 : a % Alignment = 0}

Init == used = [a \in {} |-> 0]

Malloc ==
    \E a \in Address, n \in Sizes \ {0} :
        /\ a + n <= HeapSize
        /\ \A x \in DOMAIN used : x + used[x] <= a \/ a + n <= x
        /\ used' = [x \in DOMAIN used \cup {a} |-> IF x = a THEN n ELSE used[x]]

Free == \E a \in DOMAIN used : used' = [x \in DOMAIN used \ {a} |-> used[x]]

Spec == Init /\ [][Malloc \/ Free]_used
=============================================================================
