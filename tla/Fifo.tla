-------------------------------- MODULE Fifo --------------------------------
(***************************************************************************)
(* What queue.c promises: a sequence of at most Length items, to which     *)
(* items are added at the back or at the front and taken from the front.   *)
(***************************************************************************)
EXTENDS Naturals, Sequences

CONSTANTS Item, Length

VARIABLES
    items,      \* the items in the queue, the next one to receive first
    got         \* the item that was received or peeked at last

Init == items = <<>> /\ got \in Item

SendToBack(x)  == Len(items) < Length /\ items' = Append(items, x) /\ UNCHANGED got
SendToFront(x) == Len(items) < Length /\ items' = <<x>> \o items /\ UNCHANGED got
Receive        == items # <<>> /\ got' = Head(items) /\ items' = Tail(items)
Peek           == items # <<>> /\ got' = Head(items) /\ UNCHANGED items

Next == (\E x \in Item : SendToBack(x) \/ SendToFront(x)) \/ Receive \/ Peek

Spec == Init /\ [][Next]_<<items, got>>
=============================================================================
