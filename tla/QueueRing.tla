----------------------------- MODULE QueueRing -----------------------------
(***************************************************************************)
(* The storage area of a queue (queue.c): a ring of uxLength places.       *)
(* pcWriteTo points at the next free place, pcReadFrom at the place that   *)
(* was read last.  Every action is one critical section; what tasks and    *)
(* interrupts do around it is the subject of RtosQueue.                    *)
(*                                                                         *)
(* Pointers are places counted from pcHead, so pcTail is uxLength.         *)
(***************************************************************************)
EXTENDS Naturals, Sequences

CONSTANTS
    Item,       \* the values of the items
    uxLength

ASSUME RingAssumption == uxLength \in Nat \ {0} /\ Item # {}

pcHead == 0
pcTail == uxLength
Slot == 0..uxLength-1

VARIABLES
    place,              \* what the storage area holds
    pcWriteTo, pcReadFrom,
    uxMessagesWaiting,
    buffer              \* what the last receiver's pvBuffer holds

ringVars == <<place, pcWriteTo, pcReadFrom, uxMessagesWaiting, buffer>>

\* The pointer one place on, and one place back.
Forward(p)  == IF p + 1 >= pcTail THEN pcHead ELSE p + 1
Backward(p) == IF p = pcHead THEN pcTail - 1 ELSE p - 1

\* xQueueCreate: nothing initialises the storage area.
RingInit ==
    /\ place \in [Slot -> Item]
    /\ pcWriteTo = pcHead /\ pcReadFrom = pcTail - 1
    /\ uxMessagesWaiting = 0
    /\ buffer \in Item

\* Mutant: room is tested for one item too many.
HasRoomLate == uxMessagesWaiting <= uxLength

HasRoom == uxMessagesWaiting < uxLength

SendToBack(x) ==
    /\ HasRoom
    /\ place' = [place EXCEPT ![pcWriteTo] = x]
    /\ pcWriteTo' = Forward(pcWriteTo)
    /\ uxMessagesWaiting' = uxMessagesWaiting + 1
    /\ UNCHANGED <<pcReadFrom, buffer>>

\* Mutant: the read pointer goes back before the item is stored.
BackAndSend(x) ==
    /\ HasRoom
    /\ place' = [place EXCEPT ![Backward(pcReadFrom)] = x]
    /\ pcReadFrom' = Backward(pcReadFrom)
    /\ uxMessagesWaiting' = uxMessagesWaiting + 1
    /\ UNCHANGED <<pcWriteTo, buffer>>

SendToFront(x) ==
    /\ HasRoom
    /\ place' = [place EXCEPT ![pcReadFrom] = x]
    /\ pcReadFrom' = Backward(pcReadFrom)
    /\ uxMessagesWaiting' = uxMessagesWaiting + 1
    /\ UNCHANGED <<pcWriteTo, buffer>>

Receive ==
    /\ uxMessagesWaiting > 0
    /\ pcReadFrom' = Forward(pcReadFrom)
    /\ buffer' = place[Forward(pcReadFrom)]
    /\ uxMessagesWaiting' = uxMessagesWaiting - 1
    /\ UNCHANGED <<place, pcWriteTo>>

\* Mutant: the read pointer is not put back.
PeekMovesOn ==
    /\ uxMessagesWaiting > 0
    /\ pcReadFrom' = Forward(pcReadFrom)
    /\ buffer' = place[Forward(pcReadFrom)]
    /\ UNCHANGED <<place, pcWriteTo, uxMessagesWaiting>>

\* Peeking puts the read pointer back.
Peek ==
    /\ uxMessagesWaiting > 0
    /\ buffer' = place[Forward(pcReadFrom)]
    /\ UNCHANGED <<place, pcWriteTo, pcReadFrom, uxMessagesWaiting>>

RingNext == (\E x \in Item : SendToBack(x) \/ SendToFront(x)) \/ Receive \/ Peek

RingSpec == RingInit /\ [][RingNext]_ringVars

-----------------------------------------------------------------------------
\* Pointers stay in the storage area and the count does not exceed its size.
RingTypeOK ==
    /\ place \in [Slot -> Item]
    /\ pcWriteTo \in Slot /\ pcReadFrom \in Slot
    /\ uxMessagesWaiting \in 0..uxLength
    /\ buffer \in Item

\* The place n places on from p, for n up to uxLength.
On(p, n) == IF p + n >= pcTail THEN p + n - uxLength ELSE p + n

\* The write pointer is where the items that are waiting end.
WriteFollowsItems == pcWriteTo = Forward(On(pcReadFrom, uxMessagesWaiting))

\* The ring implements the queue: whatever the order of sends to both ends,
\* receives and peeks, each receiver gets the item that the sequence gives.
Items == [i \in 1..uxMessagesWaiting |-> place[On(pcReadFrom, i)]]

F == INSTANCE Fifo WITH items <- Items, got <- buffer, Length <- uxLength
ImplementsFifo == F!Spec
=============================================================================
