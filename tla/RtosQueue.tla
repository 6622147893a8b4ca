----------------------------- MODULE RtosQueue -----------------------------
(***************************************************************************)
(* One queue of FreeRTOS V5.4.2 (queue.c) on the scheduler of TaskSched:   *)
(* tasks that block on it with and without a limit, and interrupts that    *)
(* send and receive while it is locked.                                    *)
(*                                                                         *)
(* Every action is one critical section of queue.c, or one statement       *)
(* between two of them; an interrupt can come before each.  The items are  *)
(* left out: the ring that stores them only changes inside the critical    *)
(* sections that count them, and is the subject of QueueRing.              *)
(***************************************************************************)
EXTENDS TaskSched, Integers, SequencesExt

CONSTANTS
    Ops,        \* Ops[t]: the calls of task t, of "send", "receive" and "peek"
    Waits,      \* Waits[t]: the block times it passes
    IsrCalls,   \* what the interrupts do: "send", "receive"
    Length,     \* uxLength
    MaxLock     \* bound: what interrupts do to the queue while it is locked

ASSUME QueueAssumption ==
    /\ EventList = {"toSend", "toReceive"}
    /\ Ops \in [Task -> SUBSET {"send", "receive", "peek"}] /\ Ops[Idle] = {}
    /\ Waits \in [Task -> SUBSET portTickType]
    /\ IsrCalls \subseteq {"send", "receive"}
    /\ Length \in Nat \ {0} /\ MaxLock \in Nat \ {0}

VARIABLES
    q,      \* the fields of xQUEUE that are not lists
    call,   \* call[t]: parameters and locals of the call of task t
    left    \* history: ticks up to the end of the block time of each call

qvars == <<k, pc, lastWake, due, q, call, left>>

queueUNLOCKED == -1
queueLOCKED_UNMODIFIED == 0

NoTimeOut == [overflows |-> 0, entered |-> 0]
NoCall == [op |-> "none", wait |-> 0, timeSet |-> FALSE, timeout |-> NoTimeOut, path |-> "block"]

\* The list in which the caller waits, and the one it wakes a task of.
Waiting(op) == IF op = "send" THEN "toSend" ELSE "toReceive"
Waking(op) == IF op = "receive" THEN "toSend" ELSE "toReceive"

\* Mutant: one item too many.
FullLate == q.messages > Length

prvIsQueueEmpty == q.messages = 0
prvIsQueueFull  == q.messages = Length
MustWait(op) == IF op = "send" THEN prvIsQueueFull ELSE prvIsQueueEmpty
Transferred(op) == CASE op = "send" -> q.messages + 1
                     [] op = "receive" -> q.messages - 1
                     [] op = "peek" -> q.messages

-----------------------------------------------------------------------------
(* Event lists (tasks.c).                                                  *)

\* Mutant: a new waiter is put behind the ones that are there.
PlaceLast(j, t, l, wait) ==
    LET u == [j EXCEPT !.event[l] = Append(@, t)]
    IN IF wait = portMAX_DELAY
       THEN [RemoveGeneric(u, {t}) EXCEPT !.suspended = @ \cup {t}]
       ELSE DelayTask(u, t, Plus(j.tick, wait))

\* The items of an event list are sorted by their value, which prefers higher
\* priorities; a task that waits without limit is in the suspended list.
vTaskPlaceOnEventList(j, t, l, wait) ==
    LET value == [x \in Task |-> MaxPriorities - j.item[x]]
        u == [j EXCEPT !.event[l] = vListInsert(@, t, value)]
    IN IF wait = portMAX_DELAY
       THEN [RemoveGeneric(u, {t}) EXCEPT !.suspended = @ \cup {t}]
       ELSE DelayTask(u, t, Plus(j.tick, wait))

\* The first waiting task becomes ready, or pending while the scheduler is
\* suspended.
xTaskRemoveFromEventList(j, l) ==
    LET t == Head(j.event[l])
    IN IF j.susp = 0 THEN MakeReady(j, <<t>>)
       ELSE [RemoveEvent(j, {t}) EXCEPT !.pending = Append(@, t)]

\* What it returns: should the caller yield to the task it has woken?
Preempts(j, l) == j.prio[Head(j.event[l])] >= j.prio[j.current]

\* Mutant: the task that has been woken waits for the next switch.
WakeOnly(j, l) == IF j.event[l] = <<>> THEN j ELSE xTaskRemoveFromEventList(j, l)

\* After a transfer: wake a waiting task and yield to it.
WakeAndYield(j, l) ==
    IF j.event[l] = <<>> THEN j
    ELSE LET u == xTaskRemoveFromEventList(j, l)
         IN IF Preempts(j, l) THEN vTaskSwitchContext(u) ELSE u

\* prvUnlockQueue wakes one task for each transfer its lock has counted; the
\* scheduler is suspended.
WakeCounted(j, l, lock) ==
    LET n == IF lock < Len(j.event[l]) THEN lock ELSE Len(j.event[l])
        woken[i \in 0..n] ==
            IF i = 0 THEN j
            ELSE LET u == woken[i - 1]
                 IN [xTaskRemoveFromEventList(u, l) EXCEPT !.missedYield = @ \/ Preempts(u, l)]
    IN IF lock > queueLOCKED_UNMODIFIED THEN woken[n] ELSE j

-----------------------------------------------------------------------------
(* xQueueGenericSend and xQueueGenericReceive, which has peeking as a      *)
(* variant: the same loop with the two ends of the queue exchanged.        *)

QInit == Init
    /\ q = [messages |-> 0, txLock |-> queueUNLOCKED, rxLock |-> queueUNLOCKED]
    /\ call = [t \in Task |-> NoCall]
    /\ left = [t \in Task |-> 0]

Enter(t, op, wait) ==
    /\ Runs(t, "app")
    /\ op \in Ops[t] /\ k.susp = 0
    /\ call' = [call EXCEPT ![t] = [NoCall EXCEPT !.op = op, !.wait = wait]]
    /\ Goto(t, "q_top")
    /\ UNCHANGED <<k, lastWake, due, q>>

Return(t) == Goto(t, "app") /\ call' = [call EXCEPT ![t] = NoCall]

\* There is room, or an item.
Transfer(t) ==
    /\ Runs(t, "q_top")
    /\ ~MustWait(call[t].op)
    /\ q' = [q EXCEPT !.messages = Transferred(call[t].op)]
    /\ k' = WakeAndYield(k, Waking(call[t].op))
    /\ Return(t)
    /\ KeepDue /\ UNCHANGED lastWake

\* There is not, and the caller does not wait.
ReturnAtOnce(t) ==
    /\ Runs(t, "q_top")
    /\ MustWait(call[t].op) /\ call[t].wait = 0
    /\ Return(t)
    /\ UNCHANGED <<k, lastWake, due, q>>

\* vTaskSetTimeOutState() on the first round of the loop.
vTaskSetTimeOutState == [overflows |-> k.overflows, entered |-> k.tick]

DecideToWait(t) ==
    /\ Runs(t, "q_top")
    /\ MustWait(call[t].op) /\ call[t].wait # 0
    /\ call' = [call EXCEPT ![t].timeSet = TRUE,
                            ![t].timeout = IF call[t].timeSet THEN @ ELSE vTaskSetTimeOutState]
    /\ Goto(t, "q_suspend")
    /\ UNCHANGED <<k, lastWake, due, q>>

SuspendAll(t) ==
    /\ Runs(t, "q_suspend")
    /\ k' = vTaskSuspendAll(k)
    /\ Goto(t, "q_lock")
    /\ UNCHANGED <<lastWake, due, q, call>>

LockedNow(lock) == IF lock = queueUNLOCKED THEN queueLOCKED_UNMODIFIED ELSE lock

prvLockQueue(t) ==
    /\ Runs(t, "q_lock")
    /\ q' = [q EXCEPT !.rxLock = LockedNow(@), !.txLock = LockedNow(@)]
    /\ Goto(t, "q_check")
    /\ UNCHANGED <<k, lastWake, due, call>>

\* A call that has not timed out goes on with what is left of its block time.
xTaskCheckForTimeOut(t) ==
    /\ Runs(t, "q_check")
    /\ IF TimedOut(k.overflows, k.tick, call[t].timeout, call[t].wait)
       THEN /\ call' = [call EXCEPT ![t].path = "fail"]
            /\ Goto(t, "q_unlock")
       ELSE /\ call' = [call EXCEPT
                   ![t].wait = TicksLeft(k.tick, call[t].timeout, @),
                   ![t].timeout = IF call[t].wait = portMAX_DELAY THEN @ ELSE vTaskSetTimeOutState]
            /\ Goto(t, "q_test")
    /\ UNCHANGED <<k, lastWake, due, q>>

TestAgain(t) ==
    /\ Runs(t, "q_test")
    /\ call' = [call EXCEPT ![t].path = IF MustWait(call[t].op) THEN "block" ELSE "retry"]
    /\ Goto(t, IF MustWait(call[t].op) THEN "q_place" ELSE "q_unlock")
    /\ UNCHANGED <<k, lastWake, due, q>>

Place(t) ==
    /\ Runs(t, "q_place")
    /\ k' = vTaskPlaceOnEventList(k, t, Waiting(call[t].op), call[t].wait)
    /\ due' = IF call[t].wait = portMAX_DELAY THEN due
              ELSE [due EXCEPT ![t] = Later(Clock(k), call[t].wait)]
    /\ Goto(t, "q_unlock")
    /\ UNCHANGED <<lastWake, q, call>>

\* Mutant: the transfers counted in xTxLock are forgotten.
UnlockTxSilently(t) ==
    /\ Runs(t, "q_unlock")
    /\ q' = [q EXCEPT !.txLock = queueUNLOCKED]
    /\ Goto(t, "q_unlock_rx")
    /\ UNCHANGED <<k, lastWake, due, call>>

\* The two critical sections of prvUnlockQueue.
UnlockTx(t) ==
    /\ Runs(t, "q_unlock")
    /\ k' = WakeCounted(k, "toReceive", q.txLock)
    /\ q' = [q EXCEPT !.txLock = queueUNLOCKED]
    /\ Goto(t, "q_unlock_rx")
    /\ UNCHANGED <<lastWake, due, call>>

UnlockRx(t) ==
    /\ Runs(t, "q_unlock_rx")
    /\ k' = WakeCounted(k, "toSend", q.rxLock)
    /\ q' = [q EXCEPT !.rxLock = queueUNLOCKED]
    /\ Goto(t, "q_resume")
    /\ UNCHANGED <<lastWake, due, call>>

\* A call that blocks yields unless xTaskResumeAll() has.
QueueResume(t) ==
    LET path == call[t].path
    IN /\ ResumeAll(t, "q_resume", IF path = "fail" THEN "app" ELSE "q_top",
                    CASE path = "block" -> "q_yield" [] path = "retry" -> "q_top" [] path = "fail" -> "app")
       /\ call' = IF path = "fail" THEN [call EXCEPT ![t] = NoCall] ELSE call
       /\ UNCHANGED q

\* What a queue and a mutex have in common.
LoopStep(t) ==
    \/ ReturnAtOnce(t) \/ DecideToWait(t)
    \/ SuspendAll(t) \/ prvLockQueue(t) \/ xTaskCheckForTimeOut(t) \/ TestAgain(t)
    \/ UnlockTx(t) \/ UnlockRx(t) \/ QueueResume(t)
    \/ (taskYIELD(t, "q_yield", "q_top") /\ UNCHANGED <<q, call>>)

QueueStep(t) == Transfer(t) \/ Place(t) \/ LoopStep(t)

-----------------------------------------------------------------------------
(* Interrupts.  An interrupt that has woken a task of higher priority ends *)
(* with a context switch.                                                  *)

xQueueSendFromISR ==
    /\ "send" \in IsrCalls
    /\ ~prvIsQueueFull
    /\ IF q.txLock = queueUNLOCKED
       THEN /\ q' = [q EXCEPT !.messages = @ + 1]
            /\ k' = WakeAndYield(k, "toReceive")
       ELSE /\ q.txLock < MaxLock
            /\ q' = [q EXCEPT !.messages = @ + 1, !.txLock = @ + 1]
            /\ UNCHANGED k
    /\ KeepDue /\ UNCHANGED <<pc, lastWake, call>>

xQueueReceiveFromISR ==
    /\ "receive" \in IsrCalls
    /\ ~prvIsQueueEmpty
    /\ IF q.rxLock = queueUNLOCKED
       THEN /\ q' = [q EXCEPT !.messages = @ - 1]
            /\ k' = WakeAndYield(k, "toSend")
       ELSE /\ q.rxLock < MaxLock
            /\ q' = [q EXCEPT !.messages = @ - 1, !.rxLock = @ + 1]
            /\ UNCHANGED k
    /\ KeepDue /\ UNCHANGED <<pc, lastWake, call>>

-----------------------------------------------------------------------------
\* The block time of a call counts from its vTaskSetTimeOutState().
KeepLeft ==
    LET ticks == (Clock(k') + 2 * TickMod - Clock(k)) % (2 * TickMod)
    IN left' = [t \in Task |-> CASE ~call'[t].timeSet -> 0
                                 [] call'[t].timeSet /\ ~call[t].timeSet -> call[t].wait
                                 [] OTHER -> IF left[t] > ticks THEN left[t] - ticks ELSE 0]

QueueActions ==
    \/ \E t \in Task : QueueStep(t) \/ (\E op \in Ops[t], wait \in Waits[t] : Enter(t, op, wait))
    \/ xQueueSendFromISR \/ xQueueReceiveFromISR

QNext == (QueueActions \/ (Next /\ UNCHANGED <<q, call>>)) /\ KeepLeft

QSpec == QInit /\ [][QNext]_qvars

-----------------------------------------------------------------------------
WaitsFor(t, l) == t \in ToSet(k.event[l])

\* The queue's fields and the calls' locals keep their types: the ring holds
\* at most uxLength items.
QTypeOK ==
    /\ k \in Kernel
    /\ q \in [messages : 0..Length, txLock : -1..MaxLock, rxLock : -1..MaxLock]
    /\ call \in [Task -> [op : {"none", "send", "receive", "peek"}, wait : portTickType,
                          timeSet : BOOLEAN, path : {"block", "retry", "fail"},
                          timeout : [overflows : 0..OverflowMod-1, entered : portTickType]]]

\* No wakeup is lost: while tasks wait on a queue that is not locked, every
\* item is meant for a task that is on its way to fetch it, and every free
\* place for one on its way to fill it.
NoLostWakeup ==
    /\ (k.event["toReceive"] # <<>> /\ q.txLock = queueUNLOCKED) =>
          q.messages <= Cardinality({t \in Task : call[t].op \in {"receive", "peek"}
                                                  /\ ~WaitsFor(t, "toReceive")})
    /\ (k.event["toSend"] # <<>> /\ q.rxLock = queueUNLOCKED) =>
          Length - q.messages <= Cardinality({t \in Task : call[t].op = "send"
                                                           /\ ~WaitsFor(t, "toSend")})

\* A task waits in an event list only from within its call, and then for time
\* or for the event alone: it is suspended or, with a limit, delayed to the very
\* end of the block time it asked for, however often it has been woken before
\* (that is 0 when the tick count went once round before the call looked at it).
WaitersBlocked ==
    \A t \in Task, l \in EventList : WaitsFor(t, l) =>
        /\ call[t].op # "none" /\ l = Waiting(call[t].op)
        /\ IF call[t].wait = portMAX_DELAY THEN t \in k.suspended
           ELSE Delayed(t) /\ left[t] \in {0, Ahead(due[t])}

\* The first task of an event list is one of the highest priority in it.
SortedByPriority ==
    \A l \in EventList : \A i, j \in DOMAIN k.event[l] :
        i < j => k.prio[k.event[l][i]] >= k.prio[k.event[l][j]]

\* A call gives up only after its block time, however often it was woken and
\* found that another task or an interrupt had been faster, and across wraps
\* of the tick count.
NoEarlyTimeout == \A t \in Task : call[t].path = "fail" => left[t] = 0
=============================================================================
