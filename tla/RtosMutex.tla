----------------------------- MODULE RtosMutex -----------------------------
(***************************************************************************)
(* A mutex of FreeRTOS V5.4.2: a queue of length 1 whose item has no size  *)
(* (xQueueCreateMutex), with priority inheritance.  Taking it is receiving *)
(* from the queue, giving it back is sending to it; the calls run through  *)
(* the loops of RtosQueue and differ in two places, the transfer and the   *)
(* moment before the caller is put on the event list.                      *)
(*                                                                         *)
(* A task takes the mutex only while it does not hold it, and gives it     *)
(* only while it does; interrupts do not use it (semphr.h).  A task may    *)
(* delay itself while it holds the mutex.                                  *)
(***************************************************************************)
EXTENDS RtosQueue, SequencesExt

VARIABLE holder     \* pxMutexHolder

mvars == <<qvars, holder>>

NULL == "none"

MutexAssumption ==
    /\ NULL \notin Task /\ Length = 1 /\ IsrCalls = {}
    /\ \A t \in Task : Ops[t] \in {{}, {"send", "receive"}}

-----------------------------------------------------------------------------
(* tasks.c                                                                 *)

\* Mutant: only a holder that is ready inherits.
InheritIfReady(j, h) ==
    IF j.prio[h] < j.prio[j.current] /\ h \in ToSet(j.ready[j.prio[h]])
    THEN MakeReady([j EXCEPT !.prio[h] = j.prio[j.current], !.item[h] = j.prio[j.current]], <<h>>)
    ELSE j

\* The holder takes over the priority of the running task if that is higher,
\* and the place in the ready lists that goes with it.
vTaskPriorityInherit(j, h) ==
    IF j.prio[h] >= j.prio[j.current] THEN j
    ELSE LET raised == [j EXCEPT !.prio[h] = j.prio[j.current], !.item[h] = j.prio[j.current]]
         IN IF h \in ToSet(j.ready[j.prio[h]]) THEN MakeReady(raised, <<h>>) ELSE raised

\* Mutant: the priority stays.
KeepPriority(j, h) == j

\* The holder is the running task.
vTaskPriorityDisinherit(j, h) ==
    IF h = NULL \/ j.prio[h] = j.base[h] THEN j
    ELSE MakeReady([j EXCEPT !.prio[h] = j.base[h], !.item[h] = j.base[h]], <<h>>)

-----------------------------------------------------------------------------
(* queue.c                                                                 *)

\* xQueueCreateMutex: nobody holds it.
MInit == Init
    /\ q = [messages |-> 1, txLock |-> queueUNLOCKED, rxLock |-> queueUNLOCKED]
    /\ call = [t \in Task |-> NoCall]
    /\ left = [t \in Task |-> 0]
    /\ holder = NULL

xSemaphoreTake(t) ==
    /\ holder # t
    /\ \E wait \in Waits[t] : Enter(t, "receive", wait)
    /\ UNCHANGED holder

\* semGIVE_BLOCK_TIME is 0.
xSemaphoreGive(t) ==
    /\ holder = t
    /\ Enter(t, "send", 0)
    /\ UNCHANGED holder

\* The mutex is taken, or given back: then the caller loses the priority it
\* has inherited before it wakes a waiting task.
MutexTransfer(t) ==
    /\ Runs(t, "q_top")
    /\ ~MustWait(call[t].op)
    /\ q' = [q EXCEPT !.messages = Transferred(call[t].op)]
    /\ LET taken == call[t].op = "receive"
       IN /\ holder' = IF taken THEN t ELSE NULL
          /\ k' = WakeAndYield(IF taken THEN k ELSE vTaskPriorityDisinherit(k, holder),
                               Waking(call[t].op))
    /\ Return(t)
    /\ KeepDue /\ UNCHANGED lastWake

\* The scheduler is suspended: nobody can give the mutex between the test and
\* the inheritance.
MutexPlace(t) ==
    /\ Runs(t, "q_place")
    /\ k' = vTaskPlaceOnEventList(vTaskPriorityInherit(k, holder), t, "toReceive", call[t].wait)
    /\ due' = IF call[t].wait = portMAX_DELAY THEN due
              ELSE [due EXCEPT ![t] = Later(Clock(k), call[t].wait)]
    /\ Goto(t, "q_unlock")
    /\ UNCHANGED <<lastWake, q, call, holder>>

MutexCall(t) ==
    \/ xSemaphoreTake(t) \/ xSemaphoreGive(t)
    \/ MutexTransfer(t) \/ MutexPlace(t)
    \/ (LoopStep(t) /\ UNCHANGED holder)

MNext == ((\E t \in Task : MutexCall(t)) \/ (Next /\ UNCHANGED <<q, call, holder>>)) /\ KeepLeft

MSpec == MInit /\ [][MNext]_mvars

-----------------------------------------------------------------------------
\* A task that waits for the mutex lends its priority to the task that holds
\* it, also to one that is delayed and to one that got the mutex while others
\* were waiting; and there is a holder whenever a task is about to wait.
HolderInherits ==
    /\ \A t \in Task : (WaitsFor(t, "toReceive") /\ holder # NULL) => k.prio[holder] >= k.prio[t]
    /\ pc[k.current] = "q_place" => holder # NULL

\* No priority inversion: while the holder of the mutex is ready to run, no task
\* of a lower priority than one that waits for it has the CPU, but for a task
\* that is on its way to block.
NoInversion ==
    \A t \in Task :
        (/\ WaitsFor(t, "toReceive") /\ holder # NULL /\ Ready(holder)
         /\ k.susp = 0 /\ pc[k.current] \notin {"yield", "q_yield"})
        => k.prio[k.current] >= k.prio[t]

\* A task that does not hold the mutex has its own priority: what it inherited
\* ends with the give, whoever has given up waiting meanwhile.
BaseRestored == \A t \in Task : holder # t => k.prio[t] = k.base[t] /\ k.item[t] = k.base[t]
=============================================================================
