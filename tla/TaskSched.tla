----------------------------- MODULE TaskSched -----------------------------
(***************************************************************************)
(* The scheduler of FreeRTOS V5.4.2 as lpc2378-tests builds it (tasks.c on *)
(* the lists of list.c, ports of portISR.c): preemption, time slicing, the *)
(* tick interrupt, delays, suspension, priorities, and the deletion and    *)
(* creation of tasks.                                                      *)
(*                                                                         *)
(* There is one CPU.  pc[t] is where task t is between two critical        *)
(* sections; only the running task moves, the tick interrupt comes         *)
(* whenever interrupts are enabled, which is between any two steps.        *)
(*                                                                         *)
(* The kernel's globals are one record k, so that the C functions are      *)
(* operators from kernel state to kernel state.  A list is the sequence of *)
(* its items; a ready list starts after pxIndex, so its last item is the   *)
(* one pxIndex points at.                                                  *)
(***************************************************************************)
EXTENDS TickTime, Sequences, FiniteSets, SequencesExt

CONSTANTS
    Created,        \* the tasks in the order of their creation, the idle task last
    InitPriority,   \* InitPriority[t]: the priority passed to xTaskCreate
    MaxPriorities,  \* configMAX_PRIORITIES
    EventList,      \* the event lists of the queues
    OverflowMod,    \* the number of values of xNumOfOverflows
    MaxMissed,      \* bound: ticks missed during one suspension of the scheduler
    Calls,          \* Calls[t]: the API functions task t uses
    Delays,         \* the delays they ask for
    NewPriorities   \* the priorities they set

Task == ToSet(Created)
Idle == Last(Created)
Priority == 0..MaxPriorities-1
Clip(p) == IF p >= MaxPriorities THEN MaxPriorities - 1 ELSE p

ASSUME SchedAssumption ==
    /\ MaxPriorities \in Nat \ {0} /\ OverflowMod \in Nat \ {0} /\ OverflowMod % 2 = 0 /\ MaxMissed \in Nat \ {0}
    /\ Created \in Seq(Task) /\ Created # <<>>
    /\ \A i, j \in DOMAIN Created : i # j => Created[i] # Created[j]
    /\ InitPriority \in [Task -> Nat] /\ InitPriority[Idle] = 0 /\ DOMAIN Calls = Task
    /\ Delays \subseteq portTickType \ {portMAX_DELAY} /\ NewPriorities \subseteq Nat

VARIABLES
    k,          \* the globals of tasks.c
    pc,         \* pc[t]: where task t is in the kernel, "app" when it is not
    lastWake,   \* lastWake[t]: its pxPreviousWakeTime
    due         \* history: the time for which each task last asked to be woken

sched == <<k, lastWake, due>>

Kernel == [
    current : Task,                        \* pxCurrentTCB
    prio : [Task -> Priority],             \* uxPriority
    base : [Task -> Priority],             \* uxBasePriority: the same, unless a mutex has changed uxPriority
    item : [Task -> Priority],             \* configMAX_PRIORITIES minus the value of xEventListItem
    ready : [Priority -> Seq(Task)],       \* pxReadyTasksLists
    delayed : Seq(Task),                   \* pxDelayedTaskList
    overflowed : Seq(Task),                \* pxOverflowDelayedTaskList
    pending : Seq(Task),                   \* xPendingReadyList
    suspended : SUBSET Task,               \* xSuspendedTaskList: its order is never used
    terminating : Seq(Task),               \* xTasksWaitingTermination
    deleted : Nat,                         \* uxTasksDeleted
    free : SUBSET Task,                    \* task control blocks that are not allocated
    event : [EventList -> Seq(Task)],      \* the queues' lists of waiting tasks
    wake : [Task -> portTickType],         \* value of xGenericListItem in a delayed list, else 0
    tick : portTickType,                   \* xTickCount
    overflows : 0..OverflowMod-1,          \* xNumOfOverflows
    missed : 0..MaxMissed,                 \* uxMissedTicks
    missedYield : BOOLEAN,                 \* xMissedYield
    susp : {0, 1},                         \* uxSchedulerSuspended: no caller nests it
    top : Priority ]                       \* uxTopReadyPriority

-----------------------------------------------------------------------------
(* Lists.                                                                  *)

\* The items of s that are in S, in their order.
Select(s, S) ==
    LET chosen[n \in 0..Len(s)] ==
            IF n = 0 THEN <<>>
            ELSE IF s[n] \in S THEN Append(chosen[n-1], s[n]) ELSE chosen[n-1]
    IN chosen[Len(s)]

Without(s, S) == IF ToSet(s) \cap S = {} THEN s ELSE Select(s, ToSet(s) \ S)

\* vListInsert: behind the items whose value is not greater.
vListInsert(s, t, value) ==
    LET n == Cardinality({i \in DOMAIN s : \A j \in 1..i : value[s[j]] <= value[t]})
    IN SubSeq(s, 1, n) \o <<t>> \o SubSeq(s, n + 1, Len(s))

\* Mutant: as if a task in a list were always a ready one.
RemoveReady(j, S) == [j EXCEPT !.ready = [p \in Priority |-> Without(j.ready[p], S)]]

\* vListRemove of the generic items of the tasks in S.
RemoveGeneric(j, S) ==
    [RemoveReady(j, S) EXCEPT
        !.delayed = Without(@, S),
        !.overflowed = Without(@, S),
        !.suspended = @ \ S,
        !.terminating = Without(@, S),
        !.wake = [t \in Task |-> IF t \in S THEN 0 ELSE @[t]]]

\* Mutant: a task that waits for an event stays in that list.
RemovePending(j, S) == [j EXCEPT !.pending = Without(@, S)]

\* vListRemove of the event items of the tasks in S.
RemoveEvent(j, S) ==
    [RemovePending(j, S) EXCEPT !.event = [l \in EventList |-> Without(j.event[l], S)]]

\* Mutant: uxTopReadyPriority is left as it is.
MakeReadyKeepTop(j, s) ==
    LET u == RemoveEvent(RemoveGeneric(j, ToSet(s)), ToSet(s))
    IN [u EXCEPT !.ready = [p \in Priority |-> @[p] \o Select(s, {t \in ToSet(s) : j.prio[t] = p})]]

\* The tasks of s leave the lists they are in and are added to the ready
\* lists (prvAddTaskToReadyQueue) one after the other.
MakeReady(j, s) ==
    LET u == RemoveEvent(RemoveGeneric(j, ToSet(s)), ToSet(s))
        P == {j.prio[t] : t \in ToSet(s)} \cup {j.top}
    IN [u EXCEPT !.ready = [p \in Priority |-> @[p] \o Select(s, {t \in ToSet(s) : j.prio[t] = p})],
                 !.top = CHOOSE p \in P : \A q \in P : q <= p]

\* The running task t moves to the delayed list its wake time belongs to.
DelayTask(j, t, wake) ==
    LET u == [RemoveGeneric(j, {t}) EXCEPT !.wake[t] = wake]
    IN IF WakeOverflowed(wake, j.tick)
       THEN [u EXCEPT !.overflowed = vListInsert(@, t, u.wake)]
       ELSE [u EXCEPT !.delayed = vListInsert(@, t, u.wake)]

-----------------------------------------------------------------------------
(* Functions of tasks.c that tasks and interrupts call.                    *)

\* Mutant: pxIndex stays where it is.
SameEntry(s) == s

\* pxIndex moves on by one entry, which is the last of the list from there on.
listGET_OWNER_OF_NEXT_ENTRY(s) == Append(Tail(s), Head(s))

\* Take the next task, in turn, of the highest priority that has one.
vTaskSwitchContext(j) ==
    IF j.susp > 0 THEN [j EXCEPT !.missedYield = TRUE]
    ELSE LET P == {p \in Priority : p <= j.top /\ j.ready[p] # <<>>}
             top == CHOOSE p \in P : \A q \in P : q <= p
             turn == listGET_OWNER_OF_NEXT_ENTRY(j.ready[top])
         IN [j EXCEPT !.top = top, !.current = Last(turn), !.ready[top] = turn]

\* Mutant: a task is woken one tick after its time.
CheckDelayedLate(j) == MakeReady(j, Select(j.delayed, {t \in ToSet(j.delayed) : j.wake[t] < j.tick}))

\* prvCheckDelayedTasks: from the head of the list, until one is not due.
prvCheckDelayedTasks(j) == MakeReady(j, Select(j.delayed, {t \in ToSet(j.delayed) : j.wake[t] <= j.tick}))

\* Mutant: the lists are not exchanged when the count wraps.
IncrementTickNoSwap(j) ==
    IF j.susp > 0 THEN [j EXCEPT !.missed = @ + 1]
    ELSE prvCheckDelayedTasks([j EXCEPT !.tick = Plus(@, 1),
                                        !.overflows = IF j.tick = portMAX_DELAY THEN (@ + 1) % OverflowMod ELSE @])

vTaskIncrementTick(j) ==
    IF j.susp > 0 THEN [j EXCEPT !.missed = @ + 1]
    ELSE prvCheckDelayedTasks(
            IF Plus(j.tick, 1) # 0 THEN [j EXCEPT !.tick = Plus(@, 1)]
            ELSE [j EXCEPT !.tick = 0,
                           !.delayed = j.overflowed,
                           !.overflowed = j.delayed,
                           !.overflows = (@ + 1) % OverflowMod])

vTaskSuspendAll(j) == [j EXCEPT !.susp = @ + 1]

\* Mutant: a task that a missed tick has woken does not count.
YieldForPending(j) == \E t \in ToSet(j.pending) : j.prio[t] >= j.prio[j.current]

YieldRequired(j) == YieldForPending(j) \/ j.missed > 0 \/ j.missedYield

\* Tasks made ready while the scheduler was suspended go to the ready lists,
\* then the missed ticks are made up for; the result says whether the caller
\* has already yielded.
xTaskResumeAll(j) ==
    LET moved == MakeReady([j EXCEPT !.susp = @ - 1], j.pending)
        caught[n \in 0..j.missed] == IF n = 0 THEN moved ELSE vTaskIncrementTick(caught[n-1])
        done == [caught[j.missed] EXCEPT !.missed = 0]
    IN IF YieldRequired(j)
       THEN [k |-> vTaskSwitchContext([done EXCEPT !.missedYield = FALSE]), yielded |-> TRUE]
       ELSE [k |-> done, yielded |-> FALSE]

-----------------------------------------------------------------------------
(* Initial state: main() has created its tasks and started the scheduler.  *)
(* A task created before that becomes the current one unless the current   *)
(* one has a higher priority.                                              *)

Init ==
    /\ k = [current |-> Last(Select(Created, {t \in Task :
                            \A x \in Task : Clip(InitPriority[x]) <= Clip(InitPriority[t])})),
            prio |-> [t \in Task |-> Clip(InitPriority[t])],
            base |-> [t \in Task |-> Clip(InitPriority[t])],
            item |-> [t \in Task |-> Clip(InitPriority[t])],
            ready |-> [p \in Priority |-> Select(Created, {t \in Task : Clip(InitPriority[t]) = p})],
            delayed |-> <<>>, overflowed |-> <<>>, pending |-> <<>>, suspended |-> {},
            terminating |-> <<>>, deleted |-> 0, free |-> {},
            event |-> [l \in EventList |-> <<>>],
            wake |-> [t \in Task |-> 0],
            tick |-> 0, overflows |-> 0, missed |-> 0, missedYield |-> FALSE, susp |-> 0,
            top |-> CHOOSE p \in Priority : /\ \E t \in Task : Clip(InitPriority[t]) = p
                                            /\ \A t \in Task : Clip(InitPriority[t]) <= p]
    /\ pc = [t \in Task |-> "app"]
    /\ lastWake = [t \in Task |-> 0]
    /\ due = [t \in Task |-> 0]

-----------------------------------------------------------------------------
(* Task t calls the API.  A call that suspends the scheduler to change the *)
(* lists of delayed tasks is one step up to xTaskResumeAll(): until then   *)
(* an interrupt only counts ticks and touches other lists.                 *)

\* Handles are used only while their task exists.
Alive(x) == x \notin k.free \cup ToSet(k.terminating)

Runs(t, at) == k.current = t /\ pc[t] = at
Goto(t, at) == pc' = [pc EXCEPT ![t] = at]
Calling(t, call) == call \in Calls[t] /\ t # Idle /\ Runs(t, "app")

\* Absolute time, modulo two rounds of the tick count.
Clock(j) == (j.overflows % 2) * TickMod + j.tick
Later(clock, n) == (clock + n) % (2 * TickMod)
IsDelayed(j, t) == t \in ToSet(j.delayed) \cup ToSet(j.overflowed)
KeepDue == due' = [t \in Task |-> IF IsDelayed(k', t) THEN due[t] ELSE 0]

\* vTaskDelay(0) only yields.
vTaskDelay(t, n) ==
    /\ Calling(t, "vTaskDelay")
    /\ IF n = 0
       THEN Goto(t, "yield") /\ UNCHANGED <<k, due>>
       ELSE /\ k' = DelayTask(vTaskSuspendAll(k), t, Plus(k.tick, n))
            /\ due' = [due EXCEPT ![t] = Later(Clock(k), n)]
            /\ Goto(t, "resume")
    /\ UNCHANGED lastWake

vTaskDelayUntil(t, n) ==
    LET wake == Plus(lastWake[t], n)
    IN /\ Calling(t, "vTaskDelayUntil")
       /\ lastWake' = [lastWake EXCEPT ![t] = wake]
       /\ IF xShouldDelay(lastWake[t], n, k.tick)
          THEN /\ k' = DelayTask(vTaskSuspendAll(k), t, wake)
               /\ due' = [due EXCEPT ![t] = Later(Clock(k), Minus(wake, k.tick))]
          ELSE /\ k' = vTaskSuspendAll(k)
               /\ UNCHANGED due
       /\ Goto(t, "resume")

\* A task that suspends itself yields after the critical section.
vTaskSuspend(t, x) ==
    /\ Calling(t, "vTaskSuspend")
    /\ x # Idle /\ Alive(x)
    /\ k' = [RemoveEvent(RemoveGeneric(k, {x}), {x}) EXCEPT !.suspended = @ \cup {x}]
    /\ Goto(t, IF x = t THEN "yield" ELSE "app")
    /\ KeepDue /\ UNCHANGED lastWake

\* In the suspended list, and not because it waits for an event without limit.
xTaskIsTaskSuspended(x) ==
    /\ x \in k.suspended
    /\ x \notin ToSet(k.pending)
    /\ \A l \in EventList : x \notin ToSet(k.event[l])

vTaskResume(t, x) ==
    /\ Calling(t, "vTaskResume")
    /\ x # t /\ xTaskIsTaskSuspended(x)
    /\ LET j == MakeReady(k, <<x>>)
       IN k' = IF k.prio[x] >= k.prio[t] THEN vTaskSwitchContext(j) ELSE j
    /\ KeepDue /\ UNCHANGED <<pc, lastWake>>

\* A priority that a mutex has raised is left alone.  A task in the ready list
\* of its base priority moves to the list of the new one; one that waits for an
\* event keeps its place in the event list.
vTaskPrioritySet(t, x, p) ==
    /\ Calling(t, "vTaskPrioritySet") /\ Alive(x)
    /\ LET new == Clip(p)
           old == k.base[x]
           set == [k EXCEPT !.prio[x] = IF @ = old THEN new ELSE @, !.base[x] = new, !.item[x] = new]
           j == IF x \in ToSet(k.ready[old]) THEN MakeReady(set, <<x>>) ELSE set
           yields == IF new > old THEN x # t ELSE x = t
       IN /\ new # old
          /\ k' = IF yields THEN vTaskSwitchContext(j) ELSE j
    /\ KeepDue /\ UNCHANGED <<pc, lastWake>>

\* Mutant: the idle task is not told.
DeleteUncounted(t, x) ==
    /\ Calling(t, "vTaskDelete") /\ x # Idle /\ Alive(x)
    /\ k' = [RemoveEvent(RemoveGeneric(k, {x}), {x}) EXCEPT !.terminating = Append(@, x)]
    /\ Goto(t, IF x = t THEN "yield" ELSE "app")
    /\ KeepDue /\ UNCHANGED lastWake

\* The memory of the deleted task is left to the idle task; a task that
\* deletes itself still runs up to its yield.
vTaskDelete(t, x) ==
    /\ Calling(t, "vTaskDelete") /\ x # Idle /\ Alive(x)
    /\ k' = [RemoveEvent(RemoveGeneric(k, {x}), {x})
                EXCEPT !.terminating = Append(@, x), !.deleted = @ + 1]
    /\ Goto(t, IF x = t THEN "yield" ELSE "app")
    /\ KeepDue /\ UNCHANGED lastWake

prvAllocateTCBAndStack(j, x) == [j EXCEPT !.free = @ \ {x}]

prvInitialiseTCBVariables(j, x, p) ==
    [j EXCEPT !.prio[x] = Clip(p), !.base[x] = Clip(p), !.item[x] = Clip(p)]

prvDeleteTCB(j, x) == [j EXCEPT !.free = @ \cup {x}]

\* A new task takes the memory of one that has been freed.  The caller yields
\* to it after the critical section if it asked for a higher priority.
xTaskCreate(t, x, p) ==
    /\ Calling(t, "xTaskCreate") /\ x \in k.free
    /\ k' = MakeReady(prvInitialiseTCBVariables(prvAllocateTCBAndStack(k, x), x, p), <<x>>)
    /\ pc' = [pc EXCEPT ![x] = "app", ![t] = IF k.prio[t] < p THEN "yield" ELSE "app"]
    /\ lastWake' = [lastWake EXCEPT ![x] = 0]
    /\ KeepDue

\* An application section with the scheduler suspended.
SuspendScheduler(t) ==
    /\ Calling(t, "vTaskSuspendAll")
    /\ k' = vTaskSuspendAll(k)
    /\ Goto(t, "locked")
    /\ KeepDue /\ UNCHANGED lastWake

Call(t) ==
    \/ \E n \in Delays : vTaskDelay(t, n) \/ vTaskDelayUntil(t, n)
    \/ \E x \in Task : vTaskSuspend(t, x) \/ vTaskResume(t, x) \/ vTaskDelete(t, x)
    \/ \E x \in Task \ {Idle}, p \in NewPriorities :
          vTaskPrioritySet(t, x, p) \/ xTaskCreate(t, x, p)
    \/ SuspendScheduler(t)

-----------------------------------------------------------------------------
(* Task t goes on in the kernel.                                           *)

\* xTaskResumeAll() at one place of the code, with where to go on.
ResumeAll(t, from, ifYielded, otherwise) ==
    /\ Runs(t, from)
    /\ LET r == xTaskResumeAll(k)
       IN k' = r.k /\ Goto(t, IF r.yielded THEN ifYielded ELSE otherwise)
    /\ KeepDue /\ UNCHANGED lastWake

taskYIELD(t, from, to) ==
    /\ Runs(t, from)
    /\ k' = vTaskSwitchContext(k)
    /\ Goto(t, to)
    /\ KeepDue /\ UNCHANGED lastWake

Continue(t) ==
    \/ ResumeAll(t, "locked", "app", "app")
    \/ ResumeAll(t, "resume", "app", "yield")
    \/ taskYIELD(t, "yield", "app")

\* The idle task frees one deleted task per round.  It looks at the list with
\* the scheduler suspended and takes the first entry in a critical section.
prvCheckTasksWaitingTermination ==
    \/ /\ Runs(Idle, "app")
       /\ k.deleted > 0
       /\ k' = vTaskSuspendAll(k)
       /\ Goto(Idle, "reap")
       /\ KeepDue /\ UNCHANGED lastWake
    \/ LET next == IF k.terminating = <<>> THEN "round" ELSE "free"
       IN ResumeAll(Idle, "reap", next, next)
    \/ /\ Runs(Idle, "free")
       /\ k' = [prvDeleteTCB(k, Head(k.terminating))
                   EXCEPT !.terminating = Tail(@), !.deleted = @ - 1]
       /\ Goto(Idle, "round")
       /\ KeepDue /\ UNCHANGED lastWake

\* A round ends with a yield if the idle task shares its priority.
prvIdleTask ==
    \/ prvCheckTasksWaitingTermination
    \/ /\ Runs(Idle, "round") \/ (Runs(Idle, "app") /\ k.deleted = 0)
       /\ k' = IF Len(k.ready[0]) > 1 THEN vTaskSwitchContext(k) ELSE k
       /\ Goto(Idle, "app")
       /\ KeepDue /\ UNCHANGED lastWake

\* vPreemptiveTick
Tick ==
    /\ k.missed < MaxMissed
    /\ k' = vTaskSwitchContext(vTaskIncrementTick(k))
    /\ KeepDue /\ UNCHANGED <<pc, lastWake>>

Next == (\E t \in Task : Call(t) \/ Continue(t)) \/ prvIdleTask \/ Tick

vars == <<k, pc, lastWake, due>>

Spec == Init /\ [][Next]_vars

\* When the steps that must go on are enabled, as ENABLED <<A>>_vars written out:
\* the idle task that finds nothing to free and nobody to yield to changes
\* nothing, and may do so for ever.
TickEnabled == k.missed < MaxMissed
ContinueEnabled(t) == k.current = t /\ pc[t] \in {"locked", "resume", "yield"}
IdleEnabled ==
    /\ k.current = Idle
    /\ pc[Idle] = "app" => k.deleted > 0 \/ Len(k.ready[0]) > 1

\* Weak fairness: the timer interrupts for ever, and the CPU executes the task
\* that runs, in a kernel call or in the idle task's round.  No call has to be
\* made, but a section with the scheduler suspended ends.
Fairness ==
    /\ []<>~TickEnabled \/ []<><<Tick>>_vars
    /\ \A t \in Task \ {Idle} : []<>~ContinueEnabled(t) \/ []<><<Continue(t)>>_vars
    /\ []<>~IdleEnabled \/ []<><<prvIdleTask>>_vars

FairSpec == Spec /\ Fairness

-----------------------------------------------------------------------------
(* What some theorems assume of the system.                                *)

\* No suspension of the scheduler is so long that the two rounds of Clock go by.
FewMissed == MaxMissed < 2 * TickMod

\* None is longer than one of these rounds, so that before and after a time differ.
WithinRound == MaxMissed <= TickMod

\* No task is created while the system runs; none changes a priority; none
\* keeps another one from running.
NoCreation == \A t \in Task : "xTaskCreate" \notin Calls[t]
FixedPriorities ==
    NewPriorities = {} \/ \A t \in Task : Calls[t] \cap {"vTaskPrioritySet", "xTaskCreate"} = {}
MildCalls == \A t \in Task : Calls[t] \cap {"vTaskSuspend", "vTaskDelete", "vTaskPrioritySet", "xTaskCreate"} = {}

-----------------------------------------------------------------------------
Ready(t)   == \E p \in Priority : t \in ToSet(k.ready[p])
Delayed(t) == IsDelayed(k, t)
Occurs(s, t) == Cardinality({i \in DOMAIN s : s[i] = t})
Ahead(time) == (time + 2 * TickMod - Clock(k)) % (2 * TickMod)

\* The kernel's globals keep their types; the tick count wraps.
TypeOK ==
    /\ k \in Kernel
    /\ pc \in [Task -> {"app", "locked", "resume", "yield", "reap", "free", "round"}]
    /\ lastWake \in [Task -> portTickType]
    /\ due \in [Task -> 0..2*TickMod-1]

\* The generic item of every task is in exactly one list, of a freed task in
\* none; a ready task is in the list of its priority, and no list holds a task
\* twice.
OneList ==
    \A t \in Task :
        /\ Occurs(k.ready[k.prio[t]], t) + Occurs(k.delayed, t) + Occurs(k.overflowed, t)
           + Occurs(k.terminating, t) + (IF t \in k.suspended THEN 1 ELSE 0)
           = (IF t \in k.free THEN 0 ELSE 1)
        /\ \A p \in Priority \ {k.prio[t]} : t \notin ToSet(k.ready[p])

\* Between kernel calls the running task is a ready task of the highest
\* priority that has one, whichever call or tick has made a task ready; a task
\* that has just blocked keeps the CPU up to its yield.
HighestRuns ==
    (k.susp = 0 /\ pc[k.current] \notin {"yield", "q_yield"}) =>
        /\ k.current \in ToSet(k.ready[k.prio[k.current]])
        /\ \A p \in Priority : p > k.prio[k.current] => k.ready[p] = <<>>

\* Whenever a task can run, the search of vTaskSwitchContext starts at or above
\* it and ends at a ready list: uxTopReadyPriority is never too low.
TopCoversReady == \A p \in Priority : k.ready[p] # <<>> => p <= k.top

\* No delayed task is overdue while the scheduler keeps time, and each is in
\* the list of the round of the tick count in which it is due, so that the
\* exchange of the two lists at the wrap comes right for it.
NotOverdue ==
    /\ \A t \in ToSet(k.delayed) : k.wake[t] > k.tick
                                   /\ due[t] = (k.overflows % 2) * TickMod + k.wake[t]
    /\ \A t \in ToSet(k.overflowed) : k.wake[t] < k.tick
                                   /\ due[t] = ((k.overflows + 1) % 2) * TickMod + k.wake[t]

\* However late a task calls vTaskDelayUntil, it does not sleep longer than the
\* longest period: a wake time that has passed is never taken for one in the
\* next round of the tick count.
NeverLong == \A t \in Task : Delayed(t) => \E n \in Delays : Ahead(due[t]) <= n

\* A task that asked to be woken at a time becomes ready again not before it.
NeverEarly ==
    [][\A t \in Task : Delayed(t) /\ Ready(t)' =>
          (Clock(k') + 2 * TickMod - due[t]) % (2 * TickMod) <= TickMod]_vars

\* A task that is delayed becomes ready, if it is not suspended or deleted
\* meanwhile: no wrap of the tick count loses it.
DelayEnds == \A t \in Task : Delayed(t) ~> (Ready(t) \/ t \in k.suspended \/ ~Alive(t))

\* task.h: the idle task frees the memory of deleted tasks, if it is not starved
\* of the CPU: it gets the CPU again and again, and if it has something to do
\* each time, then some of the times it has it for long enough to do so.
Reclaimed ==
    ([]<>(k.current = Idle) /\ ([]<>IdleEnabled => []<><<prvIdleTask>>_vars)) =>
        \A t \in Task : t \in ToSet(k.terminating) ~> t \in k.free

\* Ready tasks of the highest priority share the CPU.
TimeSliced == \A t \in Task : (k.prio[t] = MaxPriorities - 1 /\ Ready(t))
                               ~> (k.current = t \/ k.prio[t] # MaxPriorities - 1 \/ ~Ready(t))
=============================================================================
