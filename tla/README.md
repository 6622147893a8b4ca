# Verification of mcu-tests

`mcu-tests` is a collection of independent firmware projects, one directory per
board (`src/<board>-tests/...`).  There is no single program: every project has
its own main loop, tasks, interrupt handlers and board support.  This directory
models the projects whose logic is concurrent or stateful enough to be wrong in
ways that a test on the bench would hardly show.

## 1. Inventory

| part | state it keeps | operations | how it interacts | what is hard |
|---|---|---|---|---|
| `lpc2378-tests/c` FreeRTOS V5.4.2 kernel (`system/tasks.c`, `queue.c`, `list.c`) and demo (`main.c`) | ready, delayed, overflow, pending, suspended, terminating lists; tick count, missed ticks; queue ring, waiting lists, lock counters, mutex holder, base priorities | delay, suspend, resume, priority set, create, delete, tick, switch; queue send/receive from tasks and interrupts, queue lock/unlock; mutex take/give | tasks block on event lists, the tick interrupt and interrupt senders wake them while the scheduler or a queue is locked | interleavings between critical sections, tick overflow, wakeups recorded while locked |
| `lpc2378-tests/c` `platform/heap_2.c` | list of free blocks, block links in the heap | `pvPortMalloc`, `vPortFree` | called with the scheduler suspended, also by task creation and the idle task | long series of calls: blocks are split and never joined |
| `esp32-tests/smars-test`, `cam-test` | event queue, registered handlers, HTTP server handle, UDP semaphore | `wifi_event_handler`, connect and disconnect handlers, `udp_task`, `http_task` | handlers of all parts run one after the other in the one event loop task | a handler that blocks blocks all others; failures and late registration |
| `esp32-tests/http-test` | as cam-test, plus files | the same handlers | the same | the same |
| `esp32-tests/mqtt-test` | MQTT client handle, active flag, button queue | heartbeat, button interrupt, publish | posts to the default event loop with no waiting time | a full event queue aborts; a flag shared by two tasks |
| `esp32-tests/wt32-sc01-plus/test1` | USB keypress queue, HID report state | button callback, `usb_hid_task` | LVGL task to USB task by a queue of 16 | press without release, dropped keys |
| `esp32-tests/t-dongle-s3/test2` | UI mode, button level, scan results | button task, WiFi scan task, UI refresh | shared state under the LVGL lock | results of an old mode drawn over a new one |
| `esp32-tests/fsm-rgb` | traffic-light state and flash count | `tl_callback` | one restarting timer | off-by-one in the flashing phase |
| `blue-pill-tests/rs` `adc-dma-test6` | ADC/DMA pair or transfer, pins, buffers, sequence state | `start_adc_dma` (TIM2), `dma1_channel1` | two interrupt tasks move the owned resources through `Option` fields | a take of `None`, sequence and pins out of step |
| `blue-pill-tests/rs` other binaries | peripherals only | polling loops | none | little |
| `stm32f4-discovery-tests/usb` | VCP receive ring with head and tail | `VCP_DataRx`; `VCP_get_char` and `VCP_get_string` have no caller | USB interrupt produces, nobody consumes | little |
| `stm32f4-discovery-tests/freertos` | LED queues | `LedFlash`, `USBHidTask`, `BlueLedControl`, EXTI0 | external FreeRTOS queue | dropped commands |
| `sim-tests/riscv` `test4` | trap depth, `sepc` | M and S trap handlers | nested traps | saved registers |
| `mik32-tests/c` | trigger state | debug triggers | none | little |
| `esp8-tests/nodemcu-tests` | Lua timers and callbacks | publish chains of sensors | WiFi and MQTT callbacks start chains | chains that are started twice or die |
| others: `ch32`, `stm32f0`, `dso138`, `longan-nano`, `black-pill`, `stm8`, `msp430`, `sipeed`, gdb scripts | peripherals only | blinking, printing, register setup | none | little |

`PROJECT.json` lists what the last column stands for as hazards, each at its line.
What makes each part correct:

- **scheduler** — the running task is a ready task of the highest priority
  whenever the scheduler is not suspended; every task is in exactly one list;
  a delay ends, not before its time and not after the tick of its time, across
  wraps of `xTickCount`; tasks of one priority share the CPU.
- **queue** — the ring is a bounded sequence; no wakeup is lost between the test
  of a queue and the wait, nor while the queue is locked; the waiting task of
  the highest priority is served first; a wait with a limit ends, and not early.
- **network node** — whatever the driver reports, the station goes on
  reconnecting; server and semaphore agree with the last event handled, also when
  one of the calls that start, stop and use them fails.
- **ADC scan** — peripherals are never lost or duplicated, what is printed is one
  complete scan, and the two groups alternate for ever.
- **mutex** — who waits lends its priority to the holder, and what was lent is given
  back with the mutex.
- **mqtt-test** — the client runs while there is an address, the last button level
  published is that of the pin, and heartbeats go on being published, also after
  the restart that an event queue without room causes.
- **USB keypad** — a key that the host saw pressed is released before the next one
  is pressed; what is typed is a subsequence of what was touched.
- **heap_2** — the memory handed out is disjoint and inside the heap, no byte is lost,
  and the free list is sorted by size.
- **display modes** — a scan result is drawn only during the visit of the mode in
  which it was started.
- **NodeMCU sensors** — one chain of publishing timers while the client is connected.
- **traffic light** — green flashes as often as configured; **RISC-V traps** — every
  handler returns behind the instruction that trapped, at every depth of nesting.

## 2. Plan

Modules are in this order, most important behaviour first.

| module | models | composes | abstract specification | state |
|---|---|---|---|---|
| `AdcDma`, `AdcDmaProofs` | adc-dma-test6.rs | two handlers, TIM2, DMA engine | — | done, proved |
| `WifiStation` | main.c of the ESP32 nodes, event loop, driver | — | — | done |
| `SmarsNode`, `SmarsNodeProofs` | http.c and udp_client.c | extends `WifiStation` | — | done, proved |
| `TickTime` | time arithmetic of tasks.c | — | exact time without wraps | done, proved |
| `TaskSched`, `TaskSchedProofs` | tasks.c, list.c, tick interrupt | extends `TickTime` | — | done, proved |
| `RtosQueue`, `RtosQueueProofs` | queue.c with blocking, locking, FromISR | extends `TaskSched` | — | done, proved |
| `RtosMutex`, `RtosQueueProofs` | mutexes of queue.c, priority inheritance of tasks.c | extends `RtosQueue` | — | done, proved |
| `Fifo`, `QueueRing`, `RtosQueueProofs` | the ring of queue.c | — | `Fifo` | done, proved |
| `MqttNode`, `MqttNodeProofs` | mqtt-test | extends `WifiStation` | — | done, proved |
| `Allocator`, `Heap2`, `Heap2Proofs` | heap_2.c | — | `Allocator` | done, proved |
| `HidKeyboard`, `HidKeyboardProofs` | wt32-sc01-plus main.cpp | UI task, USB task, host | — | done, proved |
| `DataLemmas` | — | used by four of the proof modules | — | done |

Every invariant and every action property that a run checks is a theorem, and so are
the two refinements; liveness stays with TLC (section 5).

## 3. How the modules correspond to the code

`PROJECT.json` maps each definition to its lines.  The general rules:

**`AdcDma`** — the Rust values of `Shared` are Booleans (a field is `Some` or
`None`), the regular sequence and the buffers are sequences of samples that
carry their channel and the parity of their scan.  `start_adc_dma` is three
actions, because an interrupt of higher priority and the two peripherals can
come before its lock and after it: `TimEnter`, `TimLocked` (the closure) and
`TimExit`.  `DmaIrq` is `dma1_channel1` as a whole: nothing preempts priority 2.
`TimerUpdate` and `DmaBeat` are the hardware and never wait.

**`WifiStation`, `SmarsNode`** — the default event loop is one task: `Dispatch`
takes the oldest event, and one action per handler follows in order of
registration.  A handler that blocks (`esp_wifi_scan_start(..., true)`,
`xSemaphoreTake(..., portMAX_DELAY)`) is an action that is not enabled.
Registering a handler waits for the running dispatch.  `udp_task` has one action
per call that can block or fail.  The calls in `Failing` may fail whenever they are
made: `httpd_start` leaves NULL in the handle, `httpd_stop` leaves the handle and the
server, `udp_task` ends without a semaphore or a socket, and a datagram that is not
sent costs the socket.  `httpd` is whether a server listens, `server` whether http.c
has its handle; `failed`, `forgot`, `http_up` and `udp_up` are history variables: the
calls of http.c that failed when last made, whether a `GOT_IP` was handled while a
server ran, and which handlers returned last.  The WiFi driver and the DHCP client are
external: they move `link` and post events, and block on a full queue.

**`MqttNode`** — the same station with the sidecars of mqtt-test.  Events that the
application posts itself (`AppEvents`: heartbeat and button) go through the same
queue; a post that finds it full is `Abort`, which is the restart that
`ESP_ERROR_CHECK` causes, with everything but the pin back in its initial state.
The MQTT client is a task of its own: what it does to the connection (external)
and what `mqtt_event_handler` does about it are separate steps, and
`disconnect_handler` waits for its end in the event loop task.  `reported` is a history
variable, the last button level that was published: `system_event_handler` publishes
only while `mqtt_active` (mqtt.c:95), and `"nobody"` says that the newest button event
was not published.

**`TaskSched`** — the globals of tasks.c are the fields of a record `k`, and each C
function is an operator from `k` to `k`; a call of the API by the running task is
an action.  Code between two points at which interrupts can come is one step; a
critical section is one step.  Lists are sequences (a ready list is rotated so
that `pxIndex` is at its end).  In `vTaskDelay` and `vTaskDelayUntil` the section
up to `xTaskResumeAll()` is one step: the scheduler is suspended there, and an
interrupt only counts a missed tick, which the step before or after can equally
well be preceded by.  A yield in a critical section takes effect at once.
`vTaskDelete` leaves the memory of a task in `terminating` for the idle task, whose
round is three steps (look with the scheduler suspended, resume, free one), and
`xTaskCreate` takes memory that has been freed (`free`).  `prio`, `base` and `item`
are `uxPriority`, `uxBasePriority` and the priority in the value of `xEventListItem`,
which differ only while a mutex has raised the first and the last.
`due` is a history variable, the absolute time (modulo two rounds of the tick
count) a task asked for.

**`RtosQueue`** — the loop of `xQueueGenericSend` and `xQueueGenericReceive`, which
are mirror images, is one family of actions with `call[t].op` saying which end
(peeking is receiving without taking).  Each critical section and each statement
between two is an action, so the tick and the interrupt senders and receivers come
at every point at which the code admits them.  The data of the items is in
`QueueRing`, whose actions are the critical sections that copy items.  `left` is a
history variable: the ticks that remain of the block time the caller asked for.

**`RtosMutex`** — a queue of length 1 without data, and `holder`.  It shares the loop
of `RtosQueue` (`LoopStep`) and replaces the two steps in which queue.c looks at
`uxQueueType`: the transfer, which disinherits on a give and records the holder on
a take, and the step into the event list, which is preceded by
`vTaskPriorityInherit`.

**`TickTime`** — the comparisons of wrapped times, shared by all of them.

**`Fifo`**, **`Allocator`** — what the ring and the heap promise.

**`Heap2`** — a block is the address of its link, `size` the `xBlockSize` of all
blocks, `free` the list between `xStart` and `xEnd`.  Each call is one step, since
it runs with the scheduler suspended.  The result of `pvPortMalloc` is one of three
actions (`ReturnNull`, `TakeWhole`, `Split`).  `used` and `refused` are history.

**`HidKeyboard`** — `pc` is where `usb_hid_task` is; the lambda
`send_keyboard_report` is two steps for each of the three reports (is a host there,
try), so that the host can go between them.  The host and TinyUSB's endpoint, which
holds one report until it is polled, are external.  Keys are numbered by touches, so
that two touches of one button are told apart.

What is external (not under `src/`): ESP-IDF's event loop, driver, semaphore and MQTT
client, TinyUSB and the USB host, the STM32 timer and DMA hardware.

## 4. Runs

Every passing run ends with the complete state space explored.

| run | question | bounds |
|---|---|---|
| `adc_dma` | ownership, dead `ERR` branches, complete scans, alternation | groups of 2 and 3 channels as in the code |
| `smars_node` | token, server handle, event loop and sending when the access point answers | 3 losses of the link, 2 changed addresses, queue of 4; `httpd_start`, `httpd_stop`, the creation of the semaphore, `socket` and `sendto` may fail at any time |
| `smars_reconnect` | *violation*: a reconnect that fails stops the event loop | 2 losses, no call fails |
| `mqtt_node` | client, button and heartbeat of mqtt-test | event queue and button queue of 1, 1 loss, 1 changed address, 1 restart |
| `task_sched` | every call of the scheduler's API: lists, preemption, delays, time slicing, deleted tasks | 2 tasks and idle, 4 values of the tick count, delays of 1 and 2, priorities lowered to idle and raised above the limit, 1 missed tick |
| `rtos_queue` | no lost wakeup, block times, order of waiters | a receiver with a block time of 2, a task that sends and peeks with 0 and without limit, interrupts that send and receive, queue of length 1, lock counter up to 1 |
| `queue_priority` | *violation*: the order of the waiting list after `vTaskPrioritySet` | a controller and two receivers |
| `rtos_mutex` | priority inheritance | 3 tasks of different priorities and idle, block times 0, 2 and without limit, delays of 1 |
| `mutex_give` | *violation*: the highest ready task runs after a give | the same |
| `queue_ring` | the ring implements `Fifo` | 3 places, 2 items |
| `heap2` | the heap is tiled, best fit, `Allocator` is implemented | 128 bytes, requests of 0, 1, 17, 60 and 116 bytes |
| `hid_keyboard` | presses in order and apart, each released | queue of 3, 6 touches, any number of changes of the host |

Why the bounds are enough.  The tick count wraps after 4 ticks, so every
relation of a wake time, an overflow and the current tick (before, at, behind the
wrap) occurs, and behaviours go through any number of wraps.  With a queue of
length 1, full and empty alternate at every transfer, which is when tasks wait and
wake.  A task and an interrupt at each end are the smallest setting in which a
wakeup can be taken away from the task it was meant for; a third task is needed to
change priorities, and for a mutex, whose holder, waiter and a task between them
make an inversion (all three use the mutex, so that it also passes from one waiter
to the next).  One missed tick is enough for a wakeup or a wrap to fall into a
suspension; more only repeat `vTaskIncrementTick`.
Two losses of the link suffice for one to happen while the handlers of the other
run; the third lets it happen during the recovery.  mqtt-test posts from four sides,
and a queue of one place is the one that is full most often; a restart brings it
back to the beginning, so that one loss and one restart are enough for one to follow
the other.  In the heap the sizes are chosen so that a split leaves a block that is
large enough, one that is just too small and none, that freed blocks fit other
requests, and that 116 bytes with the link are exactly the whole heap.
In the tables `MaxMissed`, `MaxLock`, `MaxLosses`, `MaxChanges`, `MaxAborts` and
`MaxTouches` are the bounds: at its bound an interrupt does not come (`MaxMissed`,
`MaxLock`), or the environment does no more (the others; the node does not run
into a full queue again, the post waits).  `QueueLen` is the length of the loop's
queue, where a full queue blocks the driver as it does in the code.

One thing is fixed in all runs.  `LateSidecars = FALSE`: the sidecars have
registered their handlers before DHCP answers; with a faster answer a handler may
miss an event, see the hazard at http.c:230.

Some properties of the network nodes name what the code gives up, and say that it
gives up nothing else:

- `TokenConserved`: after a change of the address udp_client.c may give a semaphore
  that `udp_task` holds.  One token too many is the most that can come of it, and none
  is ever lost.
- `HandleKnowsServer`: a `GOT_IP` that is handled while a server runs overwrites its
  handle with NULL.  This takes a change of the address, or an `httpd_stop` that
  failed at the disconnect before; the property says that a server loses its handle in
  no other way and that no handle is kept of a server that has gone.  `Settled` says
  what follows: the server that is up without a link is one whose stop failed or whose
  handle is lost.
- `LevelCatchesUp`: a level that finds `gpio_evt_queue` full is lost (button.c:23), one
  that comes while the client is inactive is not published (mqtt.c:95), and one that
  comes before `mqtt_task` has registered is handled by nobody.  In all other
  interleavings the last level published is that of the button.

No document or comment of the repository says what should happen in these cases, so
they are hazards in `PROJECT.json` and not findings.

Deadlock is checked except in the runs of the network nodes, which really stop when
the link does not change any more and nothing is left to post.

Every property of a passing run has a mutant of the code that breaks it; the
mutants stand before the definitions they replace.

### Fairness

- `AdcDma`: both interrupts are taken when requested and the DMA engine goes on
  (weak fairness).  TIM2 counts for ever.
- `SmarsNode`: the tasks are scheduled and the driver finishes what it was asked
  to do (weak fairness).  Nothing forces a loss of the link.  `UdpDisconnect` has
  strong fairness: the event loop task (priority 20) waits for the semaphore and
  gets it as soon as `udp_task` (idle priority) gives it.
- `MqttNode`: the event loop, the client's task and heartbeat.c go on (weak); the
  registrations, which wait for a dispatch to end, and the timer, whose post needs
  room in the queue, get there if they can again and again (strong): the dispatches
  and the full queue pass.  The link and the button do nothing they do not want to.
- `HidKeyboard`: `usb_hid_task` is scheduled and a host that is awake polls (weak).
- `TaskSched`: the tick interrupt comes for ever unless its bound stops it, and the
  running task goes on when it is inside a kernel call or is the idle task.  All are
  weak fairness with `ENABLED` written out (`TickEnabled`, `ContinueEnabled`,
  `IdleEnabled`), which TLC checks many times faster than `WF_vars`.  The idle
  task with no memory to free and nobody of its priority to yield to changes nothing and
  may do so for ever; `IdleEnabled` is false then, so that behaviours in which
  every other task has stopped for good are included, those in which all of them are
  delayed among them.  Nothing is assumed of the application: a task may compute for
  ever without a call.

Some liveness properties have a premise of their own.  `Reclaimed` holds, as task.h
says, if the idle task is not starved: it gets the CPU again and again, and if it has
something to do each time, then some of the times for long enough to do it (a task of
higher priority may otherwise preempt it each time before its first step).  An idle
task that frees what was deleted and then idles for ever satisfies the premise.
`KeepsSending` asks that the link stays up and that, from some time on, `sendto` does not
fail.  `KeepsPublishing` asks that the link stays up.

## 5. Proofs

`AdcDmaProofs` — for channel groups of every length and any contents
(`ScanAssumption`: two non-empty sequences): type correctness, `OneOwner`,
`NoErrorBranch`, `PrintsOneScan`, `NoWriteBehindOwner`.  None of them is inductive
alone: `OneOwner`, for example, does not say that TIM2 is disarmed while a transfer
runs, without which its handler could overwrite the transfer.  The invariant
`IInv` says that the system is in one of two states, `Armed` (the pair of the
current group waits for TIM2) or `Scanning` (its transfer runs or is complete, TIM2
disarmed, the cells stored so far are those of this scan).  Each action maps the one
to the other or to itself; each property follows from `IInv`.

`TaskSchedProofs` — first the time arithmetic, for every width of the tick count
(`TickModAssumption`: at least three values): a wake time is put in the overflow list
exactly if the count wraps before it; `vTaskDelayUntil` never sleeps longer than a
period and is exact for callers less than a round late; `xTaskCheckForTimeOut` never
reports an early end, and is exact within a round.  This is what a small instance
shows least convincingly, since TLC's tick count has 3 or 4 values.

Then the scheduler itself, for every set of tasks, priorities, delays, calls, widths
of the two counters and number of missed ticks (`SchedAssumption`: what `main.c` and
`FreeRTOSConfig.h` provide, in particular that the idle task is created last, with
priority 0, and that tasks do not ask for a delay of `portMAX_DELAY`).  None of the
invariants is inductive alone, and `IInv` is three things that hold each other up:

- `Fit`: each task is in one place (`OnePlace`), in a ready list only in that of its
  priority, no list holds a task twice, `top` covers the ready lists, the idle task
  is ready, `deleted` counts `terminating`.  That the idle task is always ready is
  why `vTaskSwitchContext` finds one; that `top` covers the lists is why it finds the
  right one.
- `Chosen`, unless the running task is about to yield: it is ready and none of a
  higher priority is.  A call that makes a task ready has to know that nobody else
  was waiting for the CPU already.
- `OnTime`: each delayed task's wake time is ahead, in the list of its round, and not
  further than a delay that was asked for.  It is what makes a task whose time has
  come the only one a tick wakes, and the exchange of the lists harmless.

`Good` adds that the scheduler is suspended exactly while the running task is in one
of three places, so that no call finds ticks to make up for but `xTaskResumeAll`, and
that `pending` is empty, since no task waits on a queue.  `OneList`, `HighestRuns`, `TopCoversReady`, `NotOverdue`,
`NeverLong` and `TypeOK` follow from `IInv`.

`NeverEarly` is about a step, and about one in particular: `xTaskResumeAll` makes up for
the ticks that were missed, wakes tasks on the way, and may switch.  `Slept` says what
such a step leaves of a delayed task (it is still delayed, or its wake time has come, at
most as many ticks ago as were missed), and each tick made up for adds one; any other
step that wakes nobody `Spares` the delayed tasks (`Resume` of a delayed task does
nothing, in particular).  `IInv` says that who is woken was due at that tick.

The module ends with the same functions and steps while some tasks are inside a call of
queue.c, which `RtosQueueProofs` needs: there, `Core` takes the place of `Good`, a task
may wait in an event list and `pending` need not be empty.

`RtosQueueProofs` — the queue, for every set of tasks, priorities, block times, calls,
lengths and bounds (`QueueAssumption` besides those of the scheduler).  `QInv` is the
invariant of the scheduler with three things more:

- `Core`: `Fit` as before, and `Apart`: a task that is in an event list or in
  `pending` is in one of them, once, and sleeps; only a suspended scheduler leaves
  tasks pending.  The scheduler is suspended while the running task is in one of
  the places of `Locking` or `QLocking`, and nobody else is there; the running task
  is ready unless it is about to yield.
- `Callers`, `Waiters`, `Ring`: what is known of a call at each of its places; who is
  in an event list is in a call that waits for that event, without a limit in the
  suspended list and with one delayed; the queue is locked exactly at `QLocked`.
- `Timely`: while `left` is not yet 0, the time is what the call noted plus what has
  passed of its block time, and a task in an event list will be woken when the rest
  has passed.  It connects the three representations of one time (what
  `xTaskCheckForTimeOut` compares, the wake time of the scheduler, the history
  variable), so `NoEarlyTimeout` and `WaitersBlocked` follow.

Each C function is described once by what it does to the members of the lists
(`Onward`, `Woken`, `Served`, `Listed`, `Passed`); the actions only combine these.  On
`QInv` rest three invariants that need not be inductive without it: `Right` (the
running task is of the highest priority, unless it is about to yield or to leave the
CPU), `Sorted` and `Supplied`.  `Supplied` is the argument that no wakeup is lost: for
each end of the queue, the items (or free places) are at most as many as the tasks
that are on their way to fetch (or fill) one plus what the lock has counted, from the
moment the first task waits or is about to.  Every event pays: an item by the task it
wakes or by the lock, the unlocking by the tasks it wakes, a task that has taken an
item by that item.

The mutex adds `Mutual` (the holder and the count agree; who waits does not hold it,
who gives it does; only the holder's priority differs from its own) and `Lends`: the
holder is not below a waiter (`Lenders`), when nobody holds the mutex and tasks wait
for it, an heir no lower than they is on its way to take it (`Heirs`), and the
running task is the right one or at least not below any waiter (`Leads`).
Taking the mutex needs the heir: nobody lends to a holder that comes later.

Some theorems have hypotheses, on constants, which the instances of the runs satisfy (TLC
evaluates them as `MCHypotheses`), and each is needed:

- `WithinRound` (`WakesNotEarly`): no suspension of the scheduler lasts longer than a
  round of the tick count.  `NeverEarly` compares times modulo two rounds, and what is
  more than one behind it counts as ahead.
- `FewMissed` (`WaitersAreBlocked`, `TimeoutsNotEarly`): no suspension of the scheduler
  lasts two rounds of the tick count.  A longer one cannot be told from a shorter one
  by any time the kernel keeps.  For 32 bits it is nothing.
- `NoCreation` (`NoWakeupLost`): no task is created while the system runs.  A task that
  was deleted while it was on its way to fetch an item is counted as coming; if its
  memory is used for a new task, nobody comes any more.
- `FixedPriorities` (`EventListsSorted`): no call sets a priority.  The run
  `queue_priority` shows what happens otherwise (section 6).
- `MutexAssumption`: the queue has length 1, no interrupt uses it, and a task that takes
  the mutex gives it.
- `MildCalls` (`WaitersLend`, `NoPriorityInversion`): no task suspends, deletes or
  creates one or sets a priority.  If the task that has been woken for the mutex is
  suspended, a task of low priority can take it while others of a higher one wait,
  and inherits nothing.  `PriorityGivenBack` does without this hypothesis.

The last part of the module is the ring: for every length of the queue and every type
of item (`RingAssumption`), `RingIsSound` (pointers in the storage area, the write
pointer just behind the last item) and `RingImplementsFifo`, the refinement of `Fifo`
by the ring with the items read off from the read pointer on.  The invariant is
`RingInv`; that `On` is injective over one round makes a send to one end leave the
other items alone.  `RingTypeCorrect` says that pointers and counts keep their types.

`Heap2Proofs` — for every size of the heap, alignment, link size and set of requests
(`HeapAssumption`): `Tiles`, `BestFit` and `ImplementsAllocator`.  `HeapInv` says that
the blocks are aligned and each ends where the next begins (`Blocks`, `Consecutive`),
that the free list holds the blocks not in use, once each and sorted by size
(`FreeList`), and that a block in use has room for its link and the request
(`InUse`).  `BestFit` needs the order of the list, since `pvPortMalloc` takes the first
block that is large enough; the refinement needs the tiling, since pieces are apart
only if blocks are.  Sums of sizes are not needed: that nothing is lost is that every
block ends at a block or at the end of the heap.

`SmarsNodeProofs` — for every length of the event queue, any number of losses and
changes of the address, and any failures of the calls in `Failing`: `TokenConserved`,
`HandleKnowsServer` and `Settled`, assuming `~LateSidecars`, as in the runs.  What a
sidecar believes agrees with the driver only after all events between them have been
handled, so `NodeInv` speaks of the stream of events that a sidecar has handled, is
handling and will handle (`Latest`, then the queue): its last one tells the state of
the link, and until the first change of the address `GOT_IP` and `DISCONNECTED` take
turns in it (`Order`).  That they do is why one token is never given twice before that
change, and why a server whose stop succeeds is never overtaken by a `GOT_IP`; `WebInv`
adds what is known of server, handle and failed calls after each handler of http.c.  The
UDP side counts only if it has registered its handlers or still will (`Alive`).

`MqttNodeProofs` — for all lengths of both queues and any number of losses, changes
and restarts: `ClientFollowsLink` (assuming `~LateSidecars`) and `LevelCatchesUp`
(without any hypothesis).  `LinkInv` is the stream of the client, with the state in which
`disconnect_handler` waits for the client's end.  `ButtonInv` follows the newest level
on its way through `gpio_evt_queue`, the hand of `button_task` and the event loop's
queue: whichever of them is the last that holds a level, its newest is that of the
pin, unless an interrupt is still pending or the newest level was dropped; when none
holds one, the last level published is that of the pin, or the newest was not
published.

`DataLemmas` — what the other modules need of numbers, lists and event streams.
The library states induction with an operator as parameter, which the provers cannot
instantiate; here the facts about a recursive function (`Select`, the ticks made up
for) come from the least number at which they would fail (`Least`, `UpTo`,
`Recursion`).

`HidKeyboardProofs` — for every length of the key queue and every number of touches
(`HidAssumption`): `PressesApart`, the host sees touches in order, once each, and only
while it holds no key.  The property speaks of the moment the host polls, long after
the code decided to send, so it is not inductive: the invariant follows each press
from the queue (`InOrder`), through the task's hand (`Unseen`), into an endpoint that
the idle report has left (`ReleasedBefore`, `PressPending`), and shows that it has
left the endpoint before the next key is received.

Every inductive invariant was first checked by TLC on the instance of its run.

Only model-checked: all liveness (`BothGroupsScanned`, `Reconnects`, `KeepsSending`,
`KeepsPublishing`, `DelayEnds`, `TimeSliced`, `Reclaimed`, `CleanPairs`), since liveness
under fairness is outside what the proof system proves.

## 6. Findings

- **The event loop of smars-test stops** (`smars_reconnect`).
  `udp_client.c:43` takes the semaphore without a limit, in the event loop task.  A
  second `STA_DISCONNECTED` before the next `GOT_IP` — the access point is still off,
  or the very first connection is refused — finds it taken.  The loop blocks for
  ever and `main.c` never asks for a reconnect again, although it says that it is
  "Trying to reconnect".
- **Waiting tasks are not kept in priority order** (`queue_priority`).
  `vTaskPrioritySet` (tasks.c:795) changes the sort key of a task that waits on a
  queue but leaves its item where it is, so the next item wakes a task of lower
  priority first; `queue.c` calls the list "Stored in priority order".

- **A give may leave the CPU with the wrong task** (`mutex_give`).
  When the task that lent its priority has timed out, the give lowers the priority
  of the running task (`vTaskPriorityDisinherit`, tasks.c:2179) and wakes nobody, so
  nothing switches to a ready task of a priority in between until the next tick.
  tasks.c:762 relies on the running task being the one of the highest priority, and
  tasks.c:770 switches when a task lowers its own.

One property stands for a bug that the repository records as fixed: the worklog of
the USB keypad describes a key that stuck because a release report was sent once and
not accepted; that version is the mutant of `CleanPairs`.

## 7. Not modelled, and why

- recursive mutexes, counting semaphores, the alternative queue API and co-routines of
  FreeRTOS: `FreeRTOSConfig.h` does not compile them; trace and run time statistics
  only read; queues are never deleted and the registry is for a debugger;
- `xTaskResumeFromISR` (tasks.c:938-967), which is compiled but called by nobody: while
  the scheduler is suspended it would leave a task pending without an event, which is
  why the invariants of `TaskSched` may say that `pending` stays empty;
- the FreeRTOS demo (`main.c`): its calls are those of the kernel modules, except one,
  a FromISR send from a task (main.c:164), for which every statement of
  `xQueueGenericSendFromISR` would have to be a step, and its output on the UART;
- HTTP request handlers, camera capture, motor loop, display drawing: data without
  a concurrent partner;
- the t-dongle-s3 modes, the traffic light and the RISC-V traps: little state of
  their own; what is hard is in the driver, on the display or in CPU registers;
- the virtual COM port: no code reads its ring;
- the NodeMCU sensors: what a failed publish or connect does to their chains of
  timers is decided by firmware that is not in the repository;
- the boards in the last row of the inventory and the vendored start-up, register
  and `printf` code: sequential set-up;
- the FreeRTOS of stm32f4-discovery and ESP-IDF itself: not in the repository.
