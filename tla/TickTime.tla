------------------------------ MODULE TickTime ------------------------------
(***************************************************************************)
(* The time arithmetic of tasks.c (FreeRTOS V5.4.2): xTickCount is a       *)
(* portTickType that wraps, and every comparison of times has to allow for *)
(* one wrap between its two sides.                                         *)
(***************************************************************************)
EXTENDS Naturals

CONSTANT TickMod    \* the number of values of portTickType

ASSUME TickModAssumption == TickMod \in Nat /\ TickMod >= 3

portTickType == 0..TickMod-1
portMAX_DELAY == TickMod - 1

\* Mutant: the sum has more bits than portTickType.
PlusWide(x, y) == x + y

\* Unsigned addition and subtraction of two portTickType values.
Plus(x, y)  == IF x + y < TickMod THEN x + y ELSE x + y - TickMod
Minus(x, y) == IF x >= y THEN x - y ELSE x + TickMod - y

\* Mutant: the wrap of a wake time is ignored.
NeverOverflowed(wake, tick) == FALSE

\* A wake time that is "before" now lies behind the next wrap of the count.
WakeOverflowed(wake, tick) == wake < tick

\* Mutant: a plain comparison.
ShouldDelayPlain(previous, increment, tick) == Plus(previous, increment) > tick

\* vTaskDelayUntil: is the next period still ahead?
xShouldDelay(previous, increment, tick) ==
    LET wake == Plus(previous, increment)
    IN IF tick < previous
       THEN wake < previous /\ wake > tick
       ELSE wake < previous \/ wake > tick

\* Mutant: any wrap of the count is taken for a full round.
TimedOutAtWrap(overflows, tick, timeout, wait) ==
    /\ wait # portMAX_DELAY
    /\ \/ overflows # timeout.overflows
       \/ Minus(tick, timeout.entered) >= wait

\* xTaskCheckForTimeOut: entered and its overflow count were noted by
\* vTaskSetTimeOutState; portMAX_DELAY never times out.
TimedOut(overflows, tick, timeout, wait) ==
    /\ wait # portMAX_DELAY
    /\ \/ overflows # timeout.overflows /\ tick >= timeout.entered
       \/ Minus(tick, timeout.entered) >= wait

\* What is left of a wait that has not timed out.
TicksLeft(tick, timeout, wait) ==
    IF wait = portMAX_DELAY THEN wait ELSE wait - Minus(tick, timeout.entered)
=============================================================================
