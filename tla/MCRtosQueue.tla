---------------------------- MODULE MCRtosQueue ----------------------------
(* Two tasks and the idle task on one queue: a receiver that may give up   *)
(* and a task that sends and receives, or two receivers and a third task   *)
(* that sets their priorities.                                             *)
EXTENDS RtosQueue

MCTasks == {"high", "low", "idle"}
MCCreated == <<"high", "low", "idle">>
MCPriority == [t \in MCTasks |-> CASE t = "high" -> 2 [] t = "low" -> 1 [] t = "idle" -> 0]
MCCalls == [t \in MCTasks |-> {}]
MCOps == [t \in MCTasks |->
            CASE t = "high" -> {"receive"} [] t = "low" -> {"send", "peek"} [] t = "idle" -> {}]
MCWaits == [t \in MCTasks |-> CASE t = "high" -> {2} [] t = "low" -> {0, 3} [] t = "idle" -> {}]

MCTasksControlled == MCTasks \cup {"control"}
MCWithControl == <<"control", "high", "low", "idle">>
MCControlPriority == [t \in MCTasksControlled |->
                CASE t = "high" -> 2 [] t = "low" -> 1 [] OTHER -> 0]
MCControlCalls == [t \in MCTasksControlled |-> IF t = "idle" THEN {} ELSE {"vTaskPrioritySet"}]
MCControlled == [t \in MCTasksControlled |-> IF t \in {"high", "low"} THEN {"receive"} ELSE {}]
MCForEver == [t \in MCTasksControlled |-> IF t = "idle" THEN {} ELSE {3}]

\* What the theorems about every queue assume; MCQueuePriority.cfg shows what a
\* task that sets priorities does to the order of an event list.
ASSUME MCHypotheses == FewMissed /\ NoCreation
=============================================================================
