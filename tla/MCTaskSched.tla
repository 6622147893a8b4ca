---------------------------- MODULE MCTaskSched ----------------------------
(* A task that controls the others, a worker with a period, and the idle   *)
(* task.  Between them they make every call of the API.                    *)
EXTENDS TaskSched

MCTasks == {"control", "worker", "idle"}
MCCreated == <<"control", "worker", "idle">>
MCPriority == [t \in MCTasks |-> CASE t = "control" -> 2 [] t = "worker" -> 1 [] t = "idle" -> 0]
MCOwnTask == {"vTaskSuspend", "vTaskPrioritySet", "vTaskDelete", "xTaskCreate"}
MCCalls == [t \in MCTasks |->
              CASE t = "control" -> MCOwnTask \cup {"vTaskDelay", "vTaskResume"}
                [] t = "worker" -> MCOwnTask \cup {"vTaskDelayUntil", "vTaskSuspendAll"}
                [] t = "idle" -> {}]

\* What the theorem about NeverEarly assumes.
ASSUME MCHypotheses == WithinRound
=============================================================================
