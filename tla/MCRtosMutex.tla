---------------------------- MODULE MCRtosMutex ----------------------------
(* Three tasks of different priorities share a mutex: the first waits for  *)
(* it with and without a limit, the second without, the third never.  In   *)
(* between they use the CPU or delay themselves.                           *)
EXTENDS RtosMutex

MCTasks == {"high", "mid", "low", "idle"}
MCCreated == <<"high", "mid", "low", "idle">>
MCPriority == [t \in MCTasks |-> CASE t = "high" -> 3 [] t = "mid" -> 2 [] t = "low" -> 1 [] t = "idle" -> 0]
MCCalls == [t \in MCTasks |-> IF t = "idle" THEN {} ELSE {"vTaskDelay"}]
MCOps == [t \in MCTasks |-> IF t = "idle" THEN {} ELSE {"send", "receive"}]
MCWaits == [t \in MCTasks |-> CASE t = "high" -> {2, 3} [] t = "mid" -> {3} [] t = "low" -> {0} [] t = "idle" -> {}]

\* What the theorems about the mutex assume.
ASSUME MCHypotheses == MutexAssumption /\ FewMissed /\ MildCalls
=============================================================================
