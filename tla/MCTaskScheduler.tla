--------------------------- MODULE MCTaskScheduler ---------------------------
(* Small instances of TaskScheduler. *)
EXTENDS TaskScheduler, FiniteSets

(* sum(costs), the default objective *)
SumObjective(c) ==
  LET total[k \in 0 .. NTasks] == IF k = 0 THEN 0 ELSE total[k - 1] + c[k - 1]
  IN  total[NTasks]

(* costs[0], the objective of test_auto_scheduler_task_scheduler.py *)
FirstTaskObjective(c) == c[0]

MCLatencies == {1, 3}
=============================================================================
