------------------------- MODULE TaskSchedulerProofs -------------------------
(* Proofs about TaskScheduler, for every number of tasks, every budget and  *)
(* every objective.                                                         *)
EXTENDS TaskScheduler, TLAPS

(* What the share of a task amounts to: a whole number of trials, such that *)
(* one round for every task fits in the budget.                             *)
LEMMA PerRoundShare ==
  /\ PerRound \in Nat
  /\ NTasks * PerRound <= Trials
<1> DEFINE share == Trials \div NTasks
<1>1. share \in Nat /\ NTasks * share <= Trials
  BY SizesAssumption, Z3
<1>2. PerRound \in Nat /\ PerRound <= share
  BY <1>1, SizesAssumption DEF PerRound
<1>3. NTasks * PerRound <= NTasks * share
  BY <1>1, <1>2, SizesAssumption
<1> QED
  BY <1>1, <1>2, <1>3, SizesAssumption

(* A round of task i keeps the per-task state well typed, counts the round  *)
(* and its measurements, and retires i if there were none.                  *)
LEMMA TuneTaskEffect ==
  ASSUME TypeOK, NEW i \in Tasks, NEW n \in 0 .. PerRound, NEW latency \in Costs,
         TuneTask(i, n, latency)
  PROVE  /\ task_cts' \in [Tasks -> Nat]
         /\ task_best_cts' \in [Tasks -> Nat]
         /\ task_costs_history' \in [Tasks -> Seq(Costs)]
         /\ best_costs' \in [Tasks -> Costs]
         /\ dead_tasks' \in {dead_tasks, dead_tasks \cup {i}}
         /\ n = 0 => dead_tasks' = dead_tasks \cup {i}
         /\ task_cts' = [task_cts EXCEPT ![i] = task_cts[i] + 1]
         /\ ct' = ct + n /\ n \in Nat /\ n <= PerRound
         /\ ct' \in Nat /\ dead_tasks' \subseteq Tasks
<1>0. n \in Nat /\ n <= PerRound
  BY PerRoundShare
<1> USE DEF TypeOK
<1>1. task_cts' \in [Tasks -> Nat] /\ task_best_cts' \in [Tasks -> Nat]
  BY <1>0 DEF TuneTask
<1>2. best_costs' \in [Tasks -> Costs]
  BY DEF TuneTask
<1>3. /\ dead_tasks' \in {dead_tasks, dead_tasks \cup {i}}
      /\ n = 0 => dead_tasks' = dead_tasks \cup {i}
  BY DEF TuneTask, Retired
<1>4. task_costs_history' \in [Tasks -> Seq(Costs)]
  BY DEF TuneTask
<1>5. task_cts' = [task_cts EXCEPT ![i] = task_cts[i] + 1] /\ ct' = ct + n
  BY DEF TuneTask
<1> QED
  BY <1>0, <1>1, <1>2, <1>3, <1>4, <1>5

-----------------------------------------------------------------------------
(* Each action keeps the type invariant; the rounding needs PerRound >= 1.  *)
LEMMA TypeStep == TypeOK /\ RoundsPossible /\ [Next]_vars => TypeOK'
<1> SUFFICES ASSUME TypeOK, RoundsPossible, [Next]_vars PROVE TypeOK'
  OBVIOUS
<1> USE DEF counters
<1>1. CASE Start
  BY <1>1 DEF Start, TypeOK
<1>2. ASSUME NEW i \in Tasks, NEW cost \in Costs, RestoreRecord(i, cost)
      PROVE  TypeOK'
  <2>1. task_cts' \in [Tasks -> Nat] /\ task_cts'[i] \in Nat
    BY <1>2 DEF RestoreRecord, TypeOK
  <2>2. best_costs' \in [Tasks -> Costs] /\ task_best_cts' \in [Tasks -> Nat]
    BY <1>2, <2>1 DEF RestoreRecord, TypeOK
  <2> QED
    BY <1>2, <2>1, <2>2 DEF RestoreRecord, TypeOK
<1>3. CASE FinishRestore
  <2>1. PerRound > 0
    BY <1>3, PerRoundShare DEF FinishRestore, RoundsPossible
  <2>2. \A r \in Nat : ToRounds(r) \in Nat
    BY <2>1, PerRoundShare DEF ToRounds
  <2>3. task_costs_history' \in [Tasks -> Seq(Costs)]
    BY <1>3 DEF FinishRestore, TypeOK
  <2> QED
    BY <1>3, <2>2, <2>3 DEF FinishRestore, TypeOK
<1>4. ASSUME NEW n \in 0 .. PerRound, NEW latency \in Costs, WarmUpTune(n, latency)
      PROVE  TypeOK'
  <2>1. warm \in Tasks /\ TuneTask(warm, n, latency)
    BY <1>4, SizesAssumption DEF WarmUpTune, TypeOK, Tasks
  <2>2. /\ task_cts' \in [Tasks -> Nat] /\ task_best_cts' \in [Tasks -> Nat]
        /\ task_costs_history' \in [Tasks -> Seq(Costs)]
        /\ best_costs' \in [Tasks -> Costs]
        /\ ct' \in Nat /\ dead_tasks' \subseteq Tasks
    BY <2>1, TuneTaskEffect
  <2>3. /\ warm' \in 0 .. NTasks /\ pc' = pc /\ task_idx' = task_idx
        /\ best_ct' = best_ct /\ best_score' = best_score /\ load_log' = load_log
    BY <1>4, SizesAssumption DEF WarmUpTune, TypeOK
  <2> QED
    BY <2>2, <2>3 DEF TypeOK
<1>5. CASE WarmUpSkip
  BY <1>5, SizesAssumption DEF WarmUpSkip, TypeOK
<1>6. CASE FinishWarmUp
  BY <1>6, ObjectiveAssumption DEF FinishWarmUp, TypeOK, CurScore
<1>7. ASSUME NEW i \in Tasks, NEW n \in 0 .. PerRound, NEW latency \in Costs,
             Round(i, n, latency)
      PROVE  TypeOK'
  <2>1. /\ task_cts' \in [Tasks -> Nat] /\ task_best_cts' \in [Tasks -> Nat]
        /\ task_costs_history' \in [Tasks -> Seq(Costs)]
        /\ best_costs' \in [Tasks -> Costs]
        /\ ct' \in Nat /\ dead_tasks' \subseteq Tasks
    BY <1>7, TuneTaskEffect DEF Round
  <2>2. CurScore' \in Nat
    BY <2>1, ObjectiveAssumption DEF CurScore
  <2>3. pc' \in {"loop", "done"} /\ best_ct' \in Nat /\ best_score' \in Nat
    BY <1>7, <2>1, <2>2 DEF Round, Judge, TypeOK
  <2> QED
    BY <1>7, <2>1, <2>3 DEF Round, TypeOK
<1>8. CASE Finish
  BY <1>8 DEF Finish, TypeOK
<1>9. CASE UNCHANGED vars
  BY <1>9 DEF vars, TypeOK
<1> QED
  BY <1>1, <1>2, <1>3, <1>4, <1>5, <1>6, <1>7, <1>8, <1>9 DEF Next

(* The warm-up spends at most one round per task it has passed; the loop is *)
(* entered with budget left and overshoots by less than one round.          *)
LEMMA SpentStep == IInv /\ [Next]_vars => Spent'
<1> SUFFICES ASSUME IInv, [Next]_vars PROVE Spent'
  OBVIOUS
<1> USE PerRoundShare, SizesAssumption DEF IInv, counters
<1>1. CASE Start
  BY <1>1 DEF Start, Spent
<1>2. ASSUME NEW i \in Tasks, NEW cost \in Costs, RestoreRecord(i, cost)
      PROVE  Spent'
  BY <1>2 DEF RestoreRecord, Spent
<1>3. CASE FinishRestore
  BY <1>3 DEF FinishRestore, Spent
<1>4. ASSUME NEW n \in 0 .. PerRound, NEW latency \in Costs, WarmUpTune(n, latency)
      PROVE  Spent'
  <2>1. warm \in Tasks /\ warm \in Nat /\ ct \in Nat /\ warm' = warm + 1 /\ pc' = pc
    BY <1>4 DEF WarmUpTune, TypeOK, Tasks
  <2>2. ct' = ct + n /\ n \in Nat /\ n <= PerRound
    BY <1>4, <2>1, TuneTaskEffect DEF WarmUpTune
  <2>3. (warm + 1) * PerRound = warm * PerRound + PerRound
    BY <2>1
  <2>4. warm * PerRound \in Nat
    BY <2>1
  <2>5. ct <= warm * PerRound /\ pc = "warmup"
    BY <1>4 DEF WarmUpTune, Spent
  <2> QED
    BY <2>1, <2>2, <2>3, <2>4, <2>5 DEF Spent
<1>5. CASE WarmUpSkip
  <2>1. warm \in Nat /\ ct \in Nat /\ warm' = warm + 1 /\ ct' = ct /\ pc = "warmup" /\ pc' = pc
    BY <1>5 DEF WarmUpSkip, TypeOK
  <2>2. (warm + 1) * PerRound = warm * PerRound + PerRound /\ warm * PerRound \in Nat
    BY <2>1
  <2> QED
    BY <2>1, <2>2 DEF Spent
<1>6. CASE FinishWarmUp
  <2>1. ct <= NTasks * PerRound /\ ct' = ct /\ pc' = "loop" /\ ct \in Nat
    BY <1>6 DEF FinishWarmUp, Spent, TypeOK
  <2>2. NTasks * PerRound \in Nat
    OBVIOUS
  <2>3. PerRound >= 1
    BY <1>6 DEF FinishWarmUp, RoundsPossible
  <2> QED
    BY <2>1, <2>2, <2>3 DEF Spent
<1>7. ASSUME NEW i \in Tasks, NEW n \in 0 .. PerRound, NEW latency \in Costs,
             Round(i, n, latency)
      PROVE  Spent'
  <2>1. pc' \in {"loop", "done"} /\ ct < Trials /\ ct \in Nat
    BY <1>7 DEF Round, Judge, MayContinue, TypeOK
  <2>2. ct' = ct + n /\ n \in Nat /\ n <= PerRound
    BY <1>7, TuneTaskEffect DEF Round
  <2> QED
    BY <2>1, <2>2 DEF Spent
<1>8. CASE Finish
  BY <1>8 DEF Finish, Spent
<1>9. CASE UNCHANGED vars
  BY <1>9 DEF vars, Spent
<1> QED
  BY <1>1, <1>2, <1>3, <1>4, <1>5, <1>6, <1>7, <1>8, <1>9 DEF Next

(* No task is passed by the warm-up without a round.                        *)
LEMMA WarmedUpStep == IInv /\ [Next]_vars => WarmedUp'
<1> SUFFICES ASSUME IInv, [Next]_vars PROVE WarmedUp'
  OBVIOUS
<1> USE SizesAssumption DEF IInv, counters, Tasks
<1>1. CASE Start
  BY <1>1 DEF Start, WarmedUp, TypeOK
<1>2. ASSUME NEW i \in Tasks, NEW cost \in Costs, RestoreRecord(i, cost)
      PROVE  WarmedUp'
  BY <1>2 DEF RestoreRecord, WarmedUp, TypeOK, Spent
<1>3. CASE FinishRestore
  BY <1>3 DEF FinishRestore, WarmedUp, TypeOK, Spent
<1>4. ASSUME NEW n \in 0 .. PerRound, NEW latency \in Costs, WarmUpTune(n, latency)
      PROVE  WarmedUp'
  <2>1. warm \in Tasks
    BY <1>4 DEF WarmUpTune, TypeOK
  <2>2. task_cts' = [task_cts EXCEPT ![warm] = task_cts[warm] + 1]
    BY <1>4, <2>1, TuneTaskEffect DEF WarmUpTune
  <2> QED
    BY <1>4, <2>1, <2>2 DEF WarmUpTune, WarmedUp, TypeOK
<1>5. CASE WarmUpSkip
  <2>1. task_cts[warm] \in Nat /\ task_cts[warm] # 0 /\ warm \in Nat /\ task_cts' = task_cts
    BY <1>5 DEF WarmUpSkip, TypeOK
  <2> QED
    BY <1>5, <2>1 DEF WarmUpSkip, WarmedUp, TypeOK
<1>6. CASE FinishWarmUp
  BY <1>6 DEF FinishWarmUp, WarmedUp, TypeOK
<1>7. ASSUME NEW i \in Tasks, NEW n \in 0 .. PerRound, NEW latency \in Costs,
             Round(i, n, latency)
      PROVE  WarmedUp'
  <2>1. task_cts' = [task_cts EXCEPT ![i] = task_cts[i] + 1]
    BY <1>7, TuneTaskEffect DEF Round
  <2>2. pc = "loop" /\ warm' = warm
    BY <1>7 DEF Round
  <2> QED
    BY <2>1, <2>2 DEF WarmedUp, TypeOK
<1>8. CASE Finish
  BY <1>8 DEF Finish, WarmedUp
<1>9. CASE UNCHANGED vars
  BY <1>9 DEF vars, WarmedUp
<1> QED
  BY <1>1, <1>2, <1>3, <1>4, <1>5, <1>6, <1>7, <1>8, <1>9 DEF Next

(* Whether there is a log to restore from is decided when tune() is called; *)
(* without one, nothing but a round of task i touches what is kept of i.    *)
LEMMA OnlyRoundsTouch ==
  ASSUME IInv, [Next]_vars
  PROVE  /\ load_log' = load_log
         /\ Fresh => \/ UNCHANGED counters
                     \/ \E i \in Tasks, n \in 0 .. PerRound, latency \in Costs :
                          TuneTask(i, n, latency)
<1> USE DEF counters
<1>1. load_log' = load_log
  BY DEF Next, vars, Start, RestoreRecord, FinishRestore, WarmUpTune, WarmUpSkip,
         FinishWarmUp, Round, Finish
<1> SUFFICES ASSUME Fresh
             PROVE  \/ UNCHANGED counters
                    \/ \E i \in Tasks, n \in 0 .. PerRound, latency \in Costs :
                         TuneTask(i, n, latency)
  BY <1>1
<1>2. CASE FinishRestore \/ \E i \in Tasks, cost \in Costs : RestoreRecord(i, cost)
  BY <1>2 DEF IInv, Untouched, FinishRestore, RestoreRecord
<1>3. ASSUME NEW n \in 0 .. PerRound, NEW latency \in Costs, WarmUpTune(n, latency)
      PROVE  \E i \in Tasks : TuneTask(i, n, latency)
  <2>1. warm \in Tasks
    BY <1>3, SizesAssumption DEF WarmUpTune, IInv, TypeOK, Tasks
  <2> QED
    BY <1>3, <2>1 DEF WarmUpTune
<1>4. CASE Start \/ WarmUpSkip \/ FinishWarmUp \/ Finish \/ UNCHANGED vars
  BY <1>4 DEF Start, WarmUpSkip, FinishWarmUp, Finish, vars
<1> QED
  BY <1>2, <1>3, <1>4 DEF Next, Round

(* Without a log the warm-up is the first to touch every task.              *)
LEMMA UntouchedStep == IInv /\ [Next]_vars => Untouched'
<1> SUFFICES ASSUME IInv, [Next]_vars, Fresh, Fresh' PROVE Untouched'
  BY OnlyRoundsTouch DEF Untouched, Fresh
<1> USE SizesAssumption DEF IInv, counters, Tasks, Fresh
<1>1. CASE Start
  BY <1>1 DEF Start, Untouched
<1>2. ASSUME NEW i \in Tasks, NEW cost \in Costs, RestoreRecord(i, cost)
      PROVE  Untouched'
  BY <1>2 DEF RestoreRecord, Untouched
<1>3. CASE FinishRestore
  BY <1>3 DEF FinishRestore, Untouched
<1>4. ASSUME NEW n \in 0 .. PerRound, NEW latency \in Costs, WarmUpTune(n, latency)
      PROVE  Untouched'
  <2>1. warm \in Tasks
    BY <1>4 DEF WarmUpTune, TypeOK
  <2>2. /\ task_cts' = [task_cts EXCEPT ![warm] = task_cts[warm] + 1]
        /\ dead_tasks' \subseteq dead_tasks \cup {warm}
    BY <1>4, <2>1, TuneTaskEffect DEF WarmUpTune
  <2> QED
    BY <1>4, <2>1, <2>2 DEF WarmUpTune, Untouched, TypeOK
<1>5. CASE WarmUpSkip
  BY <1>5 DEF WarmUpSkip, Untouched, TypeOK
<1>6. CASE FinishWarmUp
  BY <1>6 DEF FinishWarmUp, Untouched
<1>7. ASSUME NEW i \in Tasks, NEW n \in 0 .. PerRound, NEW latency \in Costs,
             Round(i, n, latency)
      PROVE  Untouched'
  BY <1>7 DEF Round, Judge, Untouched
<1>8. CASE Finish
  BY <1>8 DEF Finish, Untouched
<1>9. CASE UNCHANGED vars
  BY <1>9 DEF vars, Untouched
<1> QED
  BY <1>1, <1>2, <1>3, <1>4, <1>5, <1>6, <1>7, <1>8, <1>9 DEF Next

LEMMA InitIInv == Init => IInv
<1> SUFFICES ASSUME Init PROVE IInv
  OBVIOUS
<1>1. [i \in Tasks |-> Failed] \in [Tasks -> Costs]
  BY DEF Costs
<1>2. best_score \in Nat
  BY <1>1, ObjectiveAssumption DEF Init
<1>3. task_costs_history \in [Tasks -> Seq(Costs)]
  BY DEF Init
<1>4. TypeOK
  BY <1>1, <1>2, <1>3, SizesAssumption DEF Init, TypeOK
<1>5. RoundsPossible /\ Spent
  BY DEF Init, RoundsPossible, Spent
<1>6. WarmedUp /\ Untouched
  BY SizesAssumption DEF Init, WarmedUp, Untouched, Tasks
<1> QED
  BY <1>4, <1>5, <1>6 DEF IInv

THEOREM Invariance == Spec => []IInv
<1>1. IInv /\ [Next]_vars => RoundsPossible'
  <2> SUFFICES ASSUME IInv, [Next]_vars PROVE RoundsPossible'
    OBVIOUS
  <2>1. PerRound' = PerRound
    BY DEF PerRound
  <2>2. CASE Start
    BY <2>1, <2>2, PerRoundShare DEF Start, RoundsPossible
  <2>3. CASE pc \in {"start", "rejected"} /\ ~ Start
    BY <2>3, <2>1 DEF IInv, RoundsPossible, Next, RestoreRecord, FinishRestore,
       WarmUpTune, WarmUpSkip, FinishWarmUp, Round, Finish, vars
  <2>4. CASE pc \notin {"start", "rejected"}
    BY <2>4, <2>1 DEF IInv, RoundsPossible
  <2> QED
    BY <2>2, <2>3, <2>4
<1>2. IInv /\ [Next]_vars => IInv'
  BY TypeStep, SpentStep, WarmedUpStep, UntouchedStep, <1>1 DEF IInv
<1> QED
  BY InitIInv, <1>2, PTL DEF Spec

-----------------------------------------------------------------------------
(* The state of the scheduler is always well typed; in particular          *)
(* dead_tasks holds only task ids and best_ct, best_score are defined.     *)
THEOREM TypeCorrect == Spec => []TypeOK
<1>1. IInv => TypeOK
  BY DEF IInv
<1> QED
  BY Invariance, <1>1, PTL

(* tune() overshoots num_measure_trials by less than one round.            *)
THEOREM BudgetIsKept == Spec => []BudgetKept
<1>1. IInv => BudgetKept
  <2> SUFFICES ASSUME IInv, pc # "start", PerRound # 0 PROVE ct < Trials + PerRound
    BY DEF BudgetKept
  <2> USE PerRoundShare, SizesAssumption
  <2>1. ct \in Nat /\ warm \in Nat /\ warm <= NTasks
    BY DEF IInv, TypeOK
  <2>2. CASE pc \in {"rejected", "restore"}
    BY <2>2 DEF IInv, Spent
  <2>3. CASE pc = "warmup"
    <3>1. warm * PerRound <= NTasks * PerRound
      BY <2>1
    <3>2. ct <= warm * PerRound
      BY <2>3 DEF IInv, Spent
    <3>3. warm * PerRound \in Nat /\ NTasks * PerRound \in Nat
      BY <2>1
    <3> QED
      BY <2>1, <3>1, <3>2, <3>3
  <2>4. CASE pc \in {"loop", "done"}
    BY <2>4 DEF IInv, Spent
  <2> QED
    BY <2>2, <2>3, <2>4 DEF IInv, TypeOK
<1> QED
  BY Invariance, <1>1, PTL

(* After the warm-up every task has been tuned, so that the gradient never *)
(* divides by zero.                                                        *)
THEOREM EveryTaskIsTuned == Spec => []EveryTaskTuned
<1>1. IInv => EveryTaskTuned
  BY SizesAssumption DEF IInv, WarmedUp, EveryTaskTuned, Tasks
<1> QED
  BY Invariance, <1>1, PTL

-----------------------------------------------------------------------------
(* The loop does not go on once EarlyAll trials in a row brought nothing.   *)
THEOREM WastedTrialsStayBounded == Spec => []WastedTrialsBounded
<1>1. Init => WastedTrialsBounded
  BY DEF Init, WastedTrialsBounded
<1>2. TypeOK /\ WastedTrialsBounded /\ [Next]_vars => WastedTrialsBounded'
  <2> SUFFICES ASSUME TypeOK, WastedTrialsBounded, [Next]_vars, pc' = "loop", AllValid'
               PROVE  ct' - best_ct' < EarlyAll
    BY DEF WastedTrialsBounded
  <2> USE SizesAssumption DEF TypeOK, counters
  <2>1. CASE FinishWarmUp
    BY <2>1 DEF FinishWarmUp
  <2>2. ASSUME NEW i \in Tasks, NEW n \in 0 .. PerRound, NEW latency \in Costs,
               Round(i, n, latency)
        PROVE  ct' - best_ct' < EarlyAll
    <3>1. ct' \in Nat /\ best_ct \in Nat /\ best_ct' \in Nat
      BY <2>2, TuneTaskEffect, PerRoundShare DEF Round, Judge
    <3>2. \/ best_ct' = ct'
          \/ best_ct' = best_ct /\ pc' = IF StopEarly THEN "done" ELSE pc
      BY <2>2 DEF Round, Judge
    <3>3. \A a, b \in Nat : a = b \/ ~ (a - b >= EarlyAll) => a - b < EarlyAll
      OBVIOUS
    <3>4. CASE best_ct' = ct'
      BY <3>1, <3>3, <3>4
    <3>5. CASE best_ct' = best_ct /\ ~ StopEarly
      <4>1. ~ (ct' - best_ct' >= EarlyAll)
        BY <3>5 DEF StopEarly, AllValid, Tasks
      <4> QED
        BY <3>1, <3>3, <4>1
    <3> QED
      BY <3>2, <3>4, <3>5
  <2>3. CASE UNCHANGED vars
    BY <2>3 DEF vars, WastedTrialsBounded, AllValid, Tasks
  <2> QED
    BY <2>1, <2>2, <2>3 DEF Next, Start, RestoreRecord, FinishRestore, WarmUpTune,
       WarmUpSkip, Finish
<1> QED
  BY TypeCorrect, <1>1, <1>2, PTL DEF Spec

(* Without a log, a task that stays alive has improved within its patience. *)
THEOREM AliveTasksKeepImproving == Spec => []AliveTasksImprove
<1>1. Init => AliveTasksImprove
  BY PerRoundShare, SizesAssumption DEF Init, AliveTasksImprove
<1>2. IInv /\ AliveTasksImprove /\ [Next]_vars => AliveTasksImprove'
  <2> SUFFICES ASSUME IInv, AliveTasksImprove, [Next]_vars, Fresh,
                      NEW j \in Tasks, j \notin dead_tasks'
               PROVE  (task_cts'[j] - task_best_cts'[j]) * PerRound <= EarlyTask
    BY OnlyRoundsTouch DEF AliveTasksImprove, Fresh, Tasks, PerRound
  <2>1. ASSUME NEW i \in Tasks, NEW n \in 0 .. PerRound, NEW latency \in Costs,
               TuneTask(i, n, latency)
        PROVE  (task_cts'[j] - task_best_cts'[j]) * PerRound <= EarlyTask
    <3> DEFINE wasted == (task_cts'[i] - task_best_cts'[i]) * PerRound
    <3>1. dead_tasks' = dead_tasks \cup Retired(i, n, wasted)
      BY <2>1 DEF TuneTask, IInv, TypeOK
    <3>2. CASE j = i
      <4>1. ~ (wasted > EarlyTask)
        BY <3>1, <3>2 DEF Retired
      <4>2. task_cts'[i] \in Nat /\ task_best_cts'[i] \in Nat
        BY <2>1, TuneTaskEffect DEF IInv
      <4>3. wasted \in Int
        BY <4>2, PerRoundShare
      <4> QED
        BY <3>2, <4>1, <4>3, SizesAssumption
    <3>3. CASE j # i
      <4>1. task_cts'[j] = task_cts[j] /\ task_best_cts'[j] = task_best_cts[j]
        BY <2>1, <3>3 DEF TuneTask, IInv, TypeOK
      <4> QED
        BY <3>1, <4>1 DEF AliveTasksImprove
    <3> QED
      BY <3>2, <3>3
  <2>2. CASE UNCHANGED counters
    BY <2>2 DEF counters, AliveTasksImprove
  <2> QED
    BY <2>1, <2>2, OnlyRoundsTouch
<1> QED
  BY Invariance, <1>1, <1>2, PTL DEF Spec

(* Without a log the history of a task has one entry per round, the newest  *)
(* of them its cost.                                                        *)
HistoryKept ==
  Fresh => \A i \in Tasks : /\ Len(task_costs_history[i]) = task_cts[i]
                            /\ task_cts[i] > 0 =>
                                 task_costs_history[i][task_cts[i]] = best_costs[i]

(* Without a log the backward gradient starts from the current cost.        *)
THEOREM BackwardAlwaysReadsLatest == Spec => []BackwardReadsLatest
<1>1. Init => HistoryKept
  BY DEF Init, HistoryKept
<1>2. IInv /\ HistoryKept /\ [Next]_vars => HistoryKept'
  <2> SUFFICES ASSUME IInv, HistoryKept, [Next]_vars, Fresh, NEW j \in Tasks
               PROVE  /\ Len(task_costs_history'[j]) = task_cts'[j]
                      /\ task_cts'[j] > 0 =>
                           task_costs_history'[j][task_cts'[j]] = best_costs'[j]
    BY OnlyRoundsTouch DEF HistoryKept, Fresh, Tasks
  <2>1. ASSUME NEW i \in Tasks, NEW n \in 0 .. PerRound, NEW latency \in Costs,
               TuneTask(i, n, latency)
        PROVE  /\ Len(task_costs_history'[j]) = task_cts'[j]
               /\ task_cts'[j] > 0 =>
                    task_costs_history'[j][task_cts'[j]] = best_costs'[j]
    <3>1. /\ task_costs_history[j] \in Seq(Costs) /\ task_cts[j] \in Nat
          /\ Len(task_costs_history[j]) = task_cts[j]
      BY DEF IInv, TypeOK, HistoryKept
    <3>2. CASE j = i
      <4>1. PICK c : c = IF latency < best_costs[i] THEN latency ELSE best_costs[i]
        OBVIOUS
      <4>2. c \in Costs
        BY <4>1 DEF IInv, TypeOK
      <4>3. /\ task_costs_history'[j] = Append(task_costs_history[j], c)
            /\ best_costs'[j] = c /\ task_cts'[j] = task_cts[j] + 1
        BY <2>1, <3>2, <4>1 DEF TuneTask, IInv, TypeOK
      <4> QED
        BY <3>1, <4>2, <4>3
    <3>3. CASE j # i
      <4>1. /\ task_costs_history'[j] = task_costs_history[j]
            /\ best_costs'[j] = best_costs[j] /\ task_cts'[j] = task_cts[j]
        BY <2>1, <3>3 DEF TuneTask, IInv, TypeOK
      <4> QED
        BY <4>1 DEF HistoryKept
    <3> QED
      BY <3>2, <3>3
  <2>2. CASE UNCHANGED counters
    BY <2>2 DEF counters, HistoryKept
  <2> QED
    BY <2>1, <2>2, OnlyRoundsTouch
<1>3. IInv /\ HistoryKept => BackwardReadsLatest
  <2> SUFFICES ASSUME IInv, HistoryKept, Fresh, NEW i \in Tasks, HasBackward(i)
               PROVE  task_costs_history[i][task_cts[i]] = best_costs[i]
    BY DEF BackwardReadsLatest
  <2>1. task_cts[i] > 0
    BY SizesAssumption DEF HasBackward, IInv, TypeOK
  <2> QED
    BY <2>1 DEF HistoryKept
<1> QED
  BY Invariance, <1>1, <1>2, <1>3, PTL DEF Spec

(* The cost of a task never rises, and its history says so.                 *)
HistoriesFall ==
  \A i \in Tasks : \A b \in DOMAIN task_costs_history[i] :
    /\ best_costs[i] <= task_costs_history[i][b]
    /\ \A a \in 1 .. b : task_costs_history[i][b] <= task_costs_history[i][a]

(* With an objective that does not fall when a cost rises, as a sum of      *)
(* costs, the scheduler's `assert grad <= 0` never fires, restored or not.  *)
ObjectiveMonotone ==
  \A c, d \in [Tasks -> Int] :
    (\A i \in Tasks : c[i] <= d[i]) =>
      /\ ObjectiveFunc(c) \in Int /\ ObjectiveFunc(d) \in Int
      /\ ObjectiveFunc(c) <= ObjectiveFunc(d)

THEOREM GradientsStayNonPositive ==
  ASSUME ObjectiveMonotone
  PROVE  Spec => []GradientsNonPositive
<1>1. Init => HistoriesFall
  BY DEF Init, HistoriesFall
<1>2. TypeOK /\ HistoriesFall /\ [Next]_vars => HistoriesFall'
  <2> SUFFICES ASSUME TypeOK, HistoriesFall, [Next]_vars, NEW j \in Tasks,
                      NEW b \in DOMAIN task_costs_history'[j]
               PROVE  /\ best_costs'[j] <= task_costs_history'[j][b]
                      /\ \A a \in 1 .. b : task_costs_history'[j][b] <= task_costs_history'[j][a]
    BY DEF HistoriesFall, Tasks
  <2> USE DEF counters
  <2>1. PICK h, old : h = task_costs_history[j] /\ old = best_costs[j]
    OBVIOUS
  <2>2. PICK h2, new : h2 = task_costs_history'[j] /\ new = best_costs'[j]
    OBVIOUS
  <2>3. h \in Seq(Costs) /\ old \in Costs /\ Costs \subseteq Nat
    BY <2>1, CostsAssumption DEF TypeOK, Costs
  <2>4. new \in Costs /\ new <= old /\ (h2 = h \/ h2 = Append(h, new))
    <3> USE <2>1, <2>2, <2>3
    <3>1. ASSUME NEW i \in Tasks, NEW n \in 0 .. PerRound, NEW latency \in Costs,
                 TuneTask(i, n, latency)
          PROVE  new \in Costs /\ new <= old /\ (h2 = h \/ h2 = Append(h, new))
      <4>1. CASE j = i
        <5>1. new = IF latency < old THEN latency ELSE old
          BY <3>1, <4>1 DEF TuneTask, TypeOK
        <5>2. h2 = Append(h, new)
          BY <3>1, <4>1, <5>1 DEF TuneTask, TypeOK
        <5> QED
          BY <5>1, <5>2
      <4>2. CASE j # i
        BY <3>1, <4>2 DEF TuneTask, TypeOK
      <4> QED
        BY <4>1, <4>2
    <3>2. ASSUME NEW i \in Tasks, NEW cost \in Costs, RestoreRecord(i, cost)
          PROVE  new \in Costs /\ new <= old /\ h2 = h
      <4>1. new = old \/ (new = cost /\ cost < old)
        BY <3>2 DEF RestoreRecord, TypeOK
      <4> QED
        BY <3>2, <4>1 DEF RestoreRecord
    <3>3. CASE FinishRestore
      BY <3>3 DEF FinishRestore, TypeOK
    <3>4. ASSUME NEW n \in 0 .. PerRound, NEW latency \in Costs, WarmUpTune(n, latency)
          PROVE  \E i \in Tasks : TuneTask(i, n, latency)
      <4>1. warm \in Tasks
        BY <3>4, SizesAssumption DEF WarmUpTune, TypeOK, Tasks
      <4> QED
        BY <3>4, <4>1 DEF WarmUpTune
    <3>5. CASE Start \/ WarmUpSkip \/ FinishWarmUp \/ Finish \/ UNCHANGED vars
      BY <3>5 DEF Start, WarmUpSkip, FinishWarmUp, Finish, vars
    <3> QED
      BY <3>1, <3>2, <3>3, <3>4, <3>5 DEF Next, Round
  <2>5. \A x \in 1 .. Len(h) : /\ h[x] \in Nat /\ old <= h[x]
                               /\ \A a \in 1 .. x : h[x] <= h[a]
    <3>1. DOMAIN h = 1 .. Len(h) /\ \A x \in 1 .. Len(h) : h[x] \in Costs
      BY <2>3
    <3>2. \A x \in DOMAIN h : old <= h[x] /\ \A a \in 1 .. x : h[x] <= h[a]
      BY <2>1 DEF HistoriesFall
    <3> QED
      BY <2>3, <3>1, <3>2
  <2>6. b \in 1 .. Len(h2) /\ new \in Nat /\ old \in Nat
    BY <2>1, <2>2, <2>3, <2>4
  <2>7. CASE h2 = h
    BY <2>2, <2>4, <2>5, <2>6, <2>7
  <2>8. CASE h2 = Append(h, new)
    <3>1. /\ Len(h2) = Len(h) + 1 /\ Len(h) \in Nat /\ h2[Len(h) + 1] = new
          /\ \A x \in 1 .. Len(h) : h2[x] = h[x]
      BY <2>3, <2>4, <2>8
    <3>2. CASE b \in 1 .. Len(h)
      <4>1. h2[b] = h[b] /\ \A a \in 1 .. b : a \in 1 .. Len(h) /\ h2[a] = h[a]
        BY <3>1, <3>2
      <4>2. h[b] \in Nat /\ old <= h[b] /\ \A a \in 1 .. b : h[b] <= h[a]
        BY <2>5, <3>2
      <4>3. new <= h[b]
        BY <2>4, <2>6, <4>2
      <4> QED
        BY <2>2, <4>1, <4>2, <4>3
    <3>3. CASE b = Len(h) + 1
      <4>1. \A a \in 1 .. b : a = b \/ a \in 1 .. Len(h)
        BY <3>1, <3>3
      <4>2. \A a \in 1 .. b : new <= h2[a]
        BY <2>4, <2>5, <2>6, <3>1, <3>3, <4>1
      <4> QED
        BY <2>2, <2>6, <3>1, <3>3, <4>2
    <3> QED
      BY <2>6, <3>1, <3>2, <3>3
  <2> QED
    BY <2>4, <2>7, <2>8
<1>3. TypeOK /\ HistoriesFall => GradientsNonPositive
  <2> SUFFICES ASSUME TypeOK, HistoriesFall, NEW i \in Tasks \ dead_tasks
               PROVE  Gradient(i).num <= 0
    BY DEF GradientsNonPositive
  <2>1. Costs \subseteq Nat
    BY CostsAssumption DEF Costs
  <2>2. task_cts[i] \in Nat /\ best_costs[i] \in Nat /\ best_costs \in [Tasks -> Int]
    <3>1. \A j \in Tasks : best_costs[j] \in Nat
      BY <2>1 DEF TypeOK
    <3> QED
      BY <3>1 DEF TypeOK
  <2>3. ChainGrad(i) \in Int /\ ChainGrad(i) >= 0
    <3> DEFINE c == [best_costs EXCEPT ![i] = @ - 1]
    <3>1. c \in [Tasks -> Int] /\ \A j \in Tasks : c[j] <= best_costs[j]
      BY <2>2
    <3> HIDE DEF c
    <3>2. /\ ObjectiveFunc(c) \in Int /\ ObjectiveFunc(best_costs) \in Int
          /\ ObjectiveFunc(c) <= ObjectiveFunc(best_costs)
      BY <2>2, <3>1 DEF ObjectiveMonotone
    <3>3. ChainGrad(i) = ObjectiveFunc(best_costs) - ObjectiveFunc(c)
      BY DEF ChainGrad, CurScore, c
    <3> QED
      BY <3>2, <3>3
  <2>4. BackwardDiff(i) \in Int /\ BackwardDiff(i) <= 0
    <3>1. CASE HasBackward(i)
      <4> DEFINE h == task_costs_history[i]
                 x == task_cts[i]
      <4>1. h \in Seq(Costs) /\ x \in Nat
        BY <2>2 DEF TypeOK
      <4>2. x \in 1 .. Len(h) /\ x - Window \in 1 .. x
        BY <3>1, <4>1, SizesAssumption DEF HasBackward
      <4>3. h[x] <= h[x - Window]
        BY <4>1, <4>2 DEF HistoriesFall
      <4>4. h[x] \in Nat /\ h[x - Window] \in Nat
        <5>1. \A y \in 1 .. Len(h) : h[y] \in Costs
          BY <4>1
        <5>2. x - Window \in 1 .. Len(h)
          BY <4>1, <4>2, SizesAssumption
        <5> QED
          BY <2>1, <4>2, <5>1, <5>2
      <4>5. BackwardDiff(i) = h[x] - h[x - Window]
        BY <3>1 DEF BackwardDiff
      <4> QED
        BY <4>3, <4>4, <4>5
    <3>2. CASE ~ HasBackward(i)
      BY <3>2 DEF BackwardDiff
    <3> QED
      BY <3>1, <3>2
  <2>5. \A x, y \in Nat, z \in Int : x * y \in Nat /\ (z <= 0 => x * z \in Int /\ x * z <= 0)
    OBVIOUS
  <2> QED
    <3> DEFINE back == AlphaNum * BackwardDiff(i)
               forth == (AlphaDen - AlphaNum) * best_costs[i]
    <3>1. back \in Int /\ back <= 0
      BY <2>4, <2>5, SizesAssumption
    <3>2. AlphaDen - AlphaNum \in Nat /\ Window \in Nat
      BY SizesAssumption
    <3>3. forth \in Nat /\ forth * Window \in Nat
      BY <2>2, <2>5, <3>2
    <3>4. back * task_cts[i] \in Int /\ back * task_cts[i] <= 0
      <4>1. task_cts[i] * back <= 0 /\ task_cts[i] * back \in Int
        BY <2>2, <2>5, <3>1
      <4>2. \A x \in Int, y \in Nat : x * y = y * x
        OBVIOUS
      <4> QED
        BY <2>2, <3>1, <4>1, <4>2
    <3>5. Gradient(i).num = ChainGrad(i) * (back * task_cts[i] - forth * Window)
      BY DEF Gradient
    <3> HIDE DEF back, forth
    <3>6. PICK d : d = back * task_cts[i] - forth * Window
      OBVIOUS
    <3>7. d \in Int /\ d <= 0
      BY <3>3, <3>4, <3>6
    <3> QED
      BY <2>3, <2>5, <3>5, <3>6, <3>7
<1> QED
  BY TypeCorrect, <1>1, <1>2, <1>3, PTL DEF Spec

-----------------------------------------------------------------------------
(* Under round robin the loop only tunes tasks that are alive. *)
LEMMA RoundRobinTunesAlive ==
  ASSUME Strategy = "round-robin", TypeOK, [Next]_vars, pc = "loop", NEW i \in dead_tasks
  PROVE  task_cts'[i] = task_cts[i]
<1> USE DEF counters
<1>1. ASSUME NEW j \in Tasks, NEW n \in 0 .. PerRound, NEW latency \in Costs,
             Round(j, n, latency)
      PROVE  task_cts'[i] = task_cts[i]
  <2>1. j # i
    BY <1>1 DEF Round, NextTask, RoundRobinChoice
  <2>2. task_cts' = [task_cts EXCEPT ![j] = task_cts[j] + 1]
    BY <1>1, TuneTaskEffect DEF Round
  <2> QED
    BY <2>1, <2>2 DEF TypeOK
<1>2. CASE Finish \/ UNCHANGED vars
  BY <1>2 DEF Finish, vars
<1> QED
  BY <1>1, <1>2 DEF Next, Start, RestoreRecord, FinishRestore, WarmUpTune, WarmUpSkip,
     FinishWarmUp

(* Where round robin goes from task_idx: ahead, over dead tasks, or around. *)
LEMMA RoundRobinTurns ==
  ASSUME NEW j \in RoundRobinChoice, NEW t \in Tasks \cup {-1}, t = task_idx
  PROVE  /\ j \in Tasks \ dead_tasks
         /\ \/ t < j /\ \A m \in t + 1 .. j - 1 : m \in dead_tasks
            \/ /\ j <= t /\ \A m \in 0 .. j - 1 : m \in dead_tasks
               /\ \A m \in t + 1 .. NTasks - 1 : m \in dead_tasks
<1> USE SizesAssumption DEF Tasks
<1>1. PICK k \in 1 .. NTasks : /\ j = (t + k) % NTasks
                               /\ \A m \in 1 .. k - 1 : (t + m) % NTasks \in dead_tasks
  BY DEF RoundRobinChoice
<1>2. ASSUME NEW m \in 1 .. NTasks
      PROVE  (t + m) % NTasks = IF t + m < NTasks THEN t + m ELSE t + m - NTasks
  BY Z3
<1>3. j \in Tasks \ dead_tasks /\ t \in Int /\ j \in Int
  BY DEF RoundRobinChoice
<1>4. CASE t + k < NTasks
  <2>1. j = t + k
    BY <1>1, <1>2, <1>4
  <2>2. ASSUME NEW m \in t + 1 .. j - 1 PROVE m \in dead_tasks
    <3>1. m - t \in 1 .. k - 1 /\ m - t \in 1 .. NTasks /\ t + (m - t) = m /\ m < NTasks
      BY <1>3, <1>4, <2>1
    <3>2. (t + (m - t)) % NTasks = m
      BY <1>2, <3>1
    <3> QED BY <1>1, <3>1, <3>2
  <2> QED BY <1>3, <2>1, <2>2
<1>5. CASE ~ (t + k < NTasks)
  <2>1. j = t + k - NTasks
    BY <1>1, <1>2, <1>5
  <2>2. ASSUME NEW m \in 0 .. j - 1 PROVE m \in dead_tasks
    <3> DEFINE x == m + NTasks - t
    <3>1. x \in 1 .. k - 1 /\ x \in 1 .. NTasks /\ t + x = m + NTasks
      BY <1>3, <1>5, <2>1
    <3>2. (t + x) % NTasks = m
      BY <1>2, <3>1
    <3> QED BY <1>1, <3>1, <3>2
  <2>3. ASSUME NEW m \in t + 1 .. NTasks - 1 PROVE m \in dead_tasks
    <3>1. m - t \in 1 .. k - 1 /\ m - t \in 1 .. NTasks /\ t + (m - t) = m /\ m < NTasks
      BY <1>3, <1>5
    <3>2. (t + (m - t)) % NTasks = m
      BY <1>2, <3>1
    <3> QED BY <1>1, <3>1, <3>2
  <2>4. j <= t
    BY <1>3, <2>1
  <2> QED BY <1>3, <2>2, <2>3, <2>4
<1> QED BY <1>4, <1>5

(* Round robin goes around: the live tasks up to task_idx have had one      *)
(* round more than the others.                                              *)
Ahead(c) == \A i \in Tasks \ dead_tasks : task_cts[i] = IF i <= task_idx THEN c + 1 ELSE c
InTurn ==
  Fresh => /\ pc \in {"start", "warmup"} =>
                task_idx = -1 /\ \A i \in Tasks : i < warm => task_cts[i] = 1
           /\ pc = "loop" => \E c \in Nat : Ahead(c)

(* Under round robin, without a log, two live tasks never differ by more    *)
(* than one round, whatever died meanwhile.                                 *)
THEOREM RoundRobinStaysBalanced ==
  ASSUME Strategy = "round-robin"
  PROVE  Spec => []RoundRobinBalanced
<1>1. Init => InTurn
  BY SizesAssumption DEF Init, InTurn, Tasks
<1>2. IInv /\ InTurn /\ [Next]_vars => InTurn'
  <2> SUFFICES ASSUME IInv, InTurn, [Next]_vars, Fresh, Fresh' PROVE InTurn'
    BY OnlyRoundsTouch DEF InTurn, Fresh
  <2> USE SizesAssumption DEF counters
  <2>1. CASE Start
    BY <2>1 DEF Start, InTurn
  <2>2. CASE FinishRestore \/ \E i \in Tasks, cost \in Costs : RestoreRecord(i, cost)
    BY <2>2 DEF IInv, Untouched, FinishRestore, RestoreRecord
  <2>3. ASSUME NEW n \in 0 .. PerRound, NEW latency \in Costs, WarmUpTune(n, latency)
        PROVE  InTurn'
    <3>1. warm \in Tasks /\ task_cts[warm] = 0 /\ warm' = warm + 1 /\ pc = "warmup"
          /\ pc' = pc /\ task_idx' = task_idx
      BY <2>3 DEF WarmUpTune, IInv, TypeOK, Tasks
    <3>2. task_cts' = [task_cts EXCEPT ![warm] = task_cts[warm] + 1]
      BY <2>3, <3>1, TuneTaskEffect DEF WarmUpTune, IInv
    <3>3. \A i \in Tasks : i < warm + 1 => task_cts'[i] = 1
      BY <3>1, <3>2 DEF InTurn, IInv, TypeOK, Tasks
    <3> QED
      BY <3>1, <3>3 DEF InTurn, Tasks
  <2>4. CASE WarmUpSkip
    BY <2>4 DEF WarmUpSkip, IInv, Untouched, TypeOK, Tasks
  <2>5. CASE FinishWarmUp
    <3>1. warm = NTasks /\ task_idx = -1 /\ \A i \in Tasks : i < warm => task_cts[i] = 1
      BY <2>5 DEF FinishWarmUp, InTurn
    <3>2. task_cts' = task_cts /\ task_idx' = task_idx /\ dead_tasks' = dead_tasks
          /\ pc' = "loop"
      BY <2>5 DEF FinishWarmUp
    <3>3. Ahead(1)'
      BY <3>1, <3>2 DEF Ahead, Tasks
    <3> QED
      BY <3>2, <3>3 DEF InTurn
  <2>6. ASSUME NEW j \in Tasks, NEW n \in 0 .. PerRound, NEW latency \in Costs,
               Round(j, n, latency)
        PROVE  InTurn'
    <3>1. /\ pc = "loop" /\ pc' \in {"loop", "done"}
          /\ j \in RoundRobinChoice /\ task_idx' = j
      BY <2>6 DEF Round, NextTask, Judge
    <3>2. /\ task_cts' = [task_cts EXCEPT ![j] = task_cts[j] + 1]
          /\ dead_tasks \subseteq dead_tasks'
      BY <2>6, TuneTaskEffect DEF Round, IInv
    <3>3. PICK c \in Nat : Ahead(c)
      BY <3>1 DEF InTurn
    <3>4. task_idx \in Tasks \cup {-1} /\ task_cts \in [Tasks -> Nat]
      BY DEF IInv, TypeOK
    <3>5. /\ j \notin dead_tasks
          /\ \/ task_idx < j /\ \A m \in task_idx + 1 .. j - 1 : m \in dead_tasks
             \/ /\ j <= task_idx /\ \A m \in 0 .. j - 1 : m \in dead_tasks
                /\ \A m \in task_idx + 1 .. NTasks - 1 : m \in dead_tasks
      BY <3>1, <3>4, RoundRobinTurns
    <3>6. CASE task_idx < j /\ \A m \in task_idx + 1 .. j - 1 : m \in dead_tasks
      <4>1. ASSUME NEW i \in Tasks, i \notin dead_tasks'
            PROVE  task_cts'[i] = IF i <= j THEN c + 1 ELSE c
        <5>1. i \notin dead_tasks /\ task_cts[i] = IF i <= task_idx THEN c + 1 ELSE c
          BY <3>2, <3>3, <4>1 DEF Ahead
        <5>2. task_cts'[i] = IF i = j THEN task_cts[i] + 1 ELSE task_cts[i]
          BY <3>2, <3>4
        <5>3. i < j => i <= task_idx
          BY <3>4, <3>6, <5>1 DEF Tasks
        <5> QED
          BY <3>4, <3>6, <5>1, <5>2, <5>3 DEF Tasks
      <4>2. \E d \in Nat : Ahead(d)'
        BY <3>1, <4>1 DEF Ahead, Tasks
      <4> QED
        BY <3>1, <4>2 DEF InTurn
    <3>7. CASE /\ j <= task_idx /\ \A m \in 0 .. j - 1 : m \in dead_tasks
               /\ \A m \in task_idx + 1 .. NTasks - 1 : m \in dead_tasks
      <4>1. ASSUME NEW i \in Tasks, i \notin dead_tasks'
            PROVE  task_cts'[i] = IF i <= j THEN (c + 1) + 1 ELSE c + 1
        <5>1. i \notin dead_tasks /\ task_cts[i] = IF i <= task_idx THEN c + 1 ELSE c
          BY <3>2, <3>3, <4>1 DEF Ahead
        <5>2. task_cts'[i] = IF i = j THEN task_cts[i] + 1 ELSE task_cts[i]
          BY <3>2, <3>4
        <5>3. j <= i /\ i <= task_idx
          BY <3>4, <3>7, <5>1 DEF Tasks
        <5> QED
          BY <3>4, <5>1, <5>2, <5>3 DEF Tasks
      <4>2. \E d \in Nat : Ahead(d)'
        BY <3>1, <4>1 DEF Ahead, Tasks
      <4> QED
        BY <3>1, <4>2 DEF InTurn
    <3> QED
      BY <3>5, <3>6, <3>7
  <2>7. CASE Finish
    BY <2>7 DEF Finish, InTurn
  <2>8. CASE UNCHANGED vars
    BY <2>8 DEF vars, InTurn, Ahead, Tasks
  <2> QED
    BY <2>1, <2>2, <2>3, <2>4, <2>5, <2>6, <2>7, <2>8 DEF Next
<1>3. IInv /\ InTurn => RoundRobinBalanced
  <2> SUFFICES ASSUME IInv, InTurn, Fresh, pc = "loop",
                      NEW i \in Tasks \ dead_tasks, NEW j \in Tasks \ dead_tasks
               PROVE  task_cts[i] <= task_cts[j] + 1
    BY DEF RoundRobinBalanced
  <2>1. PICK c \in Nat : Ahead(c)
    BY DEF InTurn
  <2>2. task_cts[i] \in {c, c + 1} /\ task_cts[j] \in {c, c + 1}
    BY <2>1 DEF Ahead
  <2> QED
    BY <2>2
<1> QED
  BY Invariance, <1>1, <1>2, <1>3, PTL DEF Spec

(* A task in dead_tasks costs no further round under round robin.           *)
THEOREM DeadTasksRestUnderRoundRobin ==
  ASSUME Strategy = "round-robin"
  PROVE  Spec => DeadTasksRest
<1>1. TypeOK /\ [Next]_vars =>
        [pc = "loop" => \A i \in dead_tasks : task_cts'[i] = task_cts[i]]_vars
  BY RoundRobinTunesAlive
<1> QED
  BY TypeCorrect, <1>1, PTL DEF Spec, DeadTasksRest

-----------------------------------------------------------------------------
(* A round of a task that is alive, with budget left, is a Tune step of the *)
(* contract.                                                                *)
LEMMA TuneTaskRefines ==
  ASSUME TypeOK, NEW i \in Tasks \ dead_tasks, NEW n \in 0 .. PerRound,
         NEW latency \in Costs, TuneTask(i, n, latency),
         ct < Trials, pc \notin {"done", "rejected"}
  PROVE  Contract!Tune(i)
<1>1. /\ ct' = ct + n /\ n \in Nat /\ n <= PerRound
      /\ dead_tasks' \in {dead_tasks, dead_tasks \cup {i}}
      /\ n = 0 => dead_tasks' = dead_tasks \cup {i}
  BY TuneTaskEffect
<1>2. ct' \in ct .. ct + PerRound
  BY <1>1, PerRoundShare DEF TypeOK
<1>3. (Tasks \ dead_tasks)' \in {Tasks \ dead_tasks, (Tasks \ dead_tasks) \ {i}}
  BY <1>1 DEF Tasks
<1>4. ct' = ct => (Tasks \ dead_tasks)' = (Tasks \ dead_tasks) \ {i}
  BY <1>1 DEF TypeOK, Tasks
<1>5. \E c \in Costs : c <= best_costs[i] /\ best_costs' = [best_costs EXCEPT ![i] = c]
  <2> DEFINE c == IF latency < best_costs[i] THEN latency ELSE best_costs[i]
  <2>1. Costs \subseteq Nat
    BY CostsAssumption DEF Costs
  <2>2. c \in Costs /\ c <= best_costs[i]
    <3>1. best_costs[i] \in Costs
      BY DEF TypeOK
    <3>2. best_costs[i] \in Nat /\ latency \in Nat
      BY <2>1, <3>1
    <3>3. CASE latency < best_costs[i]
      BY <3>2, <3>3
    <3>4. CASE ~ (latency < best_costs[i])
      BY <3>1, <3>2, <3>4
    <3> QED
      BY <3>3, <3>4
  <2>3. best_costs' = [best_costs EXCEPT ![i] = c]
    BY DEF TuneTask
  <2> QED
    BY <2>2, <2>3
<1> QED
  BY <1>2, <1>3, <1>4, <1>5 DEF Contract!Tune

LEMMA ContractStep ==
  ASSUME Strategy = "round-robin", LoadModes = {FALSE}, IInv, [Next]_vars
  PROVE  [Contract!Next]_(Contract!vars)
<1> USE DEF counters
<1>0. Fresh
  BY DEF IInv, TypeOK, Fresh
<1>1. CASE Start
  BY <1>1 DEF Start, Contract!vars, Contract!Next, Contract!Close
<1>2. CASE FinishRestore \/ \E i \in Tasks, cost \in Costs : RestoreRecord(i, cost)
  BY <1>0, <1>2 DEF IInv, Untouched, FinishRestore, RestoreRecord
<1>3. ASSUME NEW n \in 0 .. PerRound, NEW latency \in Costs, WarmUpTune(n, latency)
      PROVE  \E i \in Tasks : Contract!Tune(i)
  <2> USE SizesAssumption, PerRoundShare
  <2>1. warm \in Tasks \ dead_tasks
    BY <1>0, <1>3 DEF WarmUpTune, IInv, TypeOK, Untouched, Tasks
  <2>2. ct < Trials
    <3>1. ct <= warm * PerRound /\ ct \in Nat /\ warm \in Nat /\ warm < NTasks
      BY <1>3 DEF WarmUpTune, IInv, Spent, TypeOK
    <3>2. PerRound >= 1
      BY <1>3 DEF WarmUpTune, IInv, RoundsPossible
    <3>3. (warm + 1) * PerRound <= NTasks * PerRound
      BY <3>1
    <3>4. (warm + 1) * PerRound = warm * PerRound + PerRound
      BY <3>1
    <3>5. warm * PerRound \in Nat /\ NTasks * PerRound \in Nat
      BY <3>1
    <3> QED
      BY <3>1, <3>2, <3>3, <3>4, <3>5
  <2> QED
    BY <1>3, <2>1, <2>2, TuneTaskRefines DEF WarmUpTune, IInv
<1>4. CASE WarmUpSkip
  BY <1>4 DEF WarmUpSkip, Contract!vars
<1>5. CASE FinishWarmUp
  BY <1>5 DEF FinishWarmUp, Contract!vars
<1>6. ASSUME NEW i \in Tasks, NEW n \in 0 .. PerRound, NEW latency \in Costs,
             Round(i, n, latency)
      PROVE  Contract!Tune(i)
  <2>1. i \in Tasks \ dead_tasks
    BY <1>6 DEF Round, NextTask, RoundRobinChoice
  <2> QED
    BY <1>6, <2>1, TuneTaskRefines DEF Round, MayContinue, IInv
<1>7. CASE Finish
  BY <1>7 DEF Finish, Contract!Next, Contract!Close
<1>8. CASE UNCHANGED vars
  BY <1>8 DEF vars, Contract!vars
<1> QED
  BY <1>1, <1>2, <1>3, <1>4, <1>5, <1>6, <1>7, <1>8 DEF Next, Contract!Next

(* Round robin without a log implements the contract: it tunes only live    *)
(* tasks, only within the budget, never worsens a cost, and retires a task  *)
(* whose round measures nothing.                                            *)
THEOREM RoundRobinImplementsContract ==
  ASSUME Strategy = "round-robin", LoadModes = {FALSE}
  PROVE  Spec => ContractSpec
<1>1. IInv /\ [Next]_vars => [Contract!Next]_(Contract!vars)
  BY ContractStep
<1>2. Init => Contract!Init
  BY DEF Init, Contract!Init
<1> QED
  BY Invariance, <1>1, <1>2, PTL DEF Spec, ContractSpec, Contract!Spec
=============================================================================
