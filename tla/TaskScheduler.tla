---------------------------- MODULE TaskScheduler ----------------------------
(***************************************************************************)
(* auto_scheduler.TaskScheduler: splits a budget of measurement trials     *)
(* between several tuning tasks.  tune() optionally restores its counters  *)
(* from a record log, warms up (one round for every task never tuned), and *)
(* then repeats: choose a task, tune it for one round, judge progress.     *)
(*                                                                         *)
(* The search policy behind continue_search_one_round is the environment:  *)
(* a round measures any number of candidates up to PerRound and reports    *)
(* any latency.  Latencies are small naturals; Failed stands for 1e10, the *)
(* cost of a task without one valid measurement (an infinite latency, the  *)
(* answer for a task whose every candidate failed, behaves the same).      *)
(***************************************************************************)
EXTENDS Integers, Sequences

CONSTANTS
  NTasks,             \* number of tasks; the ids are 0 .. NTasks - 1
  Trials,             \* tune_option.num_measure_trials
  MeasuresPerRound,   \* tune_option.num_measures_per_round
  EarlyAll,           \* early_stopping_all (larger than Trials: never)
  EarlyTask,          \* early_stopping_task (larger than Trials: never)
  Strategy,           \* "round-robin" or "gradient"
  AlphaNum, AlphaDen, \* alpha = AlphaNum / AlphaDen
  Window,             \* backward_window_size
  ObjectiveFunc(_),   \* objective_func, from the cost of every task to a score
  Latencies,          \* latencies a round may report
  Failed,             \* cost of a task with no valid measurement (1e10)
  LoadModes,          \* whether tune() is given a load_log_file: a set of BOOLEANs
  MaxRecords          \* bound: records of one task in that log

Tasks == 0 .. NTasks - 1
Costs == Latencies \cup {Failed}

ASSUME SizesAssumption ==
  /\ NTasks \in Nat \ {0}
  /\ Trials \in Nat /\ MeasuresPerRound \in Nat
  /\ EarlyAll \in Nat \ {0} /\ EarlyTask \in Nat
  /\ AlphaNum \in Nat /\ AlphaDen \in Nat \ {0} /\ AlphaNum <= AlphaDen
  /\ Window \in Nat \ {0}
  /\ MaxRecords \in Nat
ASSUME CostsAssumption ==
  /\ Latencies \subseteq Nat \ {0} /\ Failed \in Nat
  /\ \A l \in Latencies : l < Failed
ASSUME ModesAssumption ==
  /\ Strategy \in {"round-robin", "gradient"}
  /\ LoadModes \subseteq BOOLEAN
ASSUME ObjectiveAssumption ==
  \A c \in [Tasks -> Costs] : ObjectiveFunc(c) \in Nat

VARIABLES
  load_log,           \* this tune() was given a load_log_file
  pc,                 \* where tune() is
  warm,               \* next task the warm-up looks at
  task_idx,           \* the task tuned last, -1 before the first round
  task_cts,           \* rounds spent on each task (records, while restoring)
  task_best_cts,      \* the round (record) that found best_costs
  task_costs_history, \* best cost of each task, appended every round
  best_costs,
  ct,                 \* measurements of this tune() call
  best_ct, best_score,
  dead_tasks

counters == <<task_cts, task_best_cts, task_costs_history, best_costs, dead_tasks>>
vars == <<load_log, pc, warm, task_idx, counters, ct, best_ct, best_score>>

-----------------------------------------------------------------------------
(* Mutant of PerRound: the share of a task does not cap the round. *)
PerRoundUncapped == IF Trials >= NTasks THEN MeasuresPerRound ELSE 0

(* Every task gets at least one round: its share of the budget caps the round. *)
PerRound ==
  LET share == Trials \div NTasks
  IN  IF MeasuresPerRound <= share THEN MeasuresPerRound ELSE share

CurScore == ObjectiveFunc(best_costs)

Init ==
  /\ load_log \in LoadModes
  /\ pc = "start"
  /\ warm = 0
  /\ task_idx = -1
  /\ task_cts = [i \in Tasks |-> 0]
  /\ task_best_cts = [i \in Tasks |-> 0]
  /\ task_costs_history = [i \in Tasks |-> << >>]
  /\ best_costs = [i \in Tasks |-> Failed]
  /\ ct = 0
  /\ best_ct = 0
  /\ best_score = ObjectiveFunc([i \in Tasks |-> Failed])
  /\ dead_tasks = {}

(* tune() up to the restore: a budget below one trial per task is refused. *)
Start ==
  /\ pc = "start"
  /\ pc' = IF PerRound <= 0 THEN "rejected"
           ELSE IF load_log THEN "restore" ELSE "warmup"
  /\ UNCHANGED <<load_log, warm, task_idx, counters, ct, best_ct, best_score>>

-----------------------------------------------------------------------------
(* _restore_status: one record of task i, then the rounding of the counts. *)
RestoreRecord(i, cost) ==
  /\ pc = "restore"
  /\ task_cts[i] < MaxRecords
  /\ task_cts' = [task_cts EXCEPT ![i] = @ + 1]
  /\ IF cost < best_costs[i]
     THEN /\ best_costs' = [best_costs EXCEPT ![i] = cost]
          /\ task_best_cts' = [task_best_cts EXCEPT ![i] = task_cts'[i]]
     ELSE UNCHANGED <<best_costs, task_best_cts>>
  /\ UNCHANGED <<load_log, pc, warm, task_idx, task_costs_history, ct, best_ct, best_score,
                 dead_tasks>>

(* int(records / num_measures_per_round + 0.5) *)
ToRounds(records) == (2 * records + PerRound) \div (2 * PerRound)

FinishRestore ==
  /\ pc = "restore"
  /\ dead_tasks' = {i \in Tasks : task_cts[i] - task_best_cts[i] > EarlyTask}
  /\ task_cts' = [i \in Tasks |-> ToRounds(task_cts[i])]
  /\ task_best_cts' = [i \in Tasks |-> ToRounds(task_best_cts[i])]
  /\ task_costs_history' =
       [i \in Tasks |-> Append(task_costs_history[i], best_costs[i])]
  /\ pc' = "warmup"
  /\ UNCHANGED <<load_log, warm, task_idx, best_costs, ct, best_ct, best_score>>

-----------------------------------------------------------------------------
(* Mutant of Retired: a task without improvement stays in the race.        *)
RetiredOnEmptyOnly(i, n, noChangeTrials) == IF n = 0 THEN {i} ELSE {}

(* What a round adds to dead_tasks: task i if its search space is          *)
(* exhausted, or if it has not improved for a long while.                  *)
Retired(i, n, noChangeTrials) ==
  IF n = 0 \/ noChangeTrials > EarlyTask THEN {i} ELSE {}

(* Mutant of TuneTask: the history gets the cost before the round. *)
TuneTaskStaleHistory(i, n, latency) ==
  LET round  == task_cts[i] + 1
      better == latency < best_costs[i]
      bestAt == IF better THEN round ELSE task_best_cts[i]
  IN  /\ task_cts' = [task_cts EXCEPT ![i] = round]
      /\ task_best_cts' = [task_best_cts EXCEPT ![i] = bestAt]
      /\ best_costs' = [best_costs EXCEPT ![i] = IF better THEN latency ELSE @]
      /\ dead_tasks' = dead_tasks \cup Retired(i, n, (round - bestAt) * PerRound)
      /\ task_costs_history' =
           [task_costs_history EXCEPT ![i] = Append(@, best_costs[i])]
      /\ ct' = ct + n

(* _tune_task: one round of task i that measures n candidates and reports  *)
(* the given latency.                                                      *)
TuneTask(i, n, latency) ==
  LET round  == task_cts[i] + 1
      better == latency < best_costs[i]
      bestAt == IF better THEN round ELSE task_best_cts[i]
      cost   == IF better THEN latency ELSE best_costs[i]
  IN  /\ task_cts' = [task_cts EXCEPT ![i] = round]
      /\ task_best_cts' = [task_best_cts EXCEPT ![i] = bestAt]
      /\ best_costs' = [best_costs EXCEPT ![i] = cost]
      /\ dead_tasks' = dead_tasks \cup Retired(i, n, (round - bestAt) * PerRound)
      /\ task_costs_history' = [task_costs_history EXCEPT ![i] = Append(@, cost)]
      /\ ct' = ct + n

(* The warm-up loop skips tasks that the log says were tuned before, and   *)
(* nothing else: it does not look at dead_tasks.                           *)
WarmUpTune(n, latency) ==
  /\ pc = "warmup" /\ warm < NTasks
  /\ task_cts[warm] = 0
  /\ TuneTask(warm, n, latency)
  /\ warm' = warm + 1
  /\ UNCHANGED <<load_log, pc, task_idx, best_ct, best_score>>

(* Mutant of WarmUpSkip: the warm-up also passes over dead tasks.          *)
WarmUpSkipsDead ==
  /\ pc = "warmup" /\ warm < NTasks
  /\ task_cts[warm] # 0 \/ warm \in dead_tasks
  /\ warm' = warm + 1
  /\ UNCHANGED <<load_log, pc, task_idx, counters, ct, best_ct, best_score>>

WarmUpSkip ==
  /\ pc = "warmup" /\ warm < NTasks
  /\ task_cts[warm] # 0
  /\ warm' = warm + 1
  /\ UNCHANGED <<load_log, pc, task_idx, counters, ct, best_ct, best_score>>

FinishWarmUp ==
  /\ pc = "warmup" /\ warm = NTasks
  /\ best_ct' = ct
  /\ best_score' = CurScore
  /\ pc' = "loop"
  /\ UNCHANGED <<load_log, warm, task_idx, counters, ct>>

-----------------------------------------------------------------------------
(* Mutants of RoundRobinChoice: it does not step over dead tasks; it       *)
(* always starts over from task 0.                                         *)
RoundRobinBlind == {(task_idx + 1) % NTasks}
RoundRobinFromZero ==
  {j \in Tasks \ dead_tasks : \A m \in 0 .. j - 1 : m \in dead_tasks}

(* The first task after task_idx, cyclically, that is not dead. *)
RoundRobinChoice ==
  {j \in Tasks \ dead_tasks :
     \E k \in 1 .. NTasks :
       /\ j = (task_idx + k) % NTasks
       /\ \A m \in 1 .. k - 1 : (task_idx + m) % NTasks \in dead_tasks}

(* How much the objective drops when the cost of i drops by delta. *)
ChainGrad(i) ==
  CurScore - ObjectiveFunc([best_costs EXCEPT ![i] = @ - 1])

(* The history entries that stand for g(t) and g(t - window). *)
HasBackward(i) ==
  /\ task_cts[i] <= Len(task_costs_history[i])
  /\ task_cts[i] - Window >= 1

(* Mutant of BackwardDiff: the operands of the difference are swapped. *)
BackwardDiffSwapped(i) ==
  IF HasBackward(i)
  THEN task_costs_history[i][task_cts[i] - Window] - task_costs_history[i][task_cts[i]]
  ELSE 0

BackwardDiff(i) ==
  IF HasBackward(i)
  THEN task_costs_history[i][task_cts[i]] - task_costs_history[i][task_cts[i] - Window]
  ELSE 0

(* A gradient is a fraction num / den, over the common factor             *)
(* Window * AlphaDen; a dead task has gradient 0.                          *)
Gradient(i) ==
  IF i \in dead_tasks THEN [num |-> 0, den |-> 1]
  ELSE [num |-> ChainGrad(i) * (AlphaNum * BackwardDiff(i) * task_cts[i]
                                - (AlphaDen - AlphaNum) * best_costs[i] * Window),
        den |-> task_cts[i]]
Below(g, h) == g.num * h.den < h.num * g.den

(* np.argmin (the first minimum), or a random task, dead or alive, when    *)
(* all the gradients are equal.                                            *)
GradientChoice ==
  IF \A i, j \in Tasks : ~ Below(Gradient(i), Gradient(j))
  THEN Tasks
  ELSE {i \in Tasks : \A j \in Tasks \ {i} :
          /\ ~ Below(Gradient(j), Gradient(i))
          /\ j < i => Below(Gradient(i), Gradient(j))}

NextTask == IF Strategy = "round-robin" THEN RoundRobinChoice ELSE GradientChoice

(* Mutant of MayContinue: the loop goes on when every task is dead. *)
MayContinueDeadToo == ct < Trials

MayContinue == ct < Trials /\ dead_tasks # Tasks

(* Mutant of StopEarly: one more round than the option allows. *)
StopEarlyLate ==
  /\ ct' - best_ct > EarlyAll
  /\ \A j \in Tasks : best_costs'[j] < Failed

(* Every task has a valid cost and the last EarlyAll trials improved nothing. *)
StopEarly ==
  /\ ct' - best_ct >= EarlyAll
  /\ \A j \in Tasks : best_costs'[j] < Failed

(* The end of an iteration: remember an improvement, or consider stopping. *)
Judge ==
  IF CurScore' < best_score
  THEN best_score' = CurScore' /\ best_ct' = ct' /\ UNCHANGED pc
  ELSE /\ UNCHANGED <<best_score, best_ct>>
       /\ pc' = IF StopEarly THEN "done" ELSE pc

(* One iteration of the loop: choose, tune, judge. *)
Round(i, n, latency) ==
  /\ pc = "loop" /\ MayContinue
  /\ i \in NextTask
  /\ TuneTask(i, n, latency)
  /\ task_idx' = i
  /\ Judge
  /\ UNCHANGED <<load_log, warm>>

Finish ==
  /\ pc = "loop" /\ ~ MayContinue
  /\ pc' = "done"
  /\ UNCHANGED <<load_log, warm, task_idx, counters, ct, best_ct, best_score>>

Next ==
  \/ Start
  \/ \E i \in Tasks, cost \in Costs : RestoreRecord(i, cost)
  \/ FinishRestore
  \/ \E n \in 0 .. PerRound, latency \in Costs : WarmUpTune(n, latency)
  \/ WarmUpSkip
  \/ FinishWarmUp
  \/ \E i \in Tasks, n \in 0 .. PerRound, latency \in Costs : Round(i, n, latency)
  \/ Finish

Spec == Init /\ [][Next]_vars

(* tune() is a sequential program: once called it keeps taking steps. *)
FairSpec == Spec /\ WF_vars(Next)

-----------------------------------------------------------------------------
AllValid == \A i \in Tasks : best_costs[i] < Failed
Fresh == ~ load_log

TypeOK ==
  /\ load_log \in LoadModes
  /\ pc \in {"start", "rejected", "restore", "warmup", "loop", "done"}
  /\ warm \in 0 .. NTasks
  /\ task_idx \in Tasks \cup {-1}
  /\ task_cts \in [Tasks -> Nat]
  /\ task_best_cts \in [Tasks -> Nat]
  /\ task_costs_history \in [Tasks -> Seq(Costs)]
  /\ best_costs \in [Tasks -> Costs]
  /\ ct \in Nat /\ best_ct \in Nat /\ best_score \in Nat
  /\ dead_tasks \subseteq Tasks

(* The budget is overshot by less than one round, warm-up included. *)
BudgetKept == pc = "start" \/ PerRound = 0 \/ ct < Trials + PerRound

(* "make sure every task is tuned at least once": also what keeps the      *)
(* forward gradient's division by task_cts defined.                        *)
EveryTaskTuned == pc \in {"loop", "done"} => \A i \in Tasks : task_cts[i] >= 1

(* The newest entry the backward gradient reads for g(t) is the cost after *)
(* the task's last round, t.  Only without a log: a restore leaves the     *)
(* history one entry long, and later entries out of step with task_cts.    *)
BackwardReadsLatest ==
  Fresh /\ pc = "loop" => \A i \in Tasks \ dead_tasks :
    HasBackward(i) => task_costs_history[i][task_cts[i]] = best_costs[i]

(* `assert grad <= 0` never fires. *)
GradientsNonPositive ==
  pc = "loop" => \A i \in Tasks \ dead_tasks : Gradient(i).num <= 0

(* "Stop tuning this task in the rest of the process": the loop never      *)
(* spends a round on a dead task.                                          *)
DeadTasksRest ==
  [][pc = "loop" => \A i \in dead_tasks : task_cts'[i] = task_cts[i]]_vars

(* Round robin is fair to the tasks still alive, whatever died meanwhile. *)
RoundRobinBalanced ==
  Fresh /\ pc = "loop" =>
    \A i, j \in Tasks \ dead_tasks : task_cts[i] <= task_cts[j] + 1

(* With a valid cost for every task the loop never goes on after EarlyAll  *)
(* measurements without improvement.                                       *)
WastedTrialsBounded == pc = "loop" /\ AllValid => ct - best_ct < EarlyAll

(* A task still in the race improved within its last EarlyTask trials. *)
AliveTasksImprove ==
  Fresh => \A i \in Tasks \ dead_tasks :
             (task_cts[i] - task_best_cts[i]) * PerRound <= EarlyTask

(* tune() returns. *)
Termination == <>(pc \in {"done", "rejected"})

-----------------------------------------------------------------------------
(* The inductive invariant behind the proofs.  TypeOK alone is not         *)
(* inductive: ToRounds divides by PerRound, which only tune()'s check      *)
(* keeps positive.                                                         *)
RoundsPossible == pc \notin {"start", "rejected"} => PerRound >= 1

Spent ==
  /\ pc \in {"start", "rejected", "restore"} => ct = 0 /\ warm = 0
  /\ pc = "warmup" => ct <= warm * PerRound
  /\ pc \in {"loop", "done"} => ct < Trials + PerRound

WarmedUp ==
  /\ \A i \in Tasks : i < warm => task_cts[i] >= 1
  /\ pc \in {"loop", "done"} => warm = NTasks

(* Without a log no task is touched before its turn in the warm-up. *)
Untouched ==
  Fresh => /\ pc # "restore"
           /\ pc \in {"start", "warmup"} =>
                \A i \in Tasks : i >= warm => task_cts[i] = 0 /\ i \notin dead_tasks

IInv == TypeOK /\ RoundsPossible /\ Spent /\ WarmedUp /\ Untouched

-----------------------------------------------------------------------------
(* Without a log, tune() implements the contract of TuningContract. *)
Contract ==
  INSTANCE TuningContract WITH
    spent <- ct,
    alive <- Tasks \ dead_tasks,
    cost <- best_costs,
    open <- pc \notin {"done", "rejected"},
    RoundMax <- PerRound
ContractSpec == Contract!Spec
=============================================================================
