----------------------------- MODULE LocalMeasure -----------------------------
(***************************************************************************)
(* One batch of measurements on the local machine (measure.py):            *)
(* local_builder_build builds the inputs in a pool of worker processes,    *)
(* PopenPoolExecutor, and local_run then runs them one after the other in  *)
(* a worker of its own.  The pool's threads take the inputs in order; the  *)
(* builder collects their outcomes in order too.                           *)
(***************************************************************************)
EXTENDS PopenWorker, FiniteSets

CONSTANTS
  NInputs,    \* inputs of the batch
  Threads,    \* threads of the pool, each with a worker
  Runner      \* local_run's worker

Inputs == 1 .. NInputs
Build(j) == <<"build", j>>
Run(j) == <<"run", j>>

ASSUME MeasureAssumption ==
  /\ NInputs \in Nat /\ IsFiniteSet(Threads)
  /\ Runner \notin Threads /\ Workers = Threads \cup {Runner}
  /\ Requests = {Build(j) : j \in Inputs} \cup {Run(j) : j \in Inputs}

VARIABLES
  pc,             \* "build", "run", "returned", "raised"
  submitted,      \* inputs taken from the pool's queue so far
  task,           \* the request whose answer the owner of a worker waits for
  outcome,        \* MapResult of each build
  build_results,
  run_results

batch == <<pc, submitted, task, outcome, build_results, run_results>>
vars == <<worker, batch>>

Pending == Answer(None, "none")

Init ==
  /\ InitWorker
  /\ pc = "build"
  /\ submitted = 0
  /\ task = [w \in Workers |-> None]
  /\ outcome = [j \in Inputs |-> Pending]
  /\ build_results = << >> /\ run_results = << >>

-----------------------------------------------------------------------------
(* A pool thread takes the next input: _worker_run up to recv().           *)
StartBuild(w) ==
  LET j == submitted + 1 IN
  /\ pc = "build" /\ w \in Threads /\ task[w] = None
  /\ j \in Inputs
  /\ submitted' = j
  /\ task' = [task EXCEPT ![w] = Build(j)]
  /\ Send(w, Build(j))
  /\ UNCHANGED <<pc, outcome, build_results, run_results>>

(* recv(), and the outcome that _worker_run_with_error_catching makes of   *)
(* it: a value, a timeout, or any other exception.                         *)
FinishBuild(w) ==
  /\ pc = "build" /\ w \in Threads /\ task[w] # None
  /\ Recv(w)
  /\ outcome' = [outcome EXCEPT ![task[w][2]] = Received(w)]
  /\ task' = [task EXCEPT ![w] = None]
  /\ UNCHANGED <<pc, submitted, build_results, run_results>>

Settled == {j \in Inputs : outcome[j] # Pending}

(* Mutant of Collectable: in the order of completion. *)
CollectableAsCompleted ==
  {j \in Settled : \A h \in DOMAIN build_results : build_results[h] # outcome[j]}

(* The outcomes are collected in the order of the inputs. *)
Collectable == Settled \cap {Len(build_results) + 1}

(* local_builder_build's loop: what is neither a value nor a timeout fails *)
(* its assertion.                                                          *)
CollectBuild(j) ==
  /\ pc = "build" /\ j \in Collectable
  /\ IF outcome[j].is \in {"NO_ERROR", "ERROR", "TIMEOUT"}
     THEN build_results' = Append(build_results, outcome[j]) /\ UNCHANGED pc
     ELSE pc' = "raised" /\ UNCHANGED build_results
  /\ UNCHANGED <<worker, submitted, task, outcome, run_results>>

(* The builder returns, and its executor dies with its workers. *)
FinishBuilds ==
  /\ pc = "build" /\ Len(build_results) = NInputs
  /\ pc' = "run"
  /\ KillAll(Threads)
  /\ UNCHANGED <<submitted, task, outcome, build_results, run_results>>

-----------------------------------------------------------------------------
(* The input whose turn it is in local_run.                                *)
Turn == Len(run_results) + 1
MayRun(j) == build_results[j].is = "NO_ERROR"

(* An input that was not built keeps its error. *)
SkipRun ==
  /\ pc = "run" /\ task[Runner] = None
  /\ Turn \in Inputs /\ ~ MayRun(Turn)
  /\ run_results' = Append(run_results, Answer(Build(Turn), "BUILD_ERROR"))
  /\ UNCHANGED <<worker, pc, submitted, task, outcome, build_results>>

StartRun ==
  /\ pc = "run" /\ task[Runner] = None
  /\ Turn \in Inputs /\ MayRun(Turn)
  /\ task' = [task EXCEPT ![Runner] = Run(Turn)]
  /\ Send(Runner, Run(Turn))
  /\ UNCHANGED <<pc, submitted, outcome, build_results, run_results>>

(* prepare_runner_args finds no argument of the name, and raises.          *)
PrepareFails ==
  /\ pc = "run" /\ task[Runner] = None
  /\ Turn \in Inputs /\ MayRun(Turn)
  /\ pc' = "raised"
  /\ UNCHANGED <<worker, submitted, task, outcome, build_results, run_results>>

(* call_func_with_timeout turns every exception, TimeoutError included,    *)
(* into a plain Exception, which local_run records as a device error.      *)
RunError(answer) ==
  IF answer.is \in {"NO_ERROR", "ERROR"} THEN answer.is ELSE "RUNTIME_DEVICE"

FinishRun ==
  /\ pc = "run" /\ task[Runner] # None
  /\ Recv(Runner)
  /\ run_results' =
       Append(run_results, Answer(Received(Runner).of, RunError(Received(Runner))))
  /\ task' = [task EXCEPT ![Runner] = None]
  /\ UNCHANGED <<pc, submitted, outcome, build_results>>

Return ==
  /\ pc = "run" /\ Len(run_results) = NInputs
  /\ pc' = "returned"
  /\ KillAll({Runner})
  /\ UNCHANGED <<submitted, task, outcome, build_results, run_results>>

-----------------------------------------------------------------------------
(* local_build_worker and _timed_eval_func catch the exceptions of their   *)
(* work and return an error, and may raise before and after it.            *)
Endings == {"NO_ERROR", "ERROR", "EXCEPTION"}

Open == pc \in {"build", "run"}

(* A step of the process behind worker w. *)
ChildStep(w) ==
  \/ Read(w)
  \/ MainAnswers(w)
  \/ \E r \in Requests : TimerFires(w, r) \/ TimerAnswers(w, r)
FunctionEnds(w) == \E is \in Endings : RunEnds(w, is)

Next ==
  \/ \E w \in Workers : StartBuild(w) \/ FinishBuild(w)
  \/ \E j \in Inputs : CollectBuild(j)
  \/ FinishBuilds
  \/ SkipRun
  \/ StartRun
  \/ PrepareFails
  \/ FinishRun
  \/ Return
  \/ Open /\ (\E w \in Workers : ChildStep(w) \/ FunctionEnds(w) \/ Die(w)) /\ UNCHANGED batch

Spec == Init /\ [][Next]_vars

(* Threads and processes that can go on do, and timers run out; that a     *)
(* function ever returns is not assumed.                                   *)
Fairness ==
  /\ \A w \in Workers :
       /\ WF_vars(StartBuild(w)) /\ WF_vars(FinishBuild(w))
       /\ WF_vars(Open /\ Read(w) /\ UNCHANGED batch)
       /\ WF_vars(Open /\ MainAnswers(w) /\ UNCHANGED batch)
       /\ \A r \in Requests :
            /\ WF_vars(Open /\ TimerFires(w, r) /\ UNCHANGED batch)
            /\ WF_vars(Open /\ TimerAnswers(w, r) /\ UNCHANGED batch)
  /\ WF_vars(FinishBuilds \/ SkipRun \/ StartRun \/ PrepareFails \/ FinishRun \/ Return)
  /\ WF_vars(\E j \in Inputs : CollectBuild(j))
FairSpec == Spec /\ Fairness

-----------------------------------------------------------------------------
Answers ==
  [of : Requests \cup {None},
   is : {"NO_ERROR", "ERROR", "EXCEPTION", "TIMEOUT", "DEAD", "CUT", "none"}]

Children ==
  [phase : {"read", "run", "answer"}, request : Requests \cup {None},
   ret : {"NO_ERROR", "ERROR", "EXCEPTION", "none"},
   armed : SUBSET Requests, fired : SUBSET Requests]
RunResults ==
  [of : Requests \cup {None}, is : {"NO_ERROR", "ERROR", "BUILD_ERROR", "RUNTIME_DEVICE"}]

WorkerTypes ==
  /\ proc \in [Workers -> {"none", "up", "down"}]
  /\ child \in [Workers -> Children]
  /\ writer \in [Workers -> Seq(Requests)]
  /\ reader \in [Workers -> Seq(Answers)]
  /\ status \in [Requests -> {"RUNNING", "COMPLETE", "TIMEOUT"}]
  /\ deaths \in Nat /\ cuts \in Nat

BatchTypes ==
  /\ pc \in {"build", "run", "returned", "raised"}
  /\ submitted \in 0 .. NInputs
  /\ task \in [Workers -> Requests \cup {None}]
  /\ outcome \in [Inputs -> Answers]
  /\ build_results \in Seq(Answers)
  /\ run_results \in Seq(RunResults)

TypeOK == WorkerTypes /\ BatchTypes

(* Main thread and timer never both answer, and an answer is never left in *)
(* the pipe for a later request: what can be read is the one answer to the *)
(* request that is waited for, or what a process that died left of it.     *)
AnswersMatch ==
  \A w \in Workers :
    /\ Len(reader[w]) <= 1
    /\ reader[w] # << >> =>
         /\ task[w] # None
         /\ reader[w][1].of = task[w] \/ (reader[w][1] = Cut /\ proc[w] = "down")

(* Builds finish in any order, processes die and are replaced, and still   *)
(* the results are those of the inputs at their positions.                 *)
ResultsInOrder ==
  /\ \A j \in DOMAIN build_results : build_results[j].of = Build(j)
  /\ \A j \in DOMAIN run_results :
       IF MayRun(j) THEN run_results[j].of \in {Run(j), None}
       ELSE run_results[j].of = Build(j)

Executing(r) ==
  \E w \in Workers : child[w].phase = "run" /\ child[w].request = r

(* A function whose result is known runs no longer, timed out or not; so   *)
(* no build disturbs the runs, and no run the next one.                    *)
FinishedWorkStops ==
  /\ \A j \in Settled : ~ Executing(Build(j))
  /\ \A j \in DOMAIN run_results : ~ Executing(Run(j))
  /\ pc = "run" => \A j \in Inputs : ~ Executing(Build(j))

(* The inputs whose result a process that died has cost. *)
LostBuilds == {j \in Inputs : outcome[j].is \in {"DEAD", "CUT"}}
LostRuns == {j \in DOMAIN run_results : run_results[j].of = None}
Lost == Cardinality(LostBuilds) + Cardinality(LostRuns)

(* A process that dies costs one input its result, and a second one if it  *)
(* died in the middle of an answer, whose part recv() does not take for    *)
(* the end of the process; the next one finds a new process.               *)
CrashesCostLittle == Lost <= deaths + cuts

(* The batch ends, although functions may run for ever. *)
BatchEnds == <>(pc \in {"returned", "raised"})
=============================================================================
