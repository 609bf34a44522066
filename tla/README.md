# DietCode's auto-scheduler, specified in TLA+

DietCode is a fork of TVM (`src/tvm`, with an unmodified copy in `src/tvm_base`
as a baseline) whose auto-scheduler tunes *dynamic workloads*: one search task
stands for many shapes (workload instances), and its answer is a small set of
schedules plus a dispatch map from instances to schedules. This project models
the control of that auto-scheduler: who measures what, what is remembered, when
tuning stops and what is returned.

## The system

| Part | Code | State | Operations |
|---|---|---|---|
| Task scheduler | `python/tvm/auto_scheduler/task_scheduler.py` | rounds, best costs and cost history per task, dead tasks, trials, best score | `tune`: restore, warm up, choose a task, tune one round, judge, stop |
| Sketch search policy | `src/auto_scheduler/search_policy/` | measured states (set, vector, throughputs), retries, trials | `Search`, `ContinueSearchOneRound`, `PickStatesWithEpsGreedy`, `PreloadMeasuredStates` |
| Program measurer | `src/auto_scheduler/measure.cc` | best program(s) per workload key, dispatch map, predictions, trial and error counters | `Measure`, `SilentMeasure`, `Reset` |
| Top-k dispatcher | `src/auto_scheduler/utils.cc` | scoreboards, elected states, dispatch map (all local to a call) | `dispatch`, `MapWklInstsToStates` |
| Builder, runner | `python/tvm/auto_scheduler/measure.py` | the batch in progress | `local_builder_build`, `local_run`, the RPC runner |
| Process pool | `python/tvm/contrib/popen_pool.py`, `exec/popen_worker.py` | a process with two pipes per worker, timers, a lock | `send`, `recv`, `kill`, `map_with_error_catching` |
| Record log | `measure_record.{cc,py}` | an append-only file of JSON lines | save after each batch, read back by policies, scheduler, dispatchers |
| Schedules | `loop_state.cc`, `transform_step.cc` | per state: stages of iterators, two attach maps | split, fuse, reorder, pragma, `compute_at`/`inline`/`root`, `cache_read`/`write`, `rfactor` |
| RPC tracker, servers, clients | `python/tvm/rpc/` | values and requests in the tracker, a match key and a session per server, a grant per client | `PUT`, `REQUEST`, pings, accept, retry, close |
| Evolutionary search, cost model | `sketch_policy.cc`, `cost_model/` | population, heap of best states, model | proposes the states that are measured |
| Adaption, dispatcher objects | `feature.cc`, `compute_dag.cc`, `dietcode.cc` | none / the map a dynamic answer holds | score of a state for an instance; code for a dispatcher |
| History dispatch | `dispatcher.py` | best record per workload and target, a chain of contexts | load a log, enter, exit, query while compiling |

A driver (`networks/shared/auto_scheduler.py`, `ops/`) creates a task scheduler;
each round it calls `ContinueSearchOneRound` of one task's policy, which picks
states not measured before, each a sequence of transform steps on stages, and hands
them to the one measurer that all policies
share. The measurer builds and runs them through the process pool, on this machine or
on devices that an RPC tracker hands out, updates what
is best for that workload key and calls back to the record log, which a compilation
loads later. For a dynamic
task it scores every candidate for every instance and calls the dispatcher, which
chooses the set that is kept. `auto_scheduler.auto_schedule` uses a policy
alone: `Search` loops over rounds itself and finishes a dynamic task with a
dispatch over everything it measured.

What is hard here: state spread over parallel arrays and maps that one early `break` or
one renumbering can set apart; counters in three units (trials, rounds, records) that are
compared with each other; everything a call measured being forgotten except the selected
set; a log that is restored into the middle of the bookkeeping; loops whose progress
depends on the randomised search finding something; iterators addressed by position in a
map while steps shift positions; below the measurer, timers that race the functions they
watch, processes that die, and match keys granted to clients that never come; and a log
whose writer dies in the middle of a line. The full list, at its lines, is in PROJECT.json
under `hazards`.

What makes each part correct:

* scheduler: the budget holds up to one round, nobody starves and nobody dead is
  tuned, gradients are defined and have the right sign, early stopping counts
  from the last improvement, `tune` returns;
* search: nothing is measured twice, throughputs stay next to their states, the
  budget holds, it stops early only when nothing improved, and the answer is the
  fastest state for each instance;
* measurer: forgetting all but the selected set loses nothing, predictions never
  get worse, the parts of a best set describe the same states;
* dispatcher: total, small enough, optimal when it can be, and it ends;
* builder, runner and pool: each answer reaches its request, results keep their
  places, a crash costs a result or two, timeouts stay local, the batch ends;
* schedules: the attach maps are inverse, attach points exist, and a stage stays
  where `compute_at` put it;
* tracker: a key goes to one client, devices go by priority, none is lost or idle, a
  server replaces only keys that were taken, and requests end;
* log and contexts: a crash costs one record, the best loaded record answers, and the
  innermost context that knows a workload is the one that answers.

## The modules

| Module | Models |
|---|---|
| `TuningContract` | abstract: several tasks under one budget |
| `TaskScheduler` | `task_scheduler.py`: `tune`, `_tune_task`, `_restore_status` |
| `TaskSchedulerProofs` | theorems about `TaskScheduler` |
| `Dispatch` | abstract: what a dispatch promises to its callers, as operators |
| `DispatchProofs` | lemmas about `Dispatch`, and the induction the other proof modules use |
| `TopKDispatcher` | `utils.cc`: the top-k dispatcher, step by step |
| `TopKDispatcherProofs` | theorems about `TopKDispatcher` |
| `ProgramMeasurer` | `measure.cc`: `Measure` and `SilentMeasure`, on top of `Dispatch` |
| `ProgramMeasurerProofs` | theorems about `ProgramMeasurer` |
| `SketchSearch` | `sketch_policy.cc`, `search_policy.cc`, `auto_schedule.cc`: the policy as a client of the measurer, on top of `Dispatch` |
| `SketchSearchProofs` | theorems about `SketchSearch` |
| `PopenWorker` | `popen_pool.py`, `popen_worker.py`: one worker and its process |
| `LocalMeasure` | `measure.py`: local builder, with its pool, and local runner, composed of `PopenWorker`s |
| `LoopState` | `loop_state.cc`, `transform_step.cc`: the stages of a state, its attach map, and every step on them |
| `LoopStateProofs` | theorems about `LoopState` |
| `RpcTracker` | `rpc/tracker.py`, `server.py`, `client.py`: the tracker's scheduler with its servers and clients |
| `MeasureProofs` | theorems about `LocalMeasure` and about `RpcTracker`, the two ways to measure |
| `RecordLog` | `measure_record.cc`: the file, its writer, and what a reader sees |
| `HistoryBest` | `dispatcher.py`: nested contexts that load the log, on top of `RecordLog` |
| `HistoryBestProofs` | theorems about `RecordLog` and `HistoryBest` |
| `MC*` | small instances of these, with their `.cfg` files |

`TopKDispatcher` is shown to produce only `DispatchOutcomes` (`DispatchIsSound`);
`ProgramMeasurer` and `SketchSearch` use `DispatchOutcomes` instead of the
algorithm. `TaskScheduler` is shown to implement `TuningContract`
(`ContractSpec`). `HistoryBest` EXTENDS `RecordLog`, so that contexts read while a
tuner writes. The names of variables and of most actions are the code's.

Each module's `TypeOK`, where it has one, documents the values of the variables; it is
proved for `TaskScheduler`, `ProgramMeasurer`, `SketchSearch` and `LocalMeasure`, and no
run repeats it. What a loop of the code computes (the picks of a
round, the fastest of a batch, a table loaded record by record, a query handed from
context to context, devices dealt to requests) is a recursive function over the positions
of the loop, so that it can be proved about. Two modules that one proof module extends
share no names, so the tracker has `InitTracker`, `TrackerNext` and `TrackerSpec`.

### TaskScheduler

`pc` follows `tune()`: `start`, `restore` (one `RestoreRecord` per record of the
log, any order and any costs), `warmup`, `loop`, `done`, or `rejected` when a
round would measure nothing. `load_log` says whether this call was given a log.
`Round(i, n, latency)` is one whole iteration: choice, `_tune_task`, and the
judgement after it. `n` is how many candidates the policy measured, `latency`
what it reports. Costs are small naturals; `Failed` stands for 1e10. Gradients
are exact fractions: `Gradient(i).num / Gradient(i).den` over a common factor, so
`Below` compares what the code compares, without rounding. A warm-up that retires
a task, a random choice when all gradients are equal, and tasks that died before
the warm-up reached them are all in the model. Similarity groups are commented
out in this code and absent here; callbacks only print.

### TopKDispatcher, Dispatch

One action per pass of the loops: `Fill` (a longer scoreboard for everyone),
`Elect` (one state of the greedy cover), `Check`, `MapInst` (one instance of the
renumbering, in any order, as the hash map iterates). `SiftUp` and `PopHeap` are
libstdc++'s heap steps, applied, as in the code, to scoreboards that nobody made a
heap. `Dispatch.Favourites` is the outcome of `k = 1`; only when that selects too
many states does the algorithm matter to its callers.

### ProgramMeasurer

`StartMeasure` moves the previous best set of a dynamic task into the candidates,
`RunBatch` is one pass over a batch (build, run, counters, verbosity), `FinishStatic` and
`Redispatch` end a call. Results are any values; `Fit` is the factor by which a program's
speed adapts to an instance. `Throw` is an exception out of the builder or runner,
`DivideByZero` a dispatch with no candidates, `fatal` the `LOG(FATAL)` on a prediction
that got worse. `MovedOut` is the map after one of its vectors was moved out. `measured`
is a history variable. Measure callbacks and the time-outs behind a result are not
modelled.

### SketchSearch

`Preload` loads one record of a log, `Find*` is a round up to the hand-over of its
picks (`Pick` is the whole loop of `PickStatesWithEpsGreedy`), `MeasureFound` and
`MeasureRound` what follows the measurement, `Answer*` the end of `Search` and
`AutoSchedule`. A round may find any distinct unmeasured states, best first, and any random
states, measured ones and repetitions included. `known` is a history variable.
After the final dispatch the code builds every instance's program. That a build
fails changes nothing the code reads again (see below), so it is left out; that the
builder raises is not (`Throw`). A failed measurement has speed 0 here, where the code
computes an operation count divided by 1e10, which no valid speed comes near.

### PopenWorker, LocalMeasure

A worker is a process (`proc`), two pipes, a main thread (`child[w].phase`) and a set of
timers that still wait (`armed`) or want the lock (`fired`). What is done under the lock
is one step. A function may end, or not; the process may die (`Die`) between any two
steps. What a dead process has written can still be read, and `send` ignores that nobody
listens. A process that dies while one of its threads has the lock and an answer to give
may have written only the first part of it (`Answering`, `Cut`). `recv()` forgets the
process when it sees the end of the pipe or an `IOError`, but what `struct.unpack` and
`cloudpickle.loads` make of a part of an answer is neither, so `Cut` is not `Fatal`: the
dead process stays, and takes the next request with it. `LocalMeasure` has a `StartBuild`
and a `FinishBuild` per pool thread, `CollectBuild` for the caller's loop over the
outcomes, and `StartRun`/`FinishRun`/`SkipRun` for `local_run`; `PrepareFails` is the
exception of `prepare_runner_args`, which nobody catches. A function ends with a value,
with an error it caught, or with an exception, as the assertion of `local_build_worker`
before its `try` may. Not modelled: the pool of the RPC runner, which has no timeout.

### LoopState

A stage is its nest of iterators, its `compute_at` and `moved`, a history flag: its target
was reordered since `compute_at`. Names, ranges and annotations are data. An iterator is
written as the set of stages that `compute_at` was asked to place there, which the code
does not keep: `Divided`, `Fused` and `Reorder` say where an iterator ends up, and
`UpdateIters` and its callers, translated on their own, say what the code does to the
maps. `Split` stands for the three kinds of split steps. Every action is one
`ApplyToState` with all its effects. A `LOG(FATAL)`, an `ICHECK` or a crash ends the
process and is a guard too: `MayFuse`, `MayInline`, and `EntryFound`, since
`DeleteStageEntry` follows an attach point to its entry without asking whether there is
one.

Two guards are not in the code, but what the search rules do before they call a step: a
stage is computed at a later stage that is not inlined, and `cache_write` comes before any
other step on its target and before anything is attached to it, as a comment there
demands. A `cache_write` that adds more than two operations logs an error, goes on and
reads past the end of the stages, an `ICHECK`; it is left out.

Two steps replace a nest and do not look at what is attached to it: fusing no iterators
(`FuseNone`) and `rfactor`. Both are in the model as they are in the code, whatever is
attached. After them an attach point may name an iterator that is gone or is another
one, a later renaming may merge entries, and nothing more can be said of the maps:
`dropped` remembers that it happened, and three of the four properties hold until then.

### RpcTracker

A server's state is its connection to the tracker (a number, so that an old connection can
still be open at the tracker), its match key and its count of pings without that key. A
message to the tracker and its answer are one step, since the sender waits and the tracker
handles one event at a time; `Schedule` follows every `PUT` and `REQUEST` and the removal
of values when a connection ends, and `Deal` is its loop: a request is popped, and its
client gets the first value or, if it cannot be reached, the value goes to the end.
`requests` is the heap in the order it is popped. Clients die between any two steps, a
dead client may still be written to (`Outcomes`), the tracker restarts and forgets
everything, and `unmatch_period_count` runs up to `Patience`. `Welcome`, `Mismatch` and
`Broken` are the outcomes of an accepted connection, and `EndSession` covers a session
that ends by itself, by timeout, or with its client. The proxy, summaries and servers
without a tracker are not modelled.

### RecordLog, HistoryBest

The file is a sequence of lines, a line a sequence of texts, one per record, `whole` or
cut. A callback's records reach the file in three steps each (`BeginText`, `EndText`,
`EndLine`), and `Crash` may fall between any two. A reader sees the first text of each
line; a cut one throws. (What throws is dmlc's JSON reader, which is not in this
repository. Were it to accept some cut text, fewer records would be lost, not more.)
`HistoryBest` keeps one table per context, indexed by slots: a
pair of the dictionary keys of the code, where the last one, the workload's arguments,
was replaced by a constant. `Construct` is `ApplyHistoryBest(...)`, `Load` a later
`load()`; records are taken statics first, as `read_lines` returns them, and a
`load()` that raises keeps what it did (`aborted`). `loaded` and `withs` are history
variables. A context is not entered while its own block is open. A query that would
run in a circle of contexts has the answer `NoEnd`, which is none of the code's.

## The runs

| Run | Instance | Shows |
|---|---|---|
| `scheduler_round_robin` | 3 tasks, 7 trials, rounds of 2 | budget, balance among living tasks, dead tasks rest, termination, refinement of `TuningContract` |
| `scheduler_gradient` | 2 tasks, 10 trials, rounds of 5, with or without a log of up to 3 records per task | gradients read the latest cost and are never positive, early stopping, nothing untuned, termination |
| `dispatcher` | all 3 x 3 score matrices over {0, 1, 3}, room for 1 or 2 states | the dispatcher's promises and its end |
| `measurer` | a dynamic task (3 programs, 2 instances) and a static one (2 programs), calls of up to 3 inputs in batches of 2 | the measurer's properties, with both tasks interleaved |
| `search` | a static and a dynamic task of 3 states and 2 instances, budgets 1 and 3, rounds of 2 with 1 random place, and single rounds | the search's properties, and that it ends |
| `local_measure` | 3 inputs, 2 pool threads and the runner | answers, places, crashes, timeouts, termination; a result lost per death, two if it cuts an answer |
| `loop_state` | up to 3 stages of up to 4 iterators, operations of 0 or 2 axes | the attach maps, over every sequence of steps, until a nest is replaced with stages attached |
| `rpc` | 1 server, 2 clients of different priority, up to 2 deaths and 1 restart, 3 tries | grants, offers, idle devices, priorities, and that requests end |
| `history` | a log of up to 3 records of 5 kinds with 1 crash, 2 contexts, targets with and without a model | what a crash costs, best answers, nesting |
| `scheduler_dead_gradient`, `dispatcher_heap`, `search_dynamic_stop` | smaller | one disagreement of code and documentation each |

Why the bounds are enough. Scheduler: costs 1, 3 and `Failed` allow two
improvements per task, so histories, windows and early stops (after 3 trials) all
happen; in `scheduler_gradient` a round (5) exceeds the patience of a task (1), so
that a log can leave a task dead with its records rounded to zero rounds. In
`scheduler_round_robin` the share of a task (2) caps `num_measures_per_round` (4).
Dispatcher: three scores give ties, winners and losers; with room for one state the
scoreboards grow to the full list, and with room for two the cover and the
renumbering have more than one state. Measurer: three programs, of which
two suit one instance each and the third both, with two speeds and failure, make the
selected set grow, shrink and swap; calls of three inputs take two batches. Search:
rounds can be cut by the budget, filled from random states, find nothing, and stop
early. Local measurement: with three inputs on two threads one process serves two
requests, which is what a stale answer needs, and what a cut answer needs to cost two
results. Schedules: three stages give a chain of
attachments and one stage in between; four iterators can be split, fused and split
again. Tracker: with one server the two clients compete for the same key, and a client
that never comes makes the server replace it while the other waits; each further server
would only wait for its own key. Log: three records are what a text without line
break, the record swallowed behind it, and one more need; two contexts nest, and the
targets share the key `gpu`.
Every bound is a constant of its module or `.cfg`.

Deadlock is checked in `loop_state`: some step always applies. It is not checked
(`CHECK_DEADLOCK FALSE`) in the others: the calls return, batches and requests end, and
the log of `history` reaches its bound.

Fairness. `TaskScheduler`, `TopKDispatcher` and `SketchSearch` are sequential
programs: weak fairness of the next-state relation says that a call, once made,
keeps executing (for `SketchSearch`: once `Search` has been called; nobody need
call it). Nothing is assumed of what a round finds or a measurement reports.
`LocalMeasure` assumes weak fairness of each thread and process step and of each
timer, since the operating system schedules them independently; it does not
assume that a function ever ends, nor that a process dies. `RpcTracker` assumes weak
fairness of each server's and each client's steps, processes of their own that wait for
nothing but the answer of the tracker or of a peer; nobody has to die, notice a closed
connection or restart. Its sessions end: a client finishes its measurements
or the server's session timeout does. `LoopState`, `ProgramMeasurer`, `RecordLog` and
`HistoryBest` make no claim that something happens.

## What is proved

`TaskSchedulerProofs` proves, for every number of tasks, budget, round size,
patience, window, objective, set of latencies and length of the log:

* `TypeCorrect`: `TypeOK` is invariant;
* `BudgetIsKept`: `tune` measures less than one round more than `num_measure_trials`;
* `EveryTaskIsTuned`: once the loop starts, every task has at least one round, so the
  gradient's division is defined, also after a restore;
* `DeadTasksRestUnderRoundRobin`: under round robin the loop spends no round on a dead task;
* `RoundRobinImplementsContract`: under round robin and without a log, `tune`
  implements `TuningContract`;
* `RoundRobinStaysBalanced`: under round robin and without a log, two live tasks never
  differ by more than one round, whichever died meanwhile;
* `AliveTasksKeepImproving`: without a log, a task still in the race has improved
  within its patience;
* `WastedTrialsStayBounded`: with a valid cost for every task the loop does not go on
  once `EarlyAll` trials in a row brought nothing;
* `BackwardAlwaysReadsLatest`: without a log, the backward gradient starts from the
  current cost;
* `GradientsStayNonPositive`: `assert grad <= 0` never fires, restored or not, if the
  objective does not fall when a cost rises.

The assumptions are those of `TaskScheduler`: sizes are naturals (the trial and
round sizes may be 0), a failed cost exceeds every latency, the objective maps
costs to naturals. The three theorems about round robin assume that strategy, the
contract also that no log is loaded, and the last theorem a monotone objective
(`ObjectiveMonotone`): with any other, as a weight below zero, the assertion may fire.

The argument rests on one inductive invariant, `IInv`. `TypeOK` alone is not
inductive: restoring divides by the round size, which only `tune`'s own check keeps
positive (`RoundsPossible`). The budget needs to know how the trials were spent:
at most one round per task the warm-up has passed (`Spent`), which stays within the
budget because a round is at most a task's share. `WarmedUp` says that tasks the
warm-up has passed have a round, by being tuned or by having been skipped for having
one. `Untouched` says that without a log a task is fresh and alive until its turn, so
that the warm-up, which does not look at `dead_tasks`, is still a step of the
contract. `Invariance` proves `Spec => []IInv` with one lemma per conjunct and one
step per action.

The other theorems add what they need to `IInv`. For the balance that is `InTurn`: the
live tasks up to `task_idx` have had `c + 1` rounds and the others `c`, for some `c`; a
turn that goes around finds everything between it and the last turn dead
(`RoundRobinTurns`), so `c` grows. For the gradients it is `HistoriesFall`, that costs
never rise along a history and none in it is below the current cost, and for the newest
entry `HistoryKept`, one entry per round. Patience and wasted trials are inductive with `IInv`,
as the last round of a live task, or the last judgement, decided by the same numbers.

`LoopStateProofs` proves, for every number of stages and iterators and every sequence of
steps:

* `MapsStayInverse`: `MapsAgree`, the two maps are inverse, without empty entries, until
  a nest is replaced with stages attached to it (`dropped`);
* `AttachPointsStay`: `AttachPointsExist`, every attach point is an iterator of a later
  stage that is not inlined, until the same;
* `AttachedIteratorKept`: `AttachFollowsIterator`, until its target is reordered, a stage
  is attached to the iterator `compute_at` was given, until the same;
* `KindsStayInLine`: `KindMatchesMap`, a stage with an attach point is of kind `kIter`,
  and a stage that is placed at an iterator has an attach point, through every sequence of
  steps, also when nests were replaced.

None of them is inductive alone. That fusing merges no two entries needs the maps to be
inverse and its own check (`MayFuse`); that a renamed point exists needs the nest and the
renaming to agree; that nothing is attached to an inlined stage needs every entry to name
an existing iterator, which is what `ICHECK` looks through. So `IInv` is the conjunction
of the first three with the types of stages (`StagesOK`) and of the maps (`MapTypes`), and
what is invariant is `DInv`: `IInv`, or a nest was replaced with stages attached
(`dropped`). A nest that nothing is attached to may be replaced (`FuseNone`, `Rfactor`)
and `IInv` goes on. The proof goes by what the steps share: one lemma per operation of
`AttachMap` (`DeleteStageAgrees`, `SetComputeAtIterAgrees`, `UpdateItersAgrees`,
`ApplyStageIdOffsetAgrees`) says that it keeps the maps inverse and what it does to an
entry; `SplitNest`, `FuseNest` and `SpliceStages` say the same of the sequences; and
`NestStep`, `DetachKeeps`, `PlacedKeepsPoint` and `InsertKeeps` put them together for the
three groups of steps. The kinds do not depend on that: `KInv` is about the stages and the
stages that have an attach point (`KindOK`, `PlacedOK`), whatever the point is. No step
leaves at an iterator what was at no iterator before (the last facts of `SplitNest`,
`FuseNest` and `PlacedStages`), and an insertion renames the stages in the nests as it
renames them in the map (`Inserts`, the common form of the three insertions).

`DispatchProofs` holds what several proofs share. The library states induction and
recursion for operators, which the provers here cannot instantiate, so both are derived
as statements about sets and functions: `FiniteMinimum` (a set of finite sets has a
minimal one) from the well-foundedness of strict inclusion, `NatMinimum`,
`SetInduction` and `IntervalInduction` from that, and `Recursion` and
`BoundedRecursion`, that the recursive functions of the models exist and satisfy their
equations. `FavouriteExists` and `FavouriteUnique` say of any row of scores that one state
is its first best, `SelectedFew` that a map selects at most as many states as there are
instances, and `OrderLists` what the order of a compacted set lists.

`TopKDispatcherProofs` proves, for every score matrix, set of instances, number of states
and capacity:

* `TopKDispatchIsSound`: `DispatchIsSound`, a dispatch is one of the `DispatchOutcomes`
  that the measurer and the search assume;
* `TopKRenumberingFaithful`: `RenumberingFaithful`, the compact list has each selected
  state once, and each instance is renumbered to the place of its own state.

`DispatcherInv` says who is served (`Cover`), that the first cover elects favourites and
that there is a second only when those are too many (`Tries`), what an accepted cover is
(`Accepted`), and what the renumbering has done so far (`Compacted`). What the scoreboards
hold when `k` grows does not matter: the heap steps need no invariant except
that a board of one place keeps the first best (`OneOnBoard`, by `IntervalInduction`
over the offers).

`ProgramMeasurerProofs` proves, for all sets of tasks, programs and instances, all
adaption factors, batch sizes, capacities and results:

* `MeasurerTyped`: `TypeOK`;
* `MeasurerNeverDrops`: `PredictionsNeverDrop`, the `LOG(FATAL)` never fires;
* `MeasurerKeepsTheBest`: `NothingBetterWasMeasured`, forgetting all but the selected set
  loses nothing;
* `MeasurerSetConsistent`: `BestSetConsistent`;
* `MeasurerStaticBest`: `StaticBestIsFirstFastest`.

The second and third speak of a capacity of one state per instance
(`NoDegradationPossible`), as the properties themselves do. `TypeOK` is not inductive:
that the carried states and speeds can be paired again is a fact about the best set.
`MeasurerInv` adds to it what a static task keeps (`StaticKept`), what a dynamic task at
rest keeps (`Resting`: every state in the set was measured at its speed, the predictions are
those of the dispatched states, nothing measured is better), and the same facts while its
set is dissolved among the candidates (`Competing`): for each instance some candidate is as
fast as the old prediction and as everything measured. `Redispatch` turns `Competing` back
into `Resting` because a favourite beats every candidate (`FastestServes`).

`SketchSearchProofs` proves, for any search space, budget, round size and number of random
places:

* `SearchTyped`: `TypeOK`;
* `SearchMeasuresOnce`: `NeverMeasuredTwice`;
* `SearchAligned`: `ThroughputsAligned`, between rounds, although an early stop leaves
  the arrays apart;
* `SearchAnswersFastest`: `AnswerIsFastest`;
* `SearchStopsInVain`: the action property `StaticStopJustified`.

`SearchInv` is `TypeOK` with six parts. `Distinct` says that the picked inputs are already
in the set of measured states, and differ from all measured before. `Aligned` says how far
the throughputs reach while states are out for measurement (`pc = "measure"`). `DynKnown`
says that for a dynamic task the arrays are the history, which is why the final dispatch
over them finds the fastest. `StaticLead` says that the measurer's best is the first
fastest since `AutoSchedule` began, which the records loaded before do not count for.
`LoopIsAuto` says that only `AutoSchedule` runs the loop. The last is `AnswerIsFastest`
itself. `PickIs` describes `PickStatesWithEpsGreedy` by induction over its loop: distinct
states, none measured before, at most a round's share.

`MeasureProofs` proves, for every number of inputs and of pool threads:

* `MeasureTyped`: `TypeOK`;
* `MeasureAnswers`: `AnswersMatch`, `recv` returns the one answer to the request its caller
  waits for;
* `MeasureOrder`: `ResultsInOrder`, results are, position by position, about the inputs;
* `MeasureStops`: `FinishedWorkStops`, nothing executes whose result is known or
  given up, and no build while runs are timed;
* `MeasureCrashes`: `CrashesCostLittle`, as many results are lost as processes died, and at
  most one more for each that died in the middle of an answer.

`MeasureInv` follows a request through one worker (`WorkerInv`): it is on its way, being
worked on, or answered, never two of these; its status changes with the answer, so that a
timer that fires late finds it changed and stays silent. `Owners` and `Fresh` say that
no two workers have the same request and none is asked for twice, `Results` what the
collected results are about, and `Crashes` charges a death for a result as soon as the
process is down, since its owner only finds out later; a death that cuts an answer pays twice,
for the request it was about and for the next one, which finds the process down.

Of the tracker `MeasureProofs` proves, for every number of servers and clients, all
priorities, any patience, and any number of deaths and restarts:

* `TrackerOffersArePending`: `OffersArePending`, what a server is told of its key is what
  is on offer, and nothing is on offer over a closed connection;
* `TrackerGrantsOnce`: `KeysGrantedOnce`;
* `TrackerNeverIdles`: `NoIdleDevice`, `_schedule` leaves no free device beside a waiting
  client;
* `TrackerFollowsPriority`: the action property `GrantsFollowPriority`, whoever is given a
  device leaves nobody of a higher priority waiting;
* `TrackerCountsTaken`: `CountMeansTaken`, a server that counts pings without its key
  replaces no key that is on offer.

`TrackerInv` relates a server's key, the values of the tracker and the grants of the
clients. Match keys and connections are numbered upwards (`NumbersKnown`), so that a fresh
key meets no old one. A key that was granted is not on offer and nobody else has it, also
when its client has died on its way (`GrantsApart`): that is why a server that has
accepted a client, dead or alive, has nothing on offer (`OffersCurrent`) and may offer
again. While a server is registered, what is pending is what is on offer over its present
connection, one key at most. Restarts and lost connections keep this by ending the
registration. `RequestsWait` and the order of `RequestSeqs` say whose requests the heap
holds, and how. One lemma, `ScheduleKeeps`, serves all events of the tracker: it says what
must be so when `_schedule` starts (`Ready`), and rests on `DealIs`, which follows the
loop by induction over the requests popped (`DealtTo`: every offer is either left or
given, to one client each). A second, `AwayFromTracker`, serves the steps in which the
tracker takes no part.

`HistoryBestProofs` proves, for every set of records, any number of batches, crashes and
contexts, and any targets and keys:

* `CrashAlwaysCostsOneRecord` and `CrashCostsReadersOneRecord`: `CrashCostsOneRecord`, of the
  writer alone and with readers;
* `AnswerStaysBest`: `AnswerIsBest`, a context answers with the last dispatcher, or else a
  fastest record, for the first place it looks at that any loaded record concerns;
* `NearestAlwaysAnswers`: `NearestContextAnswers`, the innermost open block that has an
  answer gives it.

A crash must pay for the record that its successor hides, but hides it only later, when the
next callback writes on the torn line. `CrashesPay` therefore charges for a torn end of the
file (`Torn`) as for a record already hidden; that a text is torn, and not just being
written, is read off the ids, which `InOrder` keeps increasing and at most one ahead of
the records that are done. `Undamaged` says what a file looks like before the first crash:
its use of `CrashesPay` (no torn end, so the text being finished is alone on its line) is
why the parts are proved together, in `LogStep`. `HistInv` adds that the tables are what
one pass over everything ever loaded would make of them (`TablesBest`), although they
were filled portion by portion, statics before dispatchers each time: `HoldsNext` extends
such a table by one record, and `OfferIs` and `OfferModelIs` say that the nested
assignments of the code do that. It also adds that the open blocks are a chain from the
innermost to the root (`Nested`); as no context is entered twice, the chain is no longer
than there are contexts (`BlocksFit`), and the query along it ends.

The assumptions are those of the modules (`MeasurerAssumption`, `SearchAssumption`,
`MeasureAssumption`, `DispatcherAssumption`, `HistoryAssumption`, `BoundsAssumption`,
`LoopStateAssumption`, `TrackerAssumption`): sets of tasks, threads and instances are
finite where the code keeps them in containers, sizes are naturals, positive where the
code divides or reserves by them, `None` is no record, and no server is called `none`,
which stands for no grant.

Only model-checked: all liveness (`Termination`, `SearchEnds`, `BatchEnds`, `RequestsEnd`),
since the prover does not handle `ENABLED` and fairness here; and the disagreements below,
which are counterexamples. Every invariant and every action property of a passing run is
proved.

## Disagreements of code and documentation

Shown by runs (PROJECT.json, `findings`): dead tasks are tuned again when all
gradients are equal; scoreboards that are no heaps; early stopping of a dynamic
task counts from a `best_ct` that is never set.

Further ones, seen while modelling and kept as outcomes of the models, without a run:

* a process that dies in the middle of an answer costs two results, since `recv` forgets
  it only after an `IOError` (`popen_pool.py:246-250`; `send` says at 196-198 that a child's
  exit "won't affect the later requests"). `CrashesCostLittle` counts both; with only the
  deaths on its right-hand side a trace of 8 states breaks it;
* fusing no iterators replaces the nest and leaves the attach map alone
  (`transform_step.cc:549-565`; `loop_state.h:170` says "A Map to store the mapping of
  stage to its attached iterator"), so that a stage may stay attached to an iterator that
  is gone: two stages and two steps, `compute_at` and the fuse, are enough.
  `FuseAllOuterSpaceIterators` fuses none where a nest starts with a reduction or an
  annotated iterator (`search_policy/utils.h:650-672`). `AttachPointsExist` and the other
  properties of the maps excuse it through `dropped`;
* the last round of `tune` is not cut to the remaining trials
  (`task_scheduler.py:371`; `search_task.py:150` says "in total"). `BudgetKept`
  states by how much;
* a restore appends one cost to the history whatever the rounds restored, so
  later gradients read older entries (`task_scheduler.py:576`). `BackwardReadsLatest`
  is therefore restricted to calls without a log;
* the cover elects by summed scores and need not be a minimum (`utils.cc:131`,
  comment at 108);
* an early stop leaves before the last throughputs are stored, and the final
  dispatch then indexes past them (`sketch_policy.cc:326`; `AnswerDynBadly`,
  `undefined`);
* with no valid measurement of a static task a `CHECK` fails before the branch that
  returns the default schedule (`auto_schedule.cc:79`; `AnswerStatic`, `crashed`);
* with at most one trial a dynamic task's answer has an empty dispatch map
  (`sketch_policy.cc:229`; `SearchUntuned`);
* a build process that dies, or the assertion before the `try` of `local_build_worker`
  (`measure.py:698`), is an `EXCEPTION` for the pool, and `local_builder_build`
  asserts that whatever is not complete timed out (`measure.py:757`), so one dead
  process aborts the batch (`CollectBuild`, `raised`);
* `call_func_with_timeout` catches timeouts and crashes alike (`utils.py:335`), so that
  a run that times out is recorded as a device error and not as `RUN_TIMEOUT`
  (`measure.py:611`; `RunError`);
* `reorder` leaves the attach map alone (`transform_step.cc:779-787`) although the map
  addresses iterators by position (`loop_state.h:134-137`): what was attached to the
  reordered stage is then attached to another iterator. `AttachFollowsIterator`
  excuses such stages through `moved`;
* a crash between a record and its line break makes a reader skip the next record, and a
  cut record ends every later load of the file with an exception
  (`measure_record.cc:590`); `CrashCostsOneRecord` states both;
* `read_lines(skip_lines=n)` skips nothing in the file: it counts down on the first record
  without reading another (`measure_record.cc:693`; `measure_record.py:104` says "Skip
  the first n lines");
* iterating over a reader subscripts every record before asking whether it is a
  dispatcher (`measure_record.py:144`, comment at 151), so logs of dynamic tasks cannot
  be restored by the task scheduler;
* a second record for one workload on a target with a model makes `load()` raise, and so
  does a static record loaded after a dispatcher (`dispatcher.py:285`, `260`;
  `OfferToModel`, `OfferToKey`, `raised`);
* the arguments of a workload key are ignored, so that shapes of one function share an
  entry, and `n_lines` counts static records before dispatchers wherever they are in
  the file (`dispatcher.py:148-150` and 201 say otherwise);
* the check of the dispatched states neither repeats nor excludes a state whose
  build failed (`sketch_policy.cc:450,478`).

## What is left, in order

1. `EvolutionaryHeap`: the heap of best states and the visited set of
   `EvolutionarySearch`, and the retry loop of `SampleInitPopulation`, which never ends in
   a search space without valid states (`sketch_policy.cc:822`).
2. `WklDispatcher`: `GenerateAndCompressIRMods` of `dietcode.cc`.
3. The RPC runner's pool on `PopenWorker`s without timeouts, composing `LocalMeasure` and
   `RpcTracker` with `ProgramMeasurer` through the error numbers of results.
4. A composition of `TaskScheduler`, `SketchSearch` and `ProgramMeasurer` at the level
   of rounds, with the measurer's maps as shared state.

## Not modelled

The rules that generate sketches and the mutations of evolutionary search (randomised
data transformations), the generation of code, the cost model and the scores of an adapted
state (numeric; `Fit` stands for them), the contents of an RPC session and the proxy, the
drivers, the workload registry, Relay integration (straight-line plumbing), the rest
of TVM and its baseline copy. PROJECT.json gives the reason per component.
