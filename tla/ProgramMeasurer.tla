--------------------------- MODULE ProgramMeasurer ---------------------------
(***************************************************************************)
(* ProgramMeasurerNode (measure.cc): measures batches of candidate         *)
(* programs for several tasks and keeps what was best.  A static task      *)
(* keeps one best program.  A dynamic task keeps a set of programs and a   *)
(* dispatch map from workload instances to them, chosen anew after every   *)
(* Measure call among the previous best set and the new programs.          *)
(*                                                                         *)
(* The builder and the runner are the environment: a program measures to   *)
(* any value of 0 .. MaxFlops, 0 standing for every kind of error.         *)
(* AdaptStateToWorkload multiplies the measured value by a factor that     *)
(* depends on the program and the instance only: Fit.                      *)
(***************************************************************************)
EXTENDS Dispatch, Sequences, Functions

CONSTANTS
  Keys,          \* workload keys of the tasks that share the measurer
  DynKeys,       \* those of dynamic tasks
  SearchSpace,   \* [Keys -> SUBSET of programs]: candidate programs of a task
  Insts,         \* workload instances of a dynamic task
  Fit,           \* [Insts -> [Programs -> Nat]]: occupancy and padding
  MaxFlops,      \* bound on measured values
  MaxNumStates,  \* max_num_states_ of the dispatcher
  BatchSize,     \* 2 * builder->n_parallel
  MaxError,      \* max_continuous_error
  Verbosity,     \* verbosity the measurer was created with
  MaxInputs      \* bound: inputs of one Measure call

Programs == UNION Range(SearchSpace)

ASSUME MeasurerAssumption ==
  /\ DynKeys \subseteq Keys /\ IsFiniteSet(Insts)
  /\ Fit \in [Insts -> [Programs -> Nat]]
  /\ MaxFlops \in Nat \ {0} /\ MaxNumStates \in Nat \ {0}
  /\ BatchSize \in Nat \ {0} /\ MaxError \in Nat /\ Verbosity \in 0 .. 2
  /\ MaxInputs \in Nat

Flops == 0 .. MaxFlops

VARIABLES
  pc,
  task,           \* the key Measure was called for
  queue,          \* inputs not yet measured
  candidates,     \* candidate_states with candidate_flops
  old_verbosity,
  ct, error_ct, verbose,
  best_score, best_ct, has_valid,
  best_states, best_state_flops,          \* per key, parallel sequences
  best_inst_disp_map, best_inst_flops,    \* per key
  measured        \* what was measured for which task, in order (history)

frame == <<task, queue, candidates, old_verbosity>>
totals == <<ct, error_ct, verbose>>
staticBest == <<best_score, best_ct, has_valid>>
dynBest == <<best_state_flops, best_inst_disp_map, best_inst_flops>>
vars == <<pc, frame, totals, staticBest, best_states, dynBest, measured>>

-----------------------------------------------------------------------------
Absent == << >>   \* an entry that operator[] would create empty

Init ==
  /\ pc = "idle"
  /\ task \in Keys
  /\ queue = << >> /\ candidates = << >> /\ old_verbosity = Verbosity
  /\ ct = 0 /\ error_ct = 0 /\ verbose = Verbosity
  /\ best_score = [key \in Keys |-> 0]
  /\ best_ct = [key \in Keys |-> 0]
  /\ has_valid = {}
  /\ best_states = [key \in Keys |-> << >>]
  /\ best_state_flops = [key \in Keys |-> << >>]
  /\ best_inst_disp_map = [key \in Keys |-> Absent]
  /\ best_inst_flops = [key \in Keys |-> Absent]
  /\ measured = << >>

Pairs(programs, flops) ==
  [j \in DOMAIN programs |-> [program |-> programs[j], flops |-> flops[j]]]

(* Mutant of Carried: Measure starts from the new programs only. *)
CarriedNothing(key) == << >>

(* The previous best set of a dynamic task competes again. *)
Carried(key) ==
  IF key \in DynKeys THEN Pairs(best_states[key], best_state_flops[key]) ELSE << >>

MeasuredFor(key) == {r \in Range(measured) : r.key = key}
AlreadyMeasured(key) == {r.program : r \in MeasuredFor(key)}

(* std::move leaves the entry of a dynamic task empty. *)
MovedOut(best, key) == IF key \in DynKeys THEN [best EXCEPT ![key] = << >>] ELSE best

(* The policy hands over distinct programs it has not measured before.     *)
StartMeasure(key, inputs) ==
  /\ pc = "idle"
  /\ IsInjective(inputs) /\ Range(inputs) \subseteq SearchSpace[key] \ AlreadyMeasured(key)
  /\ pc' = "measuring"
  /\ task' = key /\ queue' = inputs
  /\ candidates' = Carried(key)
  /\ best_states' = MovedOut(best_states, key)
  /\ best_state_flops' = MovedOut(best_state_flops, key)
  /\ old_verbosity' = verbose
  /\ UNCHANGED <<totals, staticBest, best_inst_disp_map, best_inst_flops, measured>>

-----------------------------------------------------------------------------
BatchLen == IF Len(queue) <= BatchSize THEN Len(queue) ELSE BatchSize

(* error_ct after the results so far: a success forgets all errors. *)
Errors(results) ==
  LET e[j \in 0 .. Len(results)] ==
        IF j = 0 THEN error_ct ELSE IF results[j] = 0 THEN e[j - 1] + 1 ELSE 0
  IN  e[Len(results)]

(* Mutant of Beats: a later program of equal speed takes over. *)
BeatsOrTies(flops, score) == flops >= score

Beats(flops, score) == flops > score

(* The value of ct when result j of the batch is looked at. *)
Trial(j) == ct + j - 1

(* best_score, best_states and best_ct of a static task after a batch. *)
BestAfter(results) ==
  LET b[j \in 0 .. Len(results)] ==
        IF j = 0
        THEN [score |-> best_score[task], states |-> best_states[task], at |-> best_ct[task]]
        ELSE IF Beats(results[j], b[j - 1].score)
        THEN [score |-> results[j], states |-> <<queue[j]>>, at |-> Trial(j)]
        ELSE b[j - 1]
  IN  b[Len(results)]

ValidKeys(results) ==
  IF \E j \in DOMAIN results : results[j] > 0 THEN has_valid \cup {task} ELSE has_valid

RunBatch(results) ==
  LET done == Pairs(SubSeq(queue, 1, Len(results)), results)
      best == BestAfter(results)
  IN  /\ pc = "measuring" /\ queue # << >>
      /\ Len(results) = BatchLen
      /\ queue' = SubSeq(queue, BatchLen + 1, Len(queue))
      /\ ct' = ct + BatchLen
      /\ error_ct' = Errors(results)
      /\ verbose' = IF error_ct' > MaxError THEN 2 ELSE old_verbosity
      /\ has_valid' = ValidKeys(results)
      /\ measured' = measured \o
           [j \in DOMAIN results |-> [key |-> task, program |-> queue[j], flops |-> results[j]]]
      /\ IF task \in DynKeys
         THEN /\ candidates' = candidates \o done
              /\ UNCHANGED <<best_score, best_ct, best_states>>
         ELSE /\ best_score' = [best_score EXCEPT ![task] = best.score]
              /\ best_states' = [best_states EXCEPT ![task] = best.states]
              /\ best_ct' = [best_ct EXCEPT ![task] = best.at]
              /\ UNCHANGED candidates
      /\ UNCHANGED <<pc, task, old_verbosity, dynBest>>

(* The builder or the runner raises: Measure unwinds, and with it tune(). *)
Throw ==
  /\ pc = "measuring" /\ queue # << >>
  /\ pc' = "aborted"
  /\ UNCHANGED <<frame, totals, staticBest, best_states, dynBest, measured>>

FinishStatic ==
  /\ pc = "measuring" /\ queue = << >> /\ task \notin DynKeys
  /\ pc' = "idle"
  /\ UNCHANGED <<frame, totals, staticBest, best_states, dynBest, measured>>

-----------------------------------------------------------------------------
Positions == DOMAIN candidates

Adapted ==
  [i \in Insts |-> [p \in Positions |-> candidates[p].flops * Fit[i][candidates[p].program]]]

(* scores.size() / num_states with num_states = 0. *)
DivideByZero ==
  /\ pc = "measuring" /\ queue = << >> /\ task \in DynKeys
  /\ candidates = << >>
  /\ pc' = "crashed"
  /\ UNCHANGED <<frame, totals, staticBest, best_states, dynBest, measured>>

(* Mutant of Renumbered: the ids of the candidate list are kept. *)
RenumberedRaw(disp, order) == disp

(* The dispatch map, by position in the compacted list. *)
Renumbered(disp, order) == [i \in Insts |-> CHOOSE x \in DOMAIN order : order[x] = disp[i]]

Degrades(predicted) ==
  /\ best_inst_flops[task] # Absent
  /\ \E i \in Insts : best_inst_flops[task][i] > predicted[i]

(* The end of Measure for a dynamic task: dispatch, renumber (order is the *)
(* order of the compacted list), compare with the previous prediction.     *)
Redispatch(disp, order) ==
  LET predicted == [i \in Insts |-> Adapted[i][disp[i]]]
      chosen == [x \in DOMAIN order |-> candidates[order[x]]]
  IN  /\ pc = "measuring" /\ queue = << >> /\ task \in DynKeys
      /\ candidates # << >>
      /\ disp \in DispatchOutcomes(Adapted, Positions, MaxNumStates)
      /\ order \in Bijection(1 .. Cardinality(Selected(disp)), Selected(disp))
      /\ IF Degrades(predicted)
         THEN /\ pc' = "fatal"      \* LOG(FATAL), after the old prediction was moved out
              /\ best_inst_flops' = [best_inst_flops EXCEPT ![task] = Absent]
              /\ UNCHANGED <<best_states, best_state_flops, best_inst_disp_map>>
         ELSE /\ pc' = "idle"
              /\ best_states' = [best_states EXCEPT ![task] =
                                   [x \in DOMAIN order |-> chosen[x].program]]
              /\ best_state_flops' = [best_state_flops EXCEPT ![task] =
                                        [x \in DOMAIN order |-> chosen[x].flops]]
              /\ best_inst_disp_map' = [best_inst_disp_map EXCEPT ![task] =
                                          Renumbered(disp, order)]
              /\ best_inst_flops' = [best_inst_flops EXCEPT ![task] = predicted]
      /\ UNCHANGED <<frame, totals, staticBest, measured>>

Inputs == UNION {[1 .. n -> Programs] : n \in 0 .. MaxInputs}

Next ==
  \/ \E key \in Keys, inputs \in Inputs : StartMeasure(key, inputs)
  \/ \E results \in [1 .. BatchLen -> Flops] : RunBatch(results)
  \/ Throw
  \/ FinishStatic
  \/ DivideByZero
  \/ \E disp \in [Insts -> Positions] :
       \E order \in Bijection(1 .. Cardinality(Selected(disp)), Selected(disp)) :
         Redispatch(disp, order)

Spec == Init /\ [][Next]_vars

-----------------------------------------------------------------------------
NoDegradationPossible == MaxNumStates >= Cardinality(Insts)

TypeOK ==
  /\ pc \in {"idle", "measuring", "aborted", "crashed", "fatal"}
  /\ task \in Keys
  /\ queue \in Seq(Programs)
  /\ candidates \in Seq([program : Programs, flops : Flops])
  /\ old_verbosity \in 0 .. 2 /\ verbose \in 0 .. 2
  /\ ct \in Nat /\ error_ct \in Nat
  /\ best_score \in [Keys -> Flops]
  /\ best_ct \in [Keys -> Nat]
  /\ has_valid \subseteq Keys
  /\ best_states \in [Keys -> Seq(Programs)]
  /\ best_state_flops \in [Keys -> Seq(Flops)]
  /\ best_inst_disp_map \in [Keys -> [Insts -> Nat] \cup {Absent}]
  /\ best_inst_flops \in [Keys -> [Insts -> Nat] \cup {Absent}]
  /\ measured \in Seq([key : Keys, program : Programs, flops : Flops])

(* With room for one state per instance, the check of the predictions that *)
(* aborts the process never fires, although only the selected states are   *)
(* carried from one Measure call to the next.                              *)
PredictionsNeverDrop == NoDegradationPossible => pc # "fatal"

AdaptedMeasured(key, i) ==
  {r.flops * Fit[i][r.program] : r \in MeasuredFor(key)}

(* The predicted speed of every instance is the best over everything ever  *)
(* measured, not only over what the last call measured.                    *)
NothingBetterWasMeasured ==
  NoDegradationPossible /\ pc = "idle" =>
    \A key \in DynKeys : best_inst_flops[key] # Absent =>
      \A i \in Insts : \A f \in AdaptedMeasured(key, i) : f <= best_inst_flops[key][i]

(* Between calls the four parts of a dynamic task's best set agree: every  *)
(* instance points into the set, at a program whose recorded speed gives   *)
(* its prediction, and every program in the set serves an instance.        *)
BestSetConsistent ==
  pc = "idle" => \A key \in DynKeys : best_inst_flops[key] # Absent =>
    LET set  == best_states[key]
        disp == best_inst_disp_map[key]
    IN  /\ Len(best_state_flops[key]) = Len(set)
        /\ \A x \in DOMAIN set :
             [key |-> key, program |-> set[x], flops |-> best_state_flops[key][x]]
               \in Range(measured)
        /\ Range(disp) = DOMAIN set
        /\ \A i \in Insts :
             best_inst_flops[key][i] = best_state_flops[key][disp[i]] * Fit[i][set[disp[i]]]

(* A static task keeps the first of its fastest programs, and best_ct is   *)
(* the trial that found it, counted over all tasks that share the measurer.*)
StaticBestIsFirstFastest ==
  \A key \in Keys \ DynKeys :
    IF key \notin has_valid
    THEN best_states[key] = << >> /\ \A r \in MeasuredFor(key) : r.flops = 0
    ELSE LET n == best_ct[key] + 1
         IN  /\ n \in DOMAIN measured /\ measured[n].key = key
             /\ best_score[key] = measured[n].flops
             /\ best_states[key] = <<measured[n].program>>
             /\ \A h \in DOMAIN measured : measured[h].key = key =>
                  /\ measured[h].flops <= measured[n].flops
                  /\ h < n => measured[h].flops < measured[n].flops
=============================================================================
