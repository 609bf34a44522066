----------------------------- MODULE SketchSearch -----------------------------
(***************************************************************************)
(* SketchPolicyNode as a client of the measurer (sketch_policy.cc): the    *)
(* states it has measured, which of the found states it measures next, the *)
(* loop of Search with its ways to stop, and what AutoSchedule returns.    *)
(*                                                                         *)
(* The evolutionary search is the environment: a round finds any distinct  *)
(* states that were not measured yet, best first, and any random states.   *)
(* The measurer appears as the part of ProgramMeasurer that Search reads.  *)
(* A throughput is a small natural, 0 for a failed measurement, which the  *)
(* program counts as 1e-10, less than any other.                           *)
(***************************************************************************)
EXTENDS Dispatch, Sequences, Functions

CONSTANTS
  Programs,       \* the states of the search space, up to ToStr()
  Kinds,          \* is the task dynamic: both, or one of the two
  Insts,          \* workload instances of the dynamic task
  Fit,            \* [Insts -> [Programs -> Nat]]: AdaptStateToWorkload
  MaxSpeed,       \* bound on throughputs
  MaxNumStates,   \* max_num_states_ of the dispatcher
  Callers,        \* "AutoSchedule" and / or "TaskScheduler"
  TrialCounts,    \* values of n_trials AutoSchedule may be called with
  PerIter,        \* num_measure_per_iter
  NumRandom,      \* eps_greedy * num_measure_per_iter
  EmptyRetries,   \* retry_search_one_round_on_empty
  EarlyStopping   \* early_stopping (larger than any n_trials: never)

ASSUME SearchAssumption ==
  /\ IsFiniteSet(Programs) /\ Programs # {}
  /\ Kinds \subseteq BOOLEAN /\ IsFiniteSet(Insts) /\ Insts # {}
  /\ Fit \in [Insts -> [Programs -> Nat]]
  /\ MaxSpeed \in Nat \ {0} /\ MaxNumStates \in Nat \ {0}
  /\ TrialCounts \subseteq Nat
  /\ PerIter \in Nat \ {0} /\ NumRandom \in 0 .. PerIter
  /\ EmptyRetries \in Nat /\ EarlyStopping \in Nat

Speeds == 0 .. MaxSpeed

VARIABLES
  pc,
  caller, dyn,                  \* dyn: IsDynTask(search_task)
  n_trials, ct, empty_retry_count,
  inputs,                       \* states handed to the measurer
  measured_states_set,
  measured_states_vector, measured_states_throughputs,
  best_states, best_score, best_ct, has_valid,   \* the measurer's, for this task
  answer,                       \* [states, disp] that the caller receives
  known                         \* what was loaded or measured, in order (history)

memory == <<measured_states_set, measured_states_vector, measured_states_throughputs>>
measurer == <<best_states, best_score, best_ct, has_valid>>
vars == <<pc, caller, dyn, n_trials, ct, empty_retry_count, inputs, memory, measurer,
          answer, known>>

NoAnswer == [states |-> << >>, disp |-> << >>]

Init ==
  /\ pc = "construct"
  /\ caller \in Callers /\ dyn \in Kinds
  /\ n_trials = 0 /\ ct = 0 /\ empty_retry_count = EmptyRetries
  /\ inputs = << >>
  /\ measured_states_set = {}
  /\ measured_states_vector = << >> /\ measured_states_throughputs = << >>
  /\ best_states = << >> /\ best_score = 0 /\ best_ct = 0 /\ has_valid = FALSE
  /\ answer = NoAnswer
  /\ known = << >>

-----------------------------------------------------------------------------
Record(s, speed) == [program |-> s, speed |-> speed]

(* Mutant of Preload: a failed record enters the vector without throughput. *)
PreloadFailedToo(s, speed) ==
  /\ pc = "construct" /\ ~dyn
  /\ s \notin measured_states_set
  /\ measured_states_set' = measured_states_set \cup {s}
  /\ measured_states_vector' = Append(measured_states_vector, s)
  /\ measured_states_throughputs' =
       IF speed # 0 THEN Append(measured_states_throughputs, speed)
       ELSE measured_states_throughputs
  /\ known' = Append(known, Record(s, speed))
  /\ UNCHANGED <<pc, caller, dyn, n_trials, ct, empty_retry_count, inputs, measurer, answer>>

(* PreloadMeasuredStates, one record of the log.  A record of a state seen *)
(* before is ignored.  The log of a dynamic task holds dispatchers, which  *)
(* are not loaded here.                                                    *)
Preload(s, speed) ==
  /\ pc = "construct" /\ ~dyn
  /\ s \notin measured_states_set
  /\ measured_states_set' = measured_states_set \cup {s}
  /\ IF speed # 0
     THEN /\ measured_states_vector' = Append(measured_states_vector, s)
          /\ measured_states_throughputs' = Append(measured_states_throughputs, speed)
     ELSE UNCHANGED <<measured_states_vector, measured_states_throughputs>>
  /\ known' = Append(known, Record(s, speed))
  /\ UNCHANGED <<pc, caller, dyn, n_trials, ct, empty_retry_count, inputs, measurer, answer>>

Construct ==
  /\ pc = "construct"
  /\ pc' = "idle"
  /\ UNCHANGED <<caller, dyn, n_trials, ct, empty_retry_count, inputs, memory, measurer,
                 answer, known>>

-----------------------------------------------------------------------------
(* What a search round may find. *)
BestFound ==
  UNION {Injection(1 .. n, Programs \ measured_states_set) : n \in 0 .. 2 * PerIter}
RandomFound == [1 .. 3 * NumRandom -> Programs]

NumGood == PerIter - NumRandom

Quota(room) == IF room < PerIter THEN room ELSE PerIter

(* PickStatesWithEpsGreedy: the states to measure, at most room of them.   *)
(* The first NumGood places prefer best states, the others random ones.    *)
(* (The singleton set makes TLC compute pick[j - 1] once.)                 *)
Pick(best, random, room) ==
  LET Step(p) ==
        LET fromBest == p.b < Len(best) /\ (Len(p.inputs) < NumGood \/ p.r = Len(random))
            s == IF fromBest THEN best[p.b + 1] ELSE random[p.r + 1]
        IN  [b |-> IF fromBest THEN p.b + 1 ELSE p.b,
             r |-> IF fromBest THEN p.r ELSE p.r + 1,
             inputs |-> IF s \in measured_states_set \cup Range(p.inputs)
                        THEN p.inputs ELSE Append(p.inputs, s)]
      pick[j \in 0 .. Len(best) + Len(random)] ==
        IF j = 0 THEN [b |-> 0, r |-> 0, inputs |-> << >>]
        ELSE CHOOSE next \in {IF Len(p.inputs) < Quota(room) THEN Step(p) ELSE p :
                                 p \in {pick[j - 1]}} : TRUE
  IN  pick[Len(best) + Len(random)].inputs

(* Mutant of Remember: the states are not listed as measured. *)
RememberUnlisted(picked) ==
  /\ inputs' = picked
  /\ measured_states_vector' = measured_states_vector \o picked
  /\ UNCHANGED <<measured_states_set, measured_states_throughputs>>

(* The picked states count as measured from here on. *)
Remember(picked) ==
  /\ inputs' = picked
  /\ measured_states_set' = measured_states_set \cup Range(picked)
  /\ measured_states_vector' = measured_states_vector \o picked
  /\ UNCHANGED measured_states_throughputs

(* Search with n_trials <= 1 measures nothing and answers its first find. *)
SearchUntuned(n, best) ==
  /\ pc = "idle" /\ caller = "AutoSchedule" /\ n <= 1
  /\ n_trials' = n
  /\ IF best = << >>
     THEN pc' = "crashed" /\ UNCHANGED answer       \* ICHECK_GT
     ELSE pc' = "returned" /\ answer' = [states |-> <<best[1]>>, disp |-> << >>]
  /\ UNCHANGED <<caller, dyn, ct, empty_retry_count, inputs, memory, measurer, known>>

(* Search, up to its loop: measurer->Reset(). *)
SearchTuned(n) ==
  /\ pc = "idle" /\ caller = "AutoSchedule" /\ n > 1
  /\ n_trials' = n /\ ct' = 0 /\ empty_retry_count' = EmptyRetries
  /\ best_states' = << >> /\ best_score' = 0 /\ best_ct' = 0 /\ has_valid' = FALSE
  /\ pc' = "search"
  /\ UNCHANGED <<caller, dyn, inputs, memory, answer, known>>

MoreTrials == ct < n_trials

(* Mutant of RetriesLeft: retries are not counted. *)
RetriesKept == empty_retry_count

RetriesLeft == empty_retry_count - 1

(* A round that finds nothing new: try again, or give up. *)
FindNone(best, random) ==
  /\ pc = "search" /\ MoreTrials
  /\ Pick(best, random, n_trials - ct) = << >>
  /\ inputs' = << >>
  /\ IF empty_retry_count > 0
     THEN empty_retry_count' = RetriesLeft /\ UNCHANGED pc
     ELSE pc' = "finish" /\ UNCHANGED empty_retry_count
  /\ UNCHANGED <<caller, dyn, n_trials, ct, memory, measurer, answer, known>>

Find(best, random) ==
  /\ pc = "search" /\ MoreTrials
  /\ LET picked == Pick(best, random, n_trials - ct)
     IN  picked # << >> /\ Remember(picked)
  /\ empty_retry_count' = EmptyRetries
  /\ pc' = "measure"
  /\ UNCHANGED <<caller, dyn, n_trials, ct, measurer, answer, known>>

(* ContinueSearchOneRound, up to the call of the measurer. *)
FindForRound(best, random) ==
  /\ pc = "idle" /\ caller = "TaskScheduler"
  /\ Remember(Pick(best, random, PerIter))
  /\ pc' = "measure"
  /\ UNCHANGED <<caller, dyn, n_trials, ct, empty_retry_count, measurer, answer, known>>

-----------------------------------------------------------------------------
(* The fastest state of a static task, first of its equals, and the trial  *)
(* that found it (see ProgramMeasurer).                                    *)
Top(speeds) ==
  LET top[j \in 0 .. Len(speeds)] ==
        IF j = 0 THEN [at |-> best_ct, score |-> best_score, states |-> best_states]
        ELSE IF speeds[j] > top[j - 1].score
        THEN [at |-> ct + j - 1, score |-> speeds[j], states |-> <<inputs[j]>>]
        ELSE top[j - 1]
  IN  top[Len(speeds)]

(* What the measurer remembers; of a dynamic task, nothing Search reads    *)
(* but has_valid.                                                          *)
Measured(speeds) ==
  /\ IF dyn THEN UNCHANGED <<best_states, best_score, best_ct>>
     ELSE /\ best_states' = Top(speeds).states
          /\ best_score' = Top(speeds).score
          /\ best_ct' = Top(speeds).at
  /\ has_valid' = (has_valid \/ \E j \in DOMAIN speeds : speeds[j] > 0)
  /\ known' = known \o [j \in DOMAIN speeds |-> Record(inputs[j], speeds[j])]

(* Mutant of StopEarly: one trial too soon. *)
StopEarlySoon == ct' - best_ct' >= EarlyStopping /\ has_valid'

StopEarly == ct' - best_ct' > EarlyStopping /\ has_valid'

(* The rest of an iteration of Search.  Stopping early skips the append.   *)
MeasureFound(speeds) ==
  /\ pc = "measure" /\ caller = "AutoSchedule"
  /\ Measured(speeds)
  /\ ct' = ct + Len(inputs)
  /\ IF StopEarly
     THEN pc' = "finish" /\ UNCHANGED measured_states_throughputs
     ELSE /\ pc' = "search"
          /\ measured_states_throughputs' = measured_states_throughputs \o speeds
  /\ UNCHANGED <<caller, dyn, n_trials, empty_retry_count, inputs, measured_states_set,
                 measured_states_vector, answer>>

(* The rest of ContinueSearchOneRound.  With nothing to measure, and no    *)
(* state of a dynamic task measured before, the dispatcher divides by 0.   *)
MeasureRound(speeds) ==
  /\ pc = "measure" /\ caller = "TaskScheduler"
  /\ IF dyn /\ known = << >> /\ inputs = << >>
     THEN pc' = "crashed" /\ UNCHANGED <<memory, measurer, known>>
     ELSE /\ pc' = "idle"
          /\ Measured(speeds)
          /\ measured_states_throughputs' = measured_states_throughputs \o speeds
          /\ UNCHANGED <<measured_states_set, measured_states_vector>>
  /\ UNCHANGED <<caller, dyn, n_trials, ct, empty_retry_count, inputs, answer>>

OutOfTrials ==
  /\ pc = "search" /\ ~MoreTrials
  /\ pc' = "finish"
  /\ UNCHANGED <<caller, dyn, n_trials, ct, empty_retry_count, inputs, memory, measurer,
                 answer, known>>

-----------------------------------------------------------------------------
(* Search returns the measurer's best; AutoSchedule checks that it is one. *)
AnswerStatic ==
  /\ pc = "finish" /\ ~dyn
  /\ IF Len(best_states) = 1
     THEN pc' = "returned" /\ answer' = [states |-> best_states, disp |-> << >>]
     ELSE pc' = "crashed" /\ UNCHANGED answer
  /\ UNCHANGED <<caller, dyn, n_trials, ct, empty_retry_count, inputs, memory, measurer,
                 known>>

Positions == DOMAIN measured_states_vector
Complete == Len(measured_states_throughputs) = Len(measured_states_vector)

(* With no state at all the dispatcher divides by zero; with throughputs   *)
(* missing the score matrix is indexed out of its bounds.                  *)
AnswerDynBadly ==
  /\ pc = "finish" /\ dyn
  /\ measured_states_vector = << >> \/ ~ Complete
  /\ pc' = IF measured_states_vector = << >> THEN "crashed" ELSE "undefined"
  /\ UNCHANGED <<caller, dyn, n_trials, ct, empty_retry_count, inputs, memory, measurer,
                 answer, known>>

Adapted ==
  [i \in Insts |-> [p \in Positions |->
     measured_states_throughputs[p] * Fit[i][measured_states_vector[p]]]]

(* Mutant of DispOver: the position among all measured states is returned. *)
DispOverRaw(disp, order) == disp

(* The position of every instance's state among the selected states. *)
DispOver(disp, order) == [i \in Insts |-> CHOOSE x \in DOMAIN order : order[x] = disp[i]]

(* The builder or the runner raises, out of Search or the round; or the    *)
(* builder does in the trial builds that follow the final dispatch.        *)
Throw ==
  /\ \/ pc = "measure" /\ inputs # << >>
     \/ pc = "finish" /\ dyn /\ measured_states_vector # << >> /\ Complete
  /\ pc' = "aborted"
  /\ UNCHANGED <<caller, dyn, n_trials, ct, empty_retry_count, inputs, memory, measurer,
                 answer, known>>

(* The final dispatch over everything measured, and the trial build of     *)
(* every instance.  A failed build changes nothing that is read again.     *)
AnswerDyn(disp, order) ==
  /\ pc = "finish" /\ dyn
  /\ measured_states_vector # << >> /\ Complete
  /\ disp \in DispatchOutcomes(Adapted, Positions, MaxNumStates)
  /\ order \in Bijection(1 .. Cardinality(Selected(disp)), Selected(disp))
  /\ answer' = [states |-> [x \in DOMAIN order |-> measured_states_vector[order[x]]],
                disp |-> DispOver(disp, order)]
  /\ pc' = "returned"
  /\ UNCHANGED <<caller, dyn, n_trials, ct, empty_retry_count, inputs, memory, measurer, known>>

Next ==
  \/ \E s \in Programs, speed \in Speeds : Preload(s, speed)
  \/ Construct
  \/ \E n \in TrialCounts, best \in BestFound : SearchUntuned(n, best)
  \/ \E n \in TrialCounts : SearchTuned(n)
  \/ \E best \in BestFound, random \in RandomFound :
       FindNone(best, random) \/ Find(best, random) \/ FindForRound(best, random)
  \/ \E speeds \in [DOMAIN inputs -> Speeds] : MeasureFound(speeds) \/ MeasureRound(speeds)
  \/ Throw
  \/ OutOfTrials
  \/ AnswerStatic
  \/ AnswerDynBadly
  \/ \E disp \in [Insts -> Positions] :
       \E order \in Bijection(1 .. Cardinality(Selected(disp)), Selected(disp)) :
         AnswerDyn(disp, order)

Spec == Init /\ [][Next]_vars

(* Search is a sequential loop that keeps running once it was called. *)
SearchStep == pc \notin {"construct", "idle"} /\ Next
FairSpec == Spec /\ WF_vars(SearchStep)

-----------------------------------------------------------------------------
TypeOK ==
  /\ pc \in {"construct", "idle", "search", "measure", "finish",
             "returned", "aborted", "crashed", "undefined"}
  /\ caller \in Callers
  /\ n_trials \in Nat /\ ct \in Nat /\ empty_retry_count \in 0 .. EmptyRetries
  /\ inputs \in Seq(Programs)
  /\ measured_states_set \subseteq Programs
  /\ measured_states_vector \in Seq(Programs)
  /\ measured_states_throughputs \in Seq(Speeds)
  /\ best_states \in Seq(Programs) /\ best_score \in Speeds /\ best_ct \in Nat
  /\ has_valid \in BOOLEAN
  /\ answer.states \in Seq(Programs)
  /\ known \in Seq([program : Programs, speed : Speeds])

KnownPrograms == [j \in DOMAIN known |-> known[j].program]

(* "make sure a measured state will never be measured again": no state is  *)
(* measured twice, nor measured after it was loaded from a log, although   *)
(* random states repeat and are drawn from measured ones too.              *)
NeverMeasuredTwice == IsInjective(KnownPrograms)

(* Between batches the two arrays are parallel: the throughput at a        *)
(* position is the one measured for, or loaded with, the state there.      *)
ThroughputsAligned ==
  pc \in {"idle", "search"} =>
    /\ Complete
    /\ \A p \in Positions :
         Record(measured_states_vector[p], measured_states_throughputs[p]) \in Range(known)

(* How fast instance i runs a measured state, a static task only measures. *)
Throughput(i, m) == IF dyn THEN m.speed * Fit[i][m.program] ELSE m.speed

(* The measured part of known is its last ct entries. *)
MeasuredLog(log, n) == SubSeq(log, Len(log) - n + 1, Len(log))

(* A measurement improves on the earlier ones if some workload instance    *)
(* would run faster.                                                       *)
Improves(log, j) ==
  \E i \in Insts : \A h \in 1 .. j - 1 : Throughput(i, log[h]) < Throughput(i, log[j])

StopIsJustified ==
  pc = "measure" /\ pc' = "finish" =>
    \A j \in ct' - EarlyStopping + 1 .. ct' : ~Improves(MeasuredLog(known', ct'), j)

(* "no performance improvement in the last N measurements": Search stops a *)
(* static task early only after as many measurements in vain.              *)
StaticStopJustified == [][~dyn => StopIsJustified]_vars

(* The same of every task. *)
EarlyStopJustified == [][StopIsJustified]_vars

(* What a search returns is the fastest state it measured: the one state of*)
(* a static task, and for a dynamic task with room for one state per       *)
(* instance the state every instance is dispatched to.                     *)
AnswerIsFastest ==
  pc = "returned" /\ n_trials > 1 /\ MaxNumStates >= Cardinality(Insts) =>
    LET log == MeasuredLog(known, ct)
    IN  \A i \in Insts :
          LET x == IF dyn THEN answer.disp[i] ELSE 1
          IN  /\ x \in DOMAIN answer.states
              /\ \E j \in DOMAIN log :
                   /\ log[j].program = answer.states[x]
                   /\ \A h \in DOMAIN log : Throughput(i, log[h]) <= Throughput(i, log[j])

(* Search returns, or fails, after boundedly many empty rounds.            *)
SearchEnds == pc = "search" ~> pc \in {"returned", "aborted", "crashed", "undefined"}
=============================================================================
