------------------------ MODULE ProgramMeasurerProofs ------------------------
(***************************************************************************)
(* What ProgramMeasurer keeps, for every number of tasks, programs and     *)
(* instances, every size of batch and every value a program may measure    *)
(* to: a static task the first of its fastest programs, a dynamic task a   *)
(* set of programs whose predictions are exact and, when the set may hold  *)
(* a program for each instance, the best of everything measured.           *)
(***************************************************************************)
EXTENDS ProgramMeasurer, DispatchProofs

-----------------------------------------------------------------------------
(* The functions that go over the results of a batch.                       *)

Bests == [score : Flops, states : Seq(Programs), at : Nat]

(* The results of a batch, of the programs at the head of the queue. *)
Batch(results) ==
  /\ results \in Seq(Flops) /\ Len(results) <= Len(queue) /\ queue \in Seq(Programs)

Before == [score |-> best_score[task], states |-> best_states[task], at |-> best_ct[task]]

Follows(b, results) ==
  /\ b \in [0 .. Len(results) -> Bests] /\ b[0] = Before
  /\ \A j \in 1 .. Len(results) :
       b[j] = IF Beats(results[j], b[j - 1].score)
              THEN [score |-> results[j], states |-> <<queue[j]>>, at |-> Trial(j)]
              ELSE b[j - 1]

LEMMA BestAfterIs ==
  ASSUME NEW results, Batch(results), Before \in Bests, ct \in Nat
  PROVE  \E b : Follows(b, results) /\ BestAfter(results) = b[Len(results)]
<1> DEFINE n == Len(results)
           New(j) == [score |-> results[j], states |-> <<queue[j]>>, at |-> Trial(j)]
           h == [p \in Bests \X (1 .. n) |->
                   IF Beats(results[p[2]], p[1].score) THEN New(p[2]) ELSE p[1]]
           Eq(b) == b = [j \in 0 .. n |->
                      IF j = 0 THEN Before
                      ELSE IF Beats(results[j], b[j - 1].score) THEN New(j) ELSE b[j - 1]]
           b == CHOOSE b : Eq(b)
<1>1. n \in Nat
  BY DEF Batch
<1>2. \A j \in 1 .. n : New(j) \in Bests
  <2> TAKE j \in 1 .. n
  <2>1. results[j] \in Flops /\ queue[j] \in Programs /\ Trial(j) \in Nat
    BY DEF Batch, Trial
  <2> QED
    BY <2>1 DEF Bests
<1> HIDE DEF New
<1>3. StepsTo(h, Bests, n)
  <2>1. ASSUME NEW p \in Bests \X (1 .. n)
        PROVE  (IF Beats(results[p[2]], p[1].score) THEN New(p[2]) ELSE p[1]) \in Bests
    BY <1>2
  <2> QED
    BY <2>1 DEF StepsTo
<1>4. PICK f : Tabulates(f, Bests, Before, h, n)
  <2> HIDE DEF h, n
  <2> QED
    BY <1>1, <1>3, BoundedRecursion
<1>5. f \in [0 .. n -> Bests]
  BY <1>4 DEF Tabulates
<1>6. \A j \in 1 .. n : j - 1 \in 0 .. n /\ j \in 0 .. n
  BY <1>1
<1>7. \A j \in 0 .. n : f[j] = IF j = 0 THEN Before
                      ELSE IF Beats(results[j], f[j - 1].score) THEN New(j) ELSE f[j - 1]
  <2> TAKE j \in 0 .. n
  <2>1. CASE j = 0
    BY <1>4, <2>1 DEF Tabulates
  <2>2. CASE j # 0
    <3>1. j \in 1 .. n /\ f[j - 1] \in Bests
      BY <1>1, <1>5, <1>6, <2>2
    <3>2. f[j] = h[<<f[j - 1], j>>]
      BY <1>4, <2>2 DEF Tabulates
    <3>3. h[<<f[j - 1], j>>] = IF Beats(results[j], f[j - 1].score) THEN New(j) ELSE f[j - 1]
      BY <3>1
    <3> QED
      BY <2>2, <3>2, <3>3
  <2> QED
    BY <2>1, <2>2
<1>8. Eq(f)
  BY <1>5, <1>7
<1>9. Eq(b)
  <2> HIDE DEF Eq
  <2> QED
    BY <1>8
<1>10. BestAfter(results) = b[n]
  BY DEF BestAfter, Before, New
<1> HIDE DEF b
<1>11. b[0] = Before /\ \A j \in 1 .. n : b[j] = IF Beats(results[j], b[j - 1].score) THEN New(j) ELSE b[j - 1]
  <2>1. 0 \in 0 .. n /\ \A j \in 1 .. n : j # 0
    BY <1>1
  <2> QED
    BY <1>6, <1>9, <2>1
<1>12. b \in [0 .. n -> Bests]
  <2> DEFINE P == {j \in Nat : b[j] \in Bests}
  <2>1. 0 \in P
    BY <1>11
  <2>2. ASSUME NEW j \in 0 .. n - 1, j \in P PROVE j + 1 \in P
    <3>1. j + 1 \in 1 .. n /\ (j + 1) - 1 = j /\ j + 1 \in Nat
      BY <1>1
    <3>2. b[j + 1] = IF Beats(results[j + 1], b[j].score) THEN New(j + 1) ELSE b[j]
      BY <1>11, <3>1
    <3> QED
      BY <1>2, <2>2, <3>1, <3>2
  <2> HIDE DEF P
  <2>3. 0 .. n \subseteq P
    BY <1>1, <2>1, <2>2, IntervalInduction
  <2>4. b = [j \in 0 .. n |-> b[j]]
    BY <1>9
  <2> QED
    BY <2>3, <2>4 DEF P
<1>13. Follows(b, results)
  BY <1>11, <1>12 DEF Follows, New
<1> QED
  BY <1>10, <1>13

LEMMA ErrorsTyped ==
  ASSUME NEW results, Batch(results), error_ct \in Nat
  PROVE  Errors(results) \in Nat
<1> DEFINE n == Len(results)
           h == [p \in Nat \X (1 .. n) |-> IF results[p[2]] = 0 THEN p[1] + 1 ELSE 0]
           Eq(e) == e = [j \in 0 .. n |->
                      IF j = 0 THEN error_ct ELSE IF results[j] = 0 THEN e[j - 1] + 1 ELSE 0]
           e == CHOOSE e : Eq(e)
<1>1. n \in Nat
  BY DEF Batch
<1>2. StepsTo(h, Nat, n)
  BY DEF StepsTo
<1>3. PICK f : Tabulates(f, Nat, error_ct, h, n)
  <2> HIDE DEF h, n
  <2> QED
    BY <1>1, <1>2, BoundedRecursion
<1>4. f \in [0 .. n -> Nat]
  BY <1>3 DEF Tabulates
<1>5. \A j \in 1 .. n : j - 1 \in 0 .. n /\ j \in 0 .. n
  BY <1>1
<1>6. \A j \in 0 .. n : f[j] = IF j = 0 THEN error_ct
                               ELSE IF results[j] = 0 THEN f[j - 1] + 1 ELSE 0
  <2> TAKE j \in 0 .. n
  <2>1. CASE j = 0
    BY <1>3, <2>1 DEF Tabulates
  <2>2. CASE j # 0
    <3>1. j \in 1 .. n /\ f[j - 1] \in Nat
      BY <1>1, <1>4, <1>5, <2>2
    <3>2. f[j] = h[<<f[j - 1], j>>]
      BY <1>3, <2>2 DEF Tabulates
    <3>3. h[<<f[j - 1], j>>] = IF results[j] = 0 THEN f[j - 1] + 1 ELSE 0
      BY <3>1
    <3> QED
      BY <2>2, <3>2, <3>3
  <2> QED
    BY <2>1, <2>2
<1>7. Eq(f)
  BY <1>4, <1>6
<1>8. Eq(e)
  <2> HIDE DEF Eq
  <2> QED
    BY <1>7
<1>9. Errors(results) = e[n]
  BY DEF Errors
<1> HIDE DEF e
<1>10. e[0] = error_ct /\ \A j \in 1 .. n : e[j] = IF results[j] = 0 THEN e[j - 1] + 1 ELSE 0
  <2>1. 0 \in 0 .. n /\ \A j \in 1 .. n : j # 0
    BY <1>1
  <2> QED
    BY <1>5, <1>8, <2>1
<1> DEFINE P == {j \in Nat : e[j] \in Nat}
<1>11. 0 \in P
  BY <1>10
<1>12. ASSUME NEW j \in 0 .. n - 1, j \in P PROVE j + 1 \in P
  <2>1. j + 1 \in 1 .. n /\ (j + 1) - 1 = j /\ j + 1 \in Nat
    BY <1>1
  <2>2. e[j + 1] = IF results[j + 1] = 0 THEN e[j] + 1 ELSE 0
    BY <1>10, <2>1
  <2> QED
    BY <1>12, <2>1, <2>2
<1> HIDE DEF P
<1>13. n \in P
  <2>1. 0 .. n \subseteq P
    BY <1>1, <1>11, <1>12, IntervalInduction
  <2> QED
    BY <1>1, <2>1
<1> QED
  BY <1>9, <1>13 DEF P

-----------------------------------------------------------------------------
(* best is the first fastest of the entries 1 .. n of a log that are about *)
(* key, or says that all of them failed.                                   *)
FirstFastest(key, best, log, n) ==
  \/ /\ best.score = 0 /\ best.states = << >>
     /\ \A h \in 1 .. n : log[h].key = key => log[h].flops = 0
  \/ LET m == best.at + 1
     IN  /\ best.score > 0 /\ m \in 1 .. n
         /\ log[m].key = key /\ best.score = log[m].flops
         /\ best.states = <<log[m].program>>
         /\ \A h \in 1 .. n : log[h].key = key =>
              log[h].flops <= best.score /\ (h < m => log[h].flops < best.score)

Entries == [key : Keys, program : Programs, flops : Flops]
NewEntry(results, j) == [key |-> task, program |-> queue[j], flops |-> results[j]]

(* log is measured, extended by the results. *)
Extends(log, results) ==
  /\ log \in Seq(Entries) /\ Len(log) = ct + Len(results)
  /\ \A h \in 1 .. ct : log[h] = measured[h]
  /\ \A j \in 1 .. Len(results) : log[ct + j] = NewEntry(results, j)

LEMMA FirstFastestNext ==
  ASSUME NEW results, Batch(results), Before \in Bests, ct \in Nat, task \in Keys,
         NEW log, Extends(log, results), NEW b, Follows(b, results),
         NEW j \in 1 .. Len(results), FirstFastest(task, b[j - 1], log, ct + j - 1)
  PROVE  FirstFastest(task, b[j], log, ct + j)
<1> DEFINE N == ct + j
           old == b[j - 1]
           e == log[N]
<1>1. /\ N \in Nat /\ N > 0 /\ ct + j - 1 = N - 1 /\ j \in Nat /\ j - 1 \in 0 .. Len(results)
      /\ Len(results) \in Nat
  BY DEF Batch
<1>2. /\ e = NewEntry(results, j) /\ e.key = task /\ e.flops = results[j]
      /\ e.program = queue[j] /\ results[j] \in Nat
  <2>1. e = NewEntry(results, j)
    BY DEF Extends
  <2>2. results[j] \in Flops
    BY DEF Batch
  <2> QED
    BY <2>1, <2>2, MeasurerAssumption DEF NewEntry, Flops
<1>3. old.score \in Nat /\ old.at \in Nat
  <2>1. b[j - 1] \in Bests
    BY <1>1 DEF Follows
  <2> QED
    BY <2>1, MeasurerAssumption DEF Bests, Flops
<1>4. FirstFastest(task, old, log, N - 1)
  BY <1>1
<1>5. \A h \in 1 .. N : h = N \/ h \in 1 .. N - 1
  BY <1>1
<1>6. \A h \in 1 .. N : log[h].flops \in Nat
  <2>1. \A h \in 1 .. N : log[h] \in Entries
    BY <1>1 DEF Extends
  <2> QED
    BY <2>1 DEF Entries, Flops
<1>7. b[j] = IF results[j] > old.score
             THEN [score |-> results[j], states |-> <<queue[j]>>, at |-> ct + j - 1] ELSE old
  BY DEF Follows, Beats, Trial
<1> HIDE DEF e, old, N
<1>8. CASE results[j] > old.score
  <2> DEFINE new == [score |-> results[j], states |-> <<queue[j]>>, at |-> ct + j - 1]
  <2>1. new.at + 1 = N /\ new.score = results[j] /\ new.states = <<queue[j]>>
    BY <1>1
  <2>2. b[j] = new
    BY <1>7, <1>8
  <2>3. \A h \in 1 .. N - 1 : log[h].key = task => log[h].flops <= old.score
    <3> TAKE h \in 1 .. N - 1
    <3>1. log[h].flops \in Nat
      BY <1>1, <1>6
    <3> QED
      BY <1>3, <1>4, <3>1 DEF FirstFastest
  <2> HIDE DEF new
  <2>4. /\ new.score > 0 /\ N \in 1 .. N
        /\ log[N].key = task /\ new.score = log[N].flops /\ new.states = <<log[N].program>>
    BY <1>1, <1>2, <1>3, <1>8, <2>1 DEF e
  <2>5. ASSUME NEW h \in 1 .. N, log[h].key = task
        PROVE  log[h].flops <= new.score /\ (h < N => log[h].flops < new.score)
    <3>1. CASE h = N
      BY <1>1, <1>2, <2>1, <3>1 DEF e
    <3>2. CASE h \in 1 .. N - 1
      <4>1. log[h].flops <= old.score /\ log[h].flops \in Nat
        BY <1>6, <2>3, <2>5, <3>2
      <4> QED
        BY <1>2, <1>3, <1>8, <2>1, <4>1
    <3> QED
      BY <1>5, <3>1, <3>2
  <2>6. FirstFastest(task, new, log, N)
    BY <2>1, <2>4, <2>5 DEF FirstFastest
  <2> QED
    BY <2>2, <2>6 DEF N
<1>9. CASE ~ (results[j] > old.score)
  <2>1. b[j] = old /\ results[j] <= old.score
    BY <1>2, <1>3, <1>7, <1>9
  <2>2. CASE /\ old.score = 0 /\ old.states = << >>
             /\ \A h \in 1 .. N - 1 : log[h].key = task => log[h].flops = 0
    <3>1. log[N].flops = 0
      BY <1>2, <2>1, <2>2 DEF e
    <3>2. FirstFastest(task, old, log, N)
      BY <1>5, <2>2, <3>1 DEF FirstFastest
    <3> QED
      BY <2>1, <3>2 DEF N
  <2>3. ASSUME NEW m, m = old.at + 1,
               old.score > 0 /\ m \in 1 .. N - 1,
               log[m].key = task /\ old.score = log[m].flops /\ old.states = <<log[m].program>>,
               \A h \in 1 .. N - 1 : log[h].key = task =>
                 log[h].flops <= old.score /\ (h < m => log[h].flops < old.score)
        PROVE  FirstFastest(task, old, log, N)
    <3>1. m \in 1 .. N /\ ~ (N < m)
      BY <1>1, <2>3
    <3>2. log[N].flops <= old.score
      BY <1>2, <2>1 DEF e
    <3>3. \A h \in 1 .. N : log[h].key = task =>
                 log[h].flops <= old.score /\ (h < m => log[h].flops < old.score)
      BY <1>5, <2>3, <3>1, <3>2
    <3> QED
      BY <2>3, <3>1, <3>3 DEF FirstFastest
  <2> QED
    BY <1>4, <2>1, <2>2, <2>3 DEF FirstFastest, N
<1> QED
  BY <1>8, <1>9

-----------------------------------------------------------------------------
(* The inductive invariant.                                                 *)

Fails(key, n) == \A h \in 1 .. n : measured[h].key = key => measured[h].flops = 0

(* What a static task keeps is the first fastest of its programs. *)
Stored(key) == [score |-> best_score[key], states |-> best_states[key], at |-> best_ct[key]]
StaticKept ==
  /\ Len(measured) = ct
  /\ \A key \in Keys \ DynKeys :
       /\ FirstFastest(key, Stored(key), measured, ct)
       /\ key \notin has_valid <=> Fails(key, ct)

Entry(key, c) == [key |-> key, program |-> c.program, flops |-> c.flops]
Speed(i, c) == c.flops * Fit[i][c.program]

(* The best set of a dynamic task that is not being measured. *)
SetRecorded(key) ==
  /\ Len(best_state_flops[key]) = Len(best_states[key])
  /\ \A p \in DOMAIN best_states[key] :
       Entry(key, Carried(key)[p]) \in Range(measured)
SetServes(key) ==
  best_inst_flops[key] # Absent =>
    /\ DOMAIN best_inst_disp_map[key] = Insts
    /\ Range(best_inst_disp_map[key]) = DOMAIN best_states[key]
    /\ \A i \in Insts :
         best_inst_flops[key][i] = Speed(i, Carried(key)[best_inst_disp_map[key][i]])
SetIsBest(key) ==
  \A i \in Insts, r \in MeasuredFor(key) :
    /\ best_inst_flops[key] # Absent
    /\ NoDegradationPossible => Speed(i, r) <= best_inst_flops[key][i]

(* The candidates of the dynamic task that is being measured: they were    *)
(* all measured, the previous predictions are among them, and so are, for  *)
(* every instance, programs as fast as any measured before.                *)
CandidatesRecorded == \A p \in Positions : Entry(task, candidates[p]) \in Range(measured)
CandidatesKeep(i) ==
  /\ best_inst_flops[task] # Absent =>
       \E p \in Positions : Speed(i, candidates[p]) = best_inst_flops[task][i]
  /\ NoDegradationPossible =>
       \A r \in MeasuredFor(task) : \E p \in Positions : Speed(i, r) <= Speed(i, candidates[p])

AtRest(key) == pc = "idle" \/ (pc = "measuring" /\ key # task)
Resting == \A key \in DynKeys : AtRest(key) => SetRecorded(key) /\ SetServes(key) /\ SetIsBest(key)
Competing ==
  pc = "measuring" /\ task \in DynKeys => CandidatesRecorded /\ \A i \in Insts : CandidatesKeep(i)

MeasurerInv == TypeOK /\ StaticKept /\ Resting /\ Competing /\ PredictionsNeverDrop

-----------------------------------------------------------------------------
(* Types.                                                                   *)

Measurable == [program : Programs, flops : Flops]

LEMMA PairsTyped ==
  ASSUME NEW n \in Nat, NEW programs \in [1 .. n -> Programs], NEW flops \in [1 .. n -> Flops]
  PROVE  /\ Pairs(programs, flops) \in [1 .. n -> Measurable]
         /\ Pairs(programs, flops) \in Seq(Measurable)
         /\ Len(Pairs(programs, flops)) = n
<1>1. Pairs(programs, flops) \in [1 .. n -> Measurable]
  BY DEF Pairs, Measurable
<1> HIDE DEF Measurable
<1> QED
  BY <1>1

LEMMA ProductTyped ==
  ASSUME NEW i \in Insts, NEW p \in Programs, NEW f \in Flops
  PROVE  f * Fit[i][p] \in Nat
<1>1. f \in Nat /\ Fit[i][p] \in Nat
  BY MeasurerAssumption DEF Flops
<1>2. \A a, b \in Nat : a * b \in Nat
  OBVIOUS
<1> QED
  BY <1>1, <1>2

LEMMA SpeedTyped ==
  ASSUME NEW i \in Insts, NEW c \in Measurable
  PROVE  c.flops * Fit[i][c.program] \in Nat
BY ProductTyped DEF Measurable

(* What RunBatch computes from the results of a batch.                      *)
BatchFacts(results) ==
  /\ Batch(results) /\ Len(results) = BatchLen /\ BatchLen \in 1 .. Len(queue)
  /\ DOMAIN results = 1 .. BatchLen
  /\ Before \in Bests
  /\ \E b : Follows(b, results) /\ BestAfter(results) = b[BatchLen]
  /\ BestAfter(results) \in Bests
  /\ Errors(results) \in Nat

LEMMA BatchIs ==
  ASSUME TypeOK, NEW results \in [1 .. BatchLen -> Flops], RunBatch(results)
  PROVE  BatchFacts(results)
<1>1. queue \in Seq(Programs) /\ queue # << >> /\ Len(queue) \in Nat \ {0}
  BY DEF TypeOK, RunBatch
<1>2. BatchLen \in 1 .. Len(queue)
  BY <1>1, MeasurerAssumption DEF BatchLen
<1>3. results \in Seq(Flops) /\ Len(results) = BatchLen /\ DOMAIN results = 1 .. BatchLen
  BY <1>1, <1>2
<1>4. Batch(results)
  BY <1>1, <1>2, <1>3 DEF Batch
<1>5. Before \in Bests /\ ct \in Nat /\ error_ct \in Nat
  <2>1. /\ best_score[task] \in Flops /\ best_states[task] \in Seq(Programs)
        /\ best_ct[task] \in Nat /\ ct \in Nat /\ error_ct \in Nat
    BY DEF TypeOK
  <2> QED
    BY <2>1 DEF Before, Bests
<1>6. PICK b : Follows(b, results) /\ BestAfter(results) = b[BatchLen]
  BY <1>3, <1>4, <1>5, BestAfterIs
<1>7. b[BatchLen] \in Bests
  BY <1>1, <1>2, <1>3, <1>6 DEF Follows
<1> QED
  BY <1>2, <1>3, <1>4, <1>5, <1>6, <1>7, ErrorsTyped DEF BatchFacts

LEMMA DoneTyped ==
  ASSUME TypeOK, NEW results, BatchFacts(results)
  PROVE  /\ Pairs(SubSeq(queue, 1, Len(results)), results) \in [1 .. BatchLen -> Measurable]
         /\ Pairs(SubSeq(queue, 1, Len(results)), results) \in Seq(Measurable)
         /\ Len(Pairs(SubSeq(queue, 1, Len(results)), results)) = BatchLen
         /\ \A j \in 1 .. BatchLen : SubSeq(queue, 1, Len(results))[j] = queue[j]
<1>1. queue \in Seq(Programs) /\ BatchLen \in Nat /\ Len(results) = BatchLen /\ Len(queue) \in Nat
      /\ BatchLen <= Len(queue) /\ results \in [1 .. BatchLen -> Flops]
  BY DEF BatchFacts, Batch
<1>2. /\ SubSeq(queue, 1, BatchLen) \in [1 .. BatchLen -> Programs]
      /\ \A j \in 1 .. BatchLen : SubSeq(queue, 1, BatchLen)[j] = queue[j]
  <2>1. SubSeq(queue, 1, BatchLen) = [j \in 1 .. BatchLen |-> queue[1 + j - 1]]
    BY <1>1
  <2>2. \A j \in 1 .. BatchLen : 1 + j - 1 = j /\ j \in 1 .. Len(queue)
    BY <1>1
  <2>3. \A j \in 1 .. Len(queue) : queue[j] \in Programs
    BY <1>1
  <2> QED
    BY <2>1, <2>2, <2>3
<1> QED
  BY <1>1, <1>2, PairsTyped

LEMMA LogTyped ==
  ASSUME TypeOK, NEW results, BatchFacts(results)
  PROVE  LET new == [j \in DOMAIN results |-> NewEntry(results, j)]
         IN  new \in Seq(Entries) /\ Len(new) = BatchLen
<1>1. queue \in Seq(Programs) /\ BatchLen \in Nat /\ Len(queue) \in Nat /\ task \in Keys
      /\ BatchLen <= Len(queue) /\ results \in [1 .. BatchLen -> Flops] /\ DOMAIN results = 1 .. BatchLen
  BY DEF BatchFacts, Batch, TypeOK
<1>2. \A j \in 1 .. BatchLen : NewEntry(results, j) \in Entries
  BY <1>1 DEF NewEntry, Entries
<1> HIDE DEF Entries
<1>3. [j \in 1 .. BatchLen |-> NewEntry(results, j)] \in [1 .. BatchLen -> Entries]
  BY <1>2
<1> QED
  BY <1>1, <1>3

LEMMA TypesStart ==
  ASSUME TypeOK, Resting, NEW key \in Keys, NEW inputs \in Inputs, StartMeasure(key, inputs)
  PROVE  TypeOK'
<1>1. queue' \in Seq(Programs)
  <2>1. PICK n \in 0 .. MaxInputs : inputs \in [1 .. n -> Programs]
    BY DEF Inputs
  <2> QED
    BY <2>1, MeasurerAssumption DEF StartMeasure
<1>2. candidates' \in Seq(Measurable)
  <2>1. candidates' = Carried(key)
    BY DEF StartMeasure
  <2>2. CASE key \in DynKeys
    <3>1. best_states[key] \in Seq(Programs) /\ best_state_flops[key] \in Seq(Flops)
      BY DEF TypeOK
    <3>2. Len(best_state_flops[key]) = Len(best_states[key])
      BY <2>2 DEF Resting, AtRest, SetRecorded, StartMeasure
    <3>3. PICK n \in Nat : n = Len(best_states[key])
      BY <3>1
    <3>4. best_states[key] \in [1 .. n -> Programs] /\ best_state_flops[key] \in [1 .. n -> Flops]
      BY <3>1, <3>2, <3>3
    <3> QED
      BY <2>1, <2>2, <3>4, PairsTyped DEF Carried
  <2>3. CASE key \notin DynKeys
    BY <2>1, <2>3 DEF Carried
  <2> QED
    BY <2>2, <2>3
<1>3. best_states' \in [Keys -> Seq(Programs)] /\ best_state_flops' \in [Keys -> Seq(Flops)]
  <2>1. ASSUME NEW S, NEW best \in [Keys -> Seq(S)] PROVE MovedOut(best, key) \in [Keys -> Seq(S)]
    <3>1. << >> \in Seq(S)
      OBVIOUS
    <3> QED
      BY <3>1 DEF MovedOut
  <2>2. best_states \in [Keys -> Seq(Programs)] /\ best_state_flops \in [Keys -> Seq(Flops)]
    BY DEF TypeOK
  <2> QED
    BY <2>1, <2>2 DEF StartMeasure
<1>4. pc' = "measuring" /\ task' \in Keys /\ old_verbosity' \in 0 .. 2
  BY DEF TypeOK, StartMeasure
<1>5. UNCHANGED <<totals, staticBest, best_inst_disp_map, best_inst_flops, measured>>
  BY DEF StartMeasure
<1> QED
  BY <1>1, <1>2, <1>3, <1>4, <1>5 DEF TypeOK, totals, staticBest, dynBest, Measurable

LEMMA TypesBatch ==
  ASSUME TypeOK, NEW results \in [1 .. BatchLen -> Flops], RunBatch(results)
  PROVE  TypeOK'
<1>0. BatchFacts(results)
  BY BatchIs
<1>1. queue' \in Seq(Programs)
  <2>1. queue \in Seq(Programs) /\ BatchLen \in 1 .. Len(queue) /\ Len(queue) \in Nat
    BY <1>0 DEF TypeOK, BatchFacts
  <2>2. queue' = SubSeq(queue, BatchLen + 1, Len(queue))
    BY DEF RunBatch
  <2> QED
    BY <2>1, <2>2
<1>2. ct' \in Nat /\ error_ct' \in Nat /\ verbose' \in 0 .. 2
  <2>1. BatchLen \in Nat /\ ct \in Nat /\ Errors(results) \in Nat /\ old_verbosity \in 0 .. 2
    BY <1>0 DEF TypeOK, BatchFacts
  <2>2. ct' = ct + BatchLen /\ error_ct' = Errors(results)
        /\ verbose' = IF error_ct' > MaxError THEN 2 ELSE old_verbosity
    BY DEF RunBatch
  <2> QED
    BY <2>1, <2>2
<1>3. has_valid' \subseteq Keys
  BY DEF RunBatch, ValidKeys, TypeOK
<1>4. measured' \in Seq(Entries)
  <2>1. measured \in Seq(Entries)
    BY DEF TypeOK, Entries
  <2>2. measured' = measured \o [j \in DOMAIN results |-> NewEntry(results, j)]
    BY DEF RunBatch, NewEntry
  <2> QED
    BY <1>0, <2>1, <2>2, LogTyped, Joined
<1>5. candidates' \in Seq(Measurable)
  <2>1. candidates \in Seq(Measurable)
    BY DEF TypeOK, Measurable
  <2>2. PICK done : done = Pairs(SubSeq(queue, 1, Len(results)), results)
    OBVIOUS
  <2>3. candidates' = candidates \/ candidates' = candidates \o done
    BY <2>2 DEF RunBatch
  <2>4. done \in Seq(Measurable)
    BY <1>0, <2>2, DoneTyped
  <2>5. candidates \o done \in Seq(Measurable)
    BY <2>1, <2>4, Joined
  <2> QED
    BY <2>1, <2>3, <2>5
<1>6. /\ best_score' \in [Keys -> Flops] /\ best_ct' \in [Keys -> Nat]
      /\ best_states' \in [Keys -> Seq(Programs)]
  <2>1. BestAfter(results) \in Bests
    BY <1>0 DEF BatchFacts
  <2>2. PICK best \in Bests : best = BestAfter(results)
    BY <2>1
  <2>3. best.score \in Flops /\ best.states \in Seq(Programs) /\ best.at \in Nat
    BY DEF Bests
  <2>4. \/ UNCHANGED <<best_score, best_ct, best_states>>
        \/ /\ best_score' = [best_score EXCEPT ![task] = best.score]
           /\ best_states' = [best_states EXCEPT ![task] = best.states]
           /\ best_ct' = [best_ct EXCEPT ![task] = best.at]
    BY <2>2 DEF RunBatch
  <2>5. best_score \in [Keys -> Flops] /\ best_ct \in [Keys -> Nat]
        /\ best_states \in [Keys -> Seq(Programs)]
    BY DEF TypeOK
  <2> QED
    BY <2>3, <2>4, <2>5
<1>7. UNCHANGED <<pc, task, old_verbosity, dynBest>>
  BY DEF RunBatch
<1> QED
  BY <1>1, <1>2, <1>3, <1>4, <1>5, <1>6, <1>7 DEF TypeOK, dynBest, Measurable, Entries

(* The compacted list: the selected candidates in some order, and the      *)
(* dispatch map by positions in it.                                        *)
Compacts(disp, order, n) ==
  /\ n \in Nat /\ DOMAIN order = 1 .. n
  /\ \A x \in 1 .. n : order[x] \in Positions
  /\ \A i \in Insts : /\ Renumbered(disp, order)[i] \in 1 .. n
                       /\ order[Renumbered(disp, order)[i]] = disp[i]
  /\ DOMAIN Renumbered(disp, order) = Insts
  /\ Range(Renumbered(disp, order)) = 1 .. n

LEMMA OrderCompacts ==
  ASSUME NEW disp \in [Insts -> Positions], NEW order \in Orders(disp)
  PROVE  \E n : Compacts(disp, order, n)
<1>1. DOMAIN disp = Insts /\ IsFiniteSet(Insts) /\ \A i \in Insts : disp[i] \in Positions
  BY MeasurerAssumption
<1>2. PICK n : Lists(order, disp, n)
  BY <1>1, OrderLists
<1>3. Renumbered(disp, order) = PlaceOf(disp, order)
  BY <1>1 DEF Renumbered, PlaceOf
<1> QED
  BY <1>1, <1>2, <1>3 DEF Lists, Compacts

(* What was predicted for each instance, and what is kept of the set.      *)
Predicted(disp) == [i \in Insts |-> Adapted[i][disp[i]]]
KeptPrograms(order) == [x \in DOMAIN order |-> candidates[order[x]].program]
KeptFlops(order) == [x \in DOMAIN order |-> candidates[order[x]].flops]

LEMMA KeptTyped ==
  ASSUME TypeOK, NEW disp \in [Insts -> Positions], NEW order, NEW n, Compacts(disp, order, n)
  PROVE  /\ \A p \in Positions : candidates[p] \in Measurable
         /\ \A i \in Insts : Predicted(disp)[i] = Speed(i, candidates[disp[i]])
         /\ Predicted(disp) \in [Insts -> Nat]
         /\ KeptPrograms(order) \in Seq(Programs) /\ Len(KeptPrograms(order)) = n
         /\ KeptFlops(order) \in Seq(Flops) /\ Len(KeptFlops(order)) = n
         /\ Renumbered(disp, order) \in [Insts -> Nat]
<1>1. \A p \in Positions : candidates[p] \in Measurable
  <2>1. candidates \in Seq(Measurable)
    BY DEF TypeOK, Measurable
  <2> HIDE DEF Measurable
  <2> QED
    BY <2>1 DEF Positions
<1>2. \A p \in Positions : candidates[p].program \in Programs /\ candidates[p].flops \in Flops
  BY <1>1 DEF Measurable
<1>3. \A i \in Insts : Predicted(disp)[i] = Speed(i, candidates[disp[i]])
  BY DEF Predicted, Adapted, Speed
<1>4. \A i \in Insts : Speed(i, candidates[disp[i]]) \in Nat
  BY <1>1, SpeedTyped DEF Speed
<1>5. Predicted(disp) \in [Insts -> Nat]
  <2>1. Predicted(disp) = [i \in Insts |-> Predicted(disp)[i]]
    BY DEF Predicted
  <2> QED
    BY <1>3, <1>4, <2>1
<1>6. KeptPrograms(order) \in Seq(Programs) /\ Len(KeptPrograms(order)) = n
  <2>1. KeptPrograms(order) \in [1 .. n -> Programs]
    BY <1>2 DEF Compacts, KeptPrograms
  <2>2. n \in Nat
    BY DEF Compacts
  <2> QED
    BY <2>1, <2>2
<1>7. KeptFlops(order) \in Seq(Flops) /\ Len(KeptFlops(order)) = n
  <2>1. KeptFlops(order) \in [1 .. n -> Flops]
    BY <1>2 DEF Compacts, KeptFlops
  <2>2. n \in Nat
    BY DEF Compacts
  <2> QED
    BY <2>1, <2>2
<1>8. Renumbered(disp, order) \in [Insts -> Nat]
  <2>1. Renumbered(disp, order) = [i \in Insts |-> Renumbered(disp, order)[i]]
    BY DEF Renumbered
  <2>2. \A i \in Insts : Renumbered(disp, order)[i] \in Nat
    BY DEF Compacts
  <2> QED
    BY <2>1, <2>2
<1> QED
  BY <1>1, <1>3, <1>5, <1>6, <1>7, <1>8

(* The two ways in which Redispatch ends. *)
Rejects(disp) ==
  /\ Degrades(Predicted(disp)) /\ pc' = "fatal"
  /\ best_inst_flops' = [best_inst_flops EXCEPT ![task] = Absent]
  /\ UNCHANGED <<best_states, best_state_flops, best_inst_disp_map>>
Installs(disp, order) ==
  /\ pc' = "idle"
  /\ best_states' = [best_states EXCEPT ![task] = KeptPrograms(order)]
  /\ best_state_flops' = [best_state_flops EXCEPT ![task] = KeptFlops(order)]
  /\ best_inst_disp_map' = [best_inst_disp_map EXCEPT ![task] = Renumbered(disp, order)]
  /\ best_inst_flops' = [best_inst_flops EXCEPT ![task] = Predicted(disp)]

LEMMA RedispatchIs ==
  ASSUME NEW disp, NEW order \in Orders(disp), Redispatch(disp, order)
  PROVE  /\ Rejects(disp) \/ Installs(disp, order)
         /\ pc = "measuring" /\ task \in DynKeys /\ candidates # << >>
         /\ disp \in DispatchOutcomes(Adapted, Positions, MaxNumStates)
         /\ UNCHANGED <<frame, totals, staticBest, measured>>
<1> DEFINE chosen == [x \in DOMAIN order |-> candidates[order[x]]]
<1>1. KeptPrograms(order) = [x \in DOMAIN order |-> chosen[x].program]
  BY DEF KeptPrograms
<1>2. KeptFlops(order) = [x \in DOMAIN order |-> chosen[x].flops]
  BY DEF KeptFlops
<1> HIDE DEF Orders
<1> QED
  BY <1>1, <1>2 DEF Redispatch, Rejects, Installs, Predicted

LEMMA TypesRedispatch ==
  ASSUME TypeOK, NEW disp \in [Insts -> Positions], NEW order \in Orders(disp),
         Redispatch(disp, order)
  PROVE  TypeOK'
<1>1. PICK n : Compacts(disp, order, n)
  BY OrderCompacts
<1>2. /\ KeptPrograms(order) \in Seq(Programs) /\ KeptFlops(order) \in Seq(Flops)
      /\ Renumbered(disp, order) \in [Insts -> Nat] /\ Predicted(disp) \in [Insts -> Nat]
  BY <1>1, KeptTyped
<1>3. Rejects(disp) \/ Installs(disp, order)
  BY RedispatchIs
<1>4. /\ best_states \in [Keys -> Seq(Programs)] /\ best_state_flops \in [Keys -> Seq(Flops)]
      /\ best_inst_disp_map \in [Keys -> [Insts -> Nat] \cup {Absent}]
      /\ best_inst_flops \in [Keys -> [Insts -> Nat] \cup {Absent}]
  BY DEF TypeOK
<1>5. /\ best_states' \in [Keys -> Seq(Programs)] /\ best_state_flops' \in [Keys -> Seq(Flops)]
      /\ best_inst_disp_map' \in [Keys -> [Insts -> Nat] \cup {Absent}]
      /\ best_inst_flops' \in [Keys -> [Insts -> Nat] \cup {Absent}]
  <2>1. CASE Rejects(disp)
    BY <1>4, <2>1 DEF Rejects
  <2>2. CASE Installs(disp, order)
    BY <1>2, <1>4, <2>2 DEF Installs
  <2> QED
    BY <1>3, <2>1, <2>2
<1>6. pc' \in {"idle", "fatal"}
  BY <1>3 DEF Rejects, Installs
<1>7. UNCHANGED <<task, queue, candidates, old_verbosity, ct, error_ct, verbose,
                  best_score, best_ct, has_valid, measured>>
  BY RedispatchIs DEF frame, totals, staticBest
<1> QED
  BY <1>5, <1>6, <1>7 DEF TypeOK

(* The steps that only move pc.                                             *)
Stops == Throw \/ FinishStatic \/ DivideByZero

LEMMA TypesNext == TypeOK /\ Resting /\ [Next]_vars => TypeOK'
<1> SUFFICES ASSUME TypeOK, Resting, [Next]_vars PROVE TypeOK'
  OBVIOUS
<1>1. CASE \E key \in Keys, inputs \in Inputs : StartMeasure(key, inputs)
  BY <1>1, TypesStart
<1>2. CASE \E results \in [1 .. BatchLen -> Flops] : RunBatch(results)
  BY <1>2, TypesBatch
<1>3. CASE Stops \/ UNCHANGED vars
  <2>1. pc' \in {"idle", "measuring", "aborted", "crashed", "fatal"}
    BY <1>3 DEF Stops, Throw, FinishStatic, DivideByZero, vars, TypeOK
  <2>2. UNCHANGED <<frame, totals, staticBest, best_states, dynBest, measured>>
    BY <1>3 DEF Stops, Throw, FinishStatic, DivideByZero, vars
  <2> QED
    BY <2>1, <2>2 DEF TypeOK, frame, totals, staticBest, dynBest
<1>4. CASE \E disp \in [Insts -> Positions] : \E order \in Orders(disp) : Redispatch(disp, order)
  BY <1>4, TypesRedispatch
<1> QED
  BY <1>1, <1>2, <1>3, <1>4 DEF Next, Stops, Orders

LEMMA InitTyped == Init => TypeOK
BY MeasurerAssumption DEF Init, TypeOK, Absent, Flops

-----------------------------------------------------------------------------
(* What a static task keeps.                                                *)

LEMMA LogGrows ==
  ASSUME TypeOK, Len(measured) = ct, NEW results \in [1 .. BatchLen -> Flops], RunBatch(results)
  PROVE  /\ Extends(measured', results) /\ ct' = ct + Len(results)
         /\ \A e : e \in Range(measured') <=>
              e \in Range(measured) \/ \E j \in 1 .. BatchLen : e = NewEntry(results, j)
<1>0. BatchFacts(results)
  BY BatchIs
<1>1. measured \in Seq(Entries)
  BY DEF TypeOK, Entries
<1>2. PICK new : /\ new = [j \in 1 .. BatchLen |-> NewEntry(results, j)]
                 /\ new \in Seq(Entries) /\ Len(new) = BatchLen
  <2>1. DOMAIN results = 1 .. BatchLen
    BY <1>0 DEF BatchFacts
  <2>2. /\ [j \in DOMAIN results |-> NewEntry(results, j)] \in Seq(Entries)
        /\ Len([j \in DOMAIN results |-> NewEntry(results, j)]) = BatchLen
    BY <1>0, LogTyped
  <2> QED
    BY <2>1, <2>2
<1>3. measured' = measured \o new
  BY <1>0, <1>2 DEF RunBatch, NewEntry, BatchFacts
<1>4. BatchLen = Len(results) /\ DOMAIN new = 1 .. BatchLen
  <2>1. BatchLen = Len(results)
    BY <1>0 DEF BatchFacts
  <2>2. DOMAIN new = 1 .. BatchLen
    BY <1>2
  <2> QED
    BY <2>1, <2>2
<1> DEFINE both == measured \o new
<1>5. /\ both \in Seq(Entries) /\ Len(both) = Len(measured) + Len(new)
      /\ \A h \in 1 .. Len(measured) : both[h] = measured[h]
      /\ \A j \in 1 .. Len(new) : both[Len(measured) + j] = new[j]
      /\ Range(both) = Range(measured) \cup Range(new)
  <2>1. new \in Seq(Entries)
    BY <1>2
  <2> QED
    BY <1>1, <2>1, Joined
<1> HIDE DEF both
<1>6. Range(new) = {NewEntry(results, j) : j \in 1 .. BatchLen}
  BY <1>2, <1>4 DEF Range
<1>7. Extends(both, results)
  <2>1. Len(measured) = ct /\ Len(new) = Len(results)
    BY <1>2, <1>4
  <2>2. \A j \in 1 .. Len(results) : new[j] = NewEntry(results, j)
    BY <1>2, <1>4
  <2> QED
    BY <1>5, <2>1, <2>2 DEF Extends
<1>8. ct' = ct + BatchLen
  BY DEF RunBatch
<1>9. measured' = both
  BY <1>3 DEF both
<1> QED
  BY <1>4, <1>5, <1>6, <1>7, <1>8, <1>9

LEMMA FirstFastestPrefix ==
  ASSUME NEW n \in Nat, NEW log, NEW longer, \A h \in 1 .. n : longer[h] = log[h],
         NEW key, NEW best, FirstFastest(key, best, log, n)
  PROVE  FirstFastest(key, best, longer, n)
BY DEF FirstFastest

LEMMA FirstFastestOthers ==
  ASSUME NEW n \in Nat, NEW m \in Nat, n <= m, NEW log, NEW key,
         \A h \in 1 .. m : h \in 1 .. n \/ log[h].key # key,
         NEW best, FirstFastest(key, best, log, n)
  PROVE  FirstFastest(key, best, log, m)
<1>1. \A h \in 1 .. n : h \in 1 .. m
  OBVIOUS
<1> QED
  BY <1>1 DEF FirstFastest

LEMMA FastestOfBatch ==
  ASSUME TypeOK, Len(measured) = ct, NEW results \in [1 .. BatchLen -> Flops], RunBatch(results),
         FirstFastest(task, Stored(task), measured, ct)
  PROVE  FirstFastest(task, BestAfter(results), measured', ct')
<1>0. /\ Batch(results) /\ Before \in Bests /\ Len(results) = BatchLen /\ BatchLen \in Nat
      /\ \E b : Follows(b, results) /\ BestAfter(results) = b[BatchLen]
  BY BatchIs DEF BatchFacts
<1>1. PICK n : n = Len(results) /\ n \in Nat
  BY <1>0
<1>2. PICK b : Follows(b, results) /\ BestAfter(results) = b[n]
  BY <1>0, <1>1
<1>3. PICK log : log = measured' /\ Extends(log, results) /\ ct' = ct + n
  BY <1>1, LogGrows
<1>4. ct \in Nat /\ task \in Keys
  BY DEF TypeOK
<1> DEFINE P == {j \in Nat : FirstFastest(task, b[j], log, ct + j)}
<1>5. 0 \in P
  <2>1. b[0] = Stored(task)
    BY <1>2 DEF Follows, Before, Stored
  <2>2. \A h \in 1 .. ct : log[h] = measured[h]
    BY <1>3 DEF Extends
  <2>3. FirstFastest(task, Stored(task), log, ct)
    BY <1>4, <2>2, FirstFastestPrefix
  <2>4. ct + 0 = ct
    BY <1>4
  <2> QED
    BY <2>1, <2>3, <2>4
<1>6. ASSUME NEW j \in 0 .. n - 1, j \in P PROVE j + 1 \in P
  <2>1. j + 1 \in 1 .. n /\ (j + 1) - 1 = j /\ j + 1 \in Nat /\ ct + (j + 1) - 1 = ct + j
    BY <1>1, <1>4
  <2>2. FirstFastest(task, b[(j + 1) - 1], log, ct + (j + 1) - 1)
    BY <1>6, <2>1
  <2>3. FirstFastest(task, b[j + 1], log, ct + (j + 1))
    BY <1>0, <1>1, <1>2, <1>3, <1>4, <2>1, <2>2, FirstFastestNext
  <2> QED
    BY <2>1, <2>3
<1> HIDE DEF P
<1>7. n \in P
  <2>1. 0 .. n \subseteq P
    BY <1>1, <1>5, <1>6, IntervalInduction
  <2> QED
    BY <1>1, <2>1
<1> QED
  BY <1>2, <1>3, <1>7 DEF P

LEMMA StaticBatch ==
  ASSUME TypeOK, StaticKept, NEW results \in [1 .. BatchLen -> Flops], RunBatch(results)
  PROVE  StaticKept'
<1>0. BatchFacts(results)
  BY BatchIs
<1>1. Len(measured) = ct /\ ct \in Nat /\ task \in Keys
  BY DEF StaticKept, TypeOK
<1>2. PICK n, log : /\ n \in Nat /\ n = BatchLen /\ n = Len(results) /\ log = measured'
                    /\ Extends(log, results) /\ ct' = ct + n
  BY <1>0, <1>1, LogGrows DEF BatchFacts
<1>3. Len(log) = ct'
  BY <1>2 DEF Extends
<1>4. \A h \in 1 .. ct : log[h] = measured[h] /\ h \in 1 .. ct'
  BY <1>1, <1>2 DEF Extends
<1>5. /\ \A h \in 1 .. ct' : h \in 1 .. ct \/ (log[h].key = task /\ h - ct \in 1 .. n)
      /\ \A j \in 1 .. n : log[ct + j].key = task /\ log[ct + j].flops = results[j] /\ ct + j \in 1 .. ct'
  <2>1. \A h \in 1 .. ct' : h \in 1 .. ct \/ (h - ct \in 1 .. n /\ ct + (h - ct) = h)
    BY <1>1, <1>2
  <2>2. \A j \in 1 .. n : log[ct + j].key = task /\ log[ct + j].flops = results[j]
    <3> TAKE j \in 1 .. n
    <3>1. log[ct + j] = NewEntry(results, j)
      BY <1>2 DEF Extends
    <3> QED
      BY <3>1 DEF NewEntry
  <2>3. \A j \in 1 .. n : ct + j \in 1 .. ct'
    BY <1>1, <1>2
  <2> QED
    BY <2>1, <2>2, <2>3
<1>6. ASSUME NEW key \in Keys \ DynKeys PROVE FirstFastest(key, Stored(key)', log, ct')
  <2>1. FirstFastest(key, Stored(key), measured, ct)
    BY DEF StaticKept
  <2>2. CASE key # task
    <3>1. Stored(key)' = Stored(key)
      <4>1. best_score'[key] = best_score[key] /\ best_states'[key] = best_states[key]
            /\ best_ct'[key] = best_ct[key]
        BY <2>2 DEF RunBatch, TypeOK
      <4> QED
        BY <4>1 DEF Stored
    <3>2. FirstFastest(key, Stored(key), log, ct)
      BY <1>1, <1>4, <2>1, FirstFastestPrefix
    <3>3. \A h \in 1 .. ct' : h \in 1 .. ct \/ log[h].key # key
      BY <1>5, <2>2
    <3>4. ct' \in Nat /\ ct <= ct'
      BY <1>1, <1>2
    <3> QED
      BY <1>1, <3>1, <3>2, <3>3, <3>4, FirstFastestOthers
  <2>3. CASE key = task
    <3>1. FirstFastest(task, BestAfter(results), log, ct')
      BY <1>1, <1>2, <2>1, <2>3, FastestOfBatch
    <3>2. PICK best \in Bests : best = BestAfter(results)
      BY <1>0 DEF BatchFacts
    <3>3. /\ best_score' = [best_score EXCEPT ![task] = best.score]
          /\ best_states' = [best_states EXCEPT ![task] = best.states]
          /\ best_ct' = [best_ct EXCEPT ![task] = best.at]
      BY <2>3, <3>2 DEF RunBatch
    <3>4. best_score'[task] = best.score /\ best_states'[task] = best.states /\ best_ct'[task] = best.at
      BY <1>1, <3>3 DEF TypeOK
    <3>5. best = [score |-> best.score, states |-> best.states, at |-> best.at]
      BY <3>2 DEF Bests
    <3>6. Stored(key)' = best
      BY <2>3, <3>4, <3>5 DEF Stored
    <3> QED
      BY <2>3, <3>1, <3>2, <3>6
  <2> QED
    BY <2>2, <2>3
<1>7. ASSUME NEW key \in Keys \ DynKeys PROVE key \notin has_valid' <=> Fails(key, ct)'
  <2>1. key \notin has_valid <=> Fails(key, ct)
    BY DEF StaticKept
  <2>2. has_valid' = IF \E j \in 1 .. n : results[j] > 0 THEN has_valid \cup {task} ELSE has_valid
    BY <1>0, <1>2 DEF RunBatch, ValidKeys, BatchFacts
  <2>3. \A j \in 1 .. n : results[j] > 0 <=> results[j] # 0
    <3>1. \A j \in 1 .. n : results[j] \in Nat
      BY <1>0, <1>2, MeasurerAssumption DEF BatchFacts, Batch, Flops
    <3> QED
      BY <3>1
  <2>4. CASE key # task
    <3>1. Fails(key, ct)' <=> Fails(key, ct)
      BY <1>2, <1>4, <1>5, <2>4 DEF Fails
    <3> QED
      BY <2>1, <2>2, <2>4, <3>1
  <2>5. CASE key = task
    <3>1. Fails(key, ct)' <=> Fails(key, ct) /\ \A j \in 1 .. n : results[j] = 0
      <4>1. Fails(key, ct)' <=> \A h \in 1 .. ct' : log[h].key = key => log[h].flops = 0
        BY <1>2 DEF Fails
      <4>2. \A h \in 1 .. ct' : h \in 1 .. ct \/ \E j \in 1 .. n : h = ct + j
        BY <1>1, <1>2
      <4> QED
        BY <1>4, <1>5, <2>5, <4>1, <4>2 DEF Fails
    <3> QED
      BY <2>1, <2>2, <2>3, <2>5, <3>1
  <2> QED
    BY <2>4, <2>5
<1> QED
  BY <1>2, <1>3, <1>6, <1>7 DEF StaticKept

LEMMA StaticNext == TypeOK /\ StaticKept /\ [Next]_vars => StaticKept'
<1> SUFFICES ASSUME TypeOK, StaticKept, [Next]_vars PROVE StaticKept'
  OBVIOUS
<1>1. CASE \E results \in [1 .. BatchLen -> Flops] : RunBatch(results)
  BY <1>1, StaticBatch
<1>2. CASE /\ UNCHANGED <<measured, ct, best_score, best_ct, has_valid>>
           /\ \A key \in Keys \ DynKeys : best_states'[key] = best_states[key]
  <2>1. \A key \in Keys \ DynKeys : Stored(key)' = Stored(key) /\ (Fails(key, ct)' <=> Fails(key, ct))
    BY <1>2 DEF Stored, Fails
  <2> QED
    BY <1>2, <2>1 DEF StaticKept
<1>3. best_states \in [Keys -> Seq(Programs)]
  BY DEF TypeOK
<1>4. ASSUME NEW key \in Keys, NEW inputs \in Inputs, StartMeasure(key, inputs) PROVE StaticKept'
  <2>1. UNCHANGED <<measured, ct, best_score, best_ct, has_valid>>
    BY <1>4 DEF StartMeasure, totals, staticBest
  <2>2. \A k \in Keys \ DynKeys : best_states'[k] = best_states[k]
    BY <1>3, <1>4 DEF StartMeasure, MovedOut
  <2> QED
    BY <1>2, <2>1, <2>2
<1>5. ASSUME NEW disp \in [Insts -> Positions], NEW order \in Orders(disp), Redispatch(disp, order)
      PROVE  StaticKept'
  <2>1. Rejects(disp) \/ Installs(disp, order)
    BY <1>5, RedispatchIs
  <2>2. task \in DynKeys /\ UNCHANGED <<totals, staticBest, measured>>
    BY <1>5, RedispatchIs
  <2>3. \A k \in Keys \ DynKeys : best_states'[k] = best_states[k]
    BY <1>3, <2>1, <2>2 DEF Rejects, Installs
  <2> QED
    BY <1>2, <2>2, <2>3 DEF totals, staticBest
<1>6. CASE Stops \/ UNCHANGED vars
  BY <1>2, <1>6 DEF Stops, Throw, FinishStatic, DivideByZero, vars, totals, staticBest
<1> QED
  BY <1>1, <1>4, <1>5, <1>6 DEF Next, Stops, Orders

-----------------------------------------------------------------------------
(* The best set of a dynamic task.                                          *)

Rested(key) == SetRecorded(key) /\ SetServes(key) /\ SetIsBest(key)

(* Nothing about the set of a task changes but the log of other tasks. *)
LEMMA RestKept ==
  ASSUME NEW key \in DynKeys, Rested(key),
         best_states'[key] = best_states[key], best_state_flops'[key] = best_state_flops[key],
         best_inst_disp_map'[key] = best_inst_disp_map[key],
         best_inst_flops'[key] = best_inst_flops[key],
         \A e \in Range(measured) : e \in Range(measured'),
         \A e \in Range(measured') : e.key = key => e \in Range(measured)
  PROVE  Rested(key)'
<1>1. Carried(key)' = Carried(key)
  BY DEF Carried
<1>2. \A r : r \in MeasuredFor(key)' <=> r \in MeasuredFor(key)
  BY DEF MeasuredFor
<1>3. SetRecorded(key)'
  BY <1>1 DEF Rested, SetRecorded
<1>4. SetServes(key)'
  BY <1>1 DEF Rested, SetServes
<1>5. SetIsBest(key)'
  BY <1>2 DEF Rested, SetIsBest
<1> QED
  BY <1>3, <1>4, <1>5 DEF Rested

LEMMA CarriedIs ==
  ASSUME TypeOK, NEW key \in DynKeys, SetRecorded(key)
  PROVE  /\ DOMAIN Carried(key) = DOMAIN best_states[key]
         /\ \A p \in DOMAIN best_states[key] :
              /\ Carried(key)[p].program = best_states[key][p]
              /\ Carried(key)[p].flops = best_state_flops[key][p]
BY DEF Carried, Pairs

(* Under NoDegradationPossible every instance gets its fastest candidate.   *)
LEMMA FastestServes ==
  ASSUME TypeOK, NoDegradationPossible, candidates # << >>,
         NEW disp \in DispatchOutcomes(Adapted, Positions, MaxNumStates),
         NEW i \in Insts, NEW p \in Positions
  PROVE  Speed(i, candidates[p]) <= Adapted[i][disp[i]]
<1> DEFINE fav == Favourites(Adapted)
<1>1. /\ candidates \in Seq(Measurable) /\ Positions \in SUBSET Nat
      /\ Positions # {} /\ IsFiniteSet(Positions)
  <2>1. candidates \in Seq(Measurable)
    BY DEF TypeOK, Measurable
  <2> HIDE DEF Measurable
  <2>2. PICK n \in Nat : n = Len(candidates) /\ Positions = 1 .. n /\ n # 0
    <3>1. Len(candidates) \in Nat /\ DOMAIN candidates = 1 .. Len(candidates)
      BY <2>1
    <3>2. Len(candidates) # 0
      BY <2>1
    <3> QED
      BY <3>1, <3>2 DEF Positions
  <2>3. IsFiniteSet(1 .. n)
    BY FS_Interval
  <2>4. 1 .. n \in SUBSET Nat /\ 1 \in 1 .. n
    BY <2>2
  <2> QED
    BY <2>1, <2>2, <2>3, <2>4
<1>2. DOMAIN Adapted = Insts /\ DOMAIN fav = Insts
  BY DEF Adapted, Favourites
<1>3. fav[i] = Favourite(Adapted[i])
  BY <1>2 DEF Favourites
<1>4. Adapted[i] \in [Positions -> Nat]
  <2>1. Adapted[i] = [q \in Positions |-> candidates[q].flops * Fit[i][candidates[q].program]]
    BY DEF Adapted
  <2>2. \A q \in Positions : candidates[q] \in Measurable
    <3> HIDE DEF Measurable
    <3> QED
      BY <1>1 DEF Positions
  <2>3. \A q \in Positions : candidates[q].flops * Fit[i][candidates[q].program] \in Nat
    BY <2>2, SpeedTyped
  <2> QED
    BY <2>1, <2>3
<1> HIDE DEF fav
<1>5. Cardinality(Selected(fav)) <= MaxNumStates
  <2>1. Cardinality(Selected(fav)) \in Nat /\ Cardinality(Insts) \in Nat
        /\ Cardinality(Selected(fav)) <= Cardinality(Insts)
    BY <1>2, MeasurerAssumption, SelectedFew
  <2> QED
    BY <2>1, MeasurerAssumption DEF NoDegradationPossible
<1>6. disp = fav
  BY <1>5 DEF DispatchOutcomes, fav
<1>7. IsFavourite(Favourite(Adapted[i]), Adapted[i])
  BY <1>1, <1>4, FavouriteExists
<1>8. Adapted[i][p] <= Adapted[i][disp[i]]
  BY <1>3, <1>4, <1>6, <1>7 DEF IsFavourite
<1> QED
  BY <1>8 DEF Adapted, Speed

LEMMA RestStart ==
  ASSUME TypeOK, Resting, NEW key \in Keys, NEW inputs \in Inputs, StartMeasure(key, inputs)
  PROVE  Resting' /\ Competing'
<1>1. /\ pc = "idle" /\ pc' = "measuring" /\ task' = key /\ candidates' = Carried(key)
      /\ UNCHANGED <<best_inst_disp_map, best_inst_flops, measured>>
      /\ \A k \in Keys : k # key => /\ best_states'[k] = best_states[k]
                                   /\ best_state_flops'[k] = best_state_flops[k]
  BY DEF StartMeasure, MovedOut, TypeOK
<1>2. \A k \in DynKeys : Rested(k)
  BY <1>1 DEF Resting, AtRest, Rested
<1>3. ASSUME NEW k \in DynKeys, AtRest(k)' PROVE Rested(k)'
  <2>1. k # key /\ k \in Keys
    BY <1>1, <1>3, MeasurerAssumption DEF AtRest
  <2> QED
    BY <1>1, <1>2, <2>1, RestKept
<1>4. Resting'
  BY <1>3 DEF Resting, Rested
<1>5. CASE key \in DynKeys
  <2>1. SetRecorded(key) /\ SetServes(key) /\ SetIsBest(key)
    BY <1>2, <1>5 DEF Rested
  <2>2. /\ DOMAIN Carried(key) = DOMAIN best_states[key]
        /\ \A p \in DOMAIN best_states[key] : Entry(key, Carried(key)[p]) \in Range(measured)
    BY <1>5, <2>1, CarriedIs DEF SetRecorded
  <2>3. CandidatesRecorded'
    BY <1>1, <2>2 DEF CandidatesRecorded, Positions, Entry
  <2>4. ASSUME NEW i \in Insts PROVE CandidatesKeep(i)'
    <3>1. ASSUME best_inst_flops[key] # Absent
          PROVE  /\ best_inst_disp_map[key][i] \in DOMAIN Carried(key)
                 /\ Speed(i, Carried(key)[best_inst_disp_map[key][i]]) = best_inst_flops[key][i]
      <4>1. /\ Range(best_inst_disp_map[key]) = DOMAIN best_states[key]
            /\ best_inst_flops[key][i] = Speed(i, Carried(key)[best_inst_disp_map[key][i]])
        BY <2>1, <3>1 DEF SetServes
      <4>2. best_inst_disp_map[key][i] \in Range(best_inst_disp_map[key])
        <5>1. DOMAIN best_inst_disp_map[key] = Insts
          BY <1>5, <2>1, <3>1 DEF SetServes
        <5> QED
          BY <5>1 DEF Range
      <4> QED
        BY <2>2, <4>1, <4>2
    <3>2. best_inst_flops'[key] # Absent =>
            \E p \in Positions' : Speed(i, candidates'[p]) = best_inst_flops'[key][i]
      BY <1>1, <3>1 DEF Positions
    <3>3. ASSUME NoDegradationPossible, NEW r \in MeasuredFor(key)
          PROVE  \E p \in Positions' : Speed(i, r) <= Speed(i, candidates'[p])
      <4>1. best_inst_flops[key] # Absent /\ Speed(i, r) <= best_inst_flops[key][i]
        BY <2>1, <3>3 DEF SetIsBest
      <4> QED
        BY <1>1, <3>1, <4>1 DEF Positions
    <3>4. MeasuredFor(key)' = MeasuredFor(key)
      BY <1>1 DEF MeasuredFor
    <3> QED
      BY <1>1, <3>2, <3>3, <3>4 DEF CandidatesKeep, MeasuredFor, Speed
  <2> QED
    BY <1>4, <2>3, <2>4 DEF Competing
<1>6. CASE key \notin DynKeys
  BY <1>1, <1>4, <1>6 DEF Competing
<1> QED
  BY <1>5, <1>6

LEMMA RestBatch ==
  ASSUME TypeOK, Len(measured) = ct, Resting, Competing,
         NEW results \in [1 .. BatchLen -> Flops], RunBatch(results)
  PROVE  Resting' /\ Competing'
<1>0. BatchFacts(results)
  BY BatchIs
<1>1. /\ pc = "measuring" /\ pc' = "measuring" /\ task' = task /\ task \in Keys
      /\ UNCHANGED <<best_state_flops, best_inst_disp_map, best_inst_flops>>
      /\ \A k \in DynKeys : best_states'[k] = best_states[k]
  <2>1. best_states' = best_states \/ (task \notin DynKeys /\ \A k \in Keys : k # task => best_states'[k] = best_states[k])
    BY DEF RunBatch, TypeOK
  <2>2. \A k \in DynKeys : best_states'[k] = best_states[k]
    BY <2>1, MeasurerAssumption
  <2> QED
    BY <2>2 DEF RunBatch, dynBest, TypeOK
<1>2. /\ \A e : e \in Range(measured') <=>
           e \in Range(measured) \/ \E j \in 1 .. BatchLen : e = NewEntry(results, j)
  BY LogGrows
<1>3. \A j \in 1 .. BatchLen : NewEntry(results, j).key = task
  BY DEF NewEntry
<1>4. ASSUME NEW k \in DynKeys, AtRest(k)' PROVE Rested(k)'
  <2>1. k # task /\ Rested(k)
    BY <1>1, <1>4 DEF AtRest, Resting, Rested
  <2>2. /\ \A e \in Range(measured) : e \in Range(measured')
        /\ \A e \in Range(measured') : e.key = k => e \in Range(measured)
    BY <1>2, <1>3, <2>1
  <2> QED
    BY <1>1, <2>1, <2>2, RestKept
<1>5. Resting'
  BY <1>4 DEF Resting, Rested
<1>6. CASE task \in DynKeys
  <2> DEFINE done == Pairs(SubSeq(queue, 1, Len(results)), results)
             new(j) == NewEntry(results, j)
  <2>1. candidates' = candidates \o done
    BY <1>6 DEF RunBatch
  <2>2. candidates \in Seq(Measurable) /\ done \in Seq(Measurable)
        /\ Len(done) = BatchLen /\ BatchLen \in Nat /\ Len(results) = BatchLen
    <3>1. candidates \in Seq(Measurable)
      BY DEF TypeOK, Measurable
    <3>2. done \in Seq(Measurable) /\ Len(done) = BatchLen
      BY <1>0, DoneTyped
    <3>3. Len(results) = BatchLen /\ BatchLen \in Nat
      BY <1>0 DEF BatchFacts, Batch
    <3> QED
      BY <3>1, <3>2, <3>3
  <2>3. \A j \in 1 .. BatchLen : done[j].program = queue[j] /\ done[j].flops = results[j]
    <3>1. \A j \in 1 .. BatchLen : SubSeq(queue, 1, Len(results))[j] = queue[j]
      BY <1>0, DoneTyped
    <3>2. DOMAIN done = 1 .. BatchLen
      <4> HIDE DEF done, Measurable
      <4> QED
        BY <2>2
    <3>3. DOMAIN done = DOMAIN SubSeq(queue, 1, Len(results))
      BY DEF Pairs
    <3> QED
      BY <3>1, <3>2, <3>3 DEF Pairs
  <2> HIDE DEF done, Measurable
  <2>4. PICK n \in Nat : n = Len(candidates) /\ Positions = 1 .. n
    <3>1. Len(candidates) \in Nat /\ DOMAIN candidates = 1 .. Len(candidates)
      BY <2>2
    <3> QED
      BY <3>1 DEF Positions
  <2>5. /\ Positions' = 1 .. n + BatchLen
        /\ \A p \in 1 .. n : candidates'[p] = candidates[p]
        /\ \A j \in 1 .. BatchLen : candidates'[n + j] = done[j]
    <3> DEFINE both == candidates \o done
    <3>0. /\ both \in Seq(Measurable) /\ Len(both) = Len(candidates) + Len(done)
          /\ \A p \in 1 .. Len(candidates) : both[p] = candidates[p]
          /\ \A j \in 1 .. Len(done) : both[Len(candidates) + j] = done[j]
      <4>1. candidates \in Seq(Measurable) /\ done \in Seq(Measurable)
        BY <2>2
      <4> QED
        BY <4>1, Joined
    <3>1. /\ both \in Seq(Measurable) /\ Len(both) = n + BatchLen
          /\ \A p \in 1 .. n : both[p] = candidates[p]
          /\ \A j \in 1 .. BatchLen : both[n + j] = done[j]
      BY <2>2, <2>4, <3>0
    <3> HIDE DEF both
    <3>2. DOMAIN both = 1 .. n + BatchLen
      BY <3>1
    <3> QED
      BY <2>1, <3>1, <3>2 DEF both, Positions
  <2>6. /\ \A p \in 1 .. n + BatchLen : p \in 1 .. n \/ \E j \in 1 .. BatchLen : p = n + j
        /\ \A p \in 1 .. n : p \in 1 .. n + BatchLen
        /\ \A j \in 1 .. BatchLen : n + j \in 1 .. n + BatchLen
    <3>1. ASSUME NEW p \in 1 .. n + BatchLen PROVE p \in 1 .. n \/ \E j \in 1 .. BatchLen : p = n + j
      <4>1. p \in 1 .. n \/ (p - n \in 1 .. BatchLen /\ p = n + (p - n))
        BY <2>2
      <4> QED
        BY <4>1
    <3> QED
      BY <2>2, <3>1
  <2>7. CandidatesRecorded /\ \A i \in Insts : CandidatesKeep(i)
    BY <1>1, <1>6 DEF Competing
  <2>8. CandidatesRecorded'
    <3>1. ASSUME NEW p \in 1 .. n PROVE Entry(task, candidates'[p]) \in Range(measured')
      BY <1>2, <2>4, <2>5, <2>7, <3>1 DEF CandidatesRecorded
    <3>2. ASSUME NEW j \in 1 .. BatchLen PROVE Entry(task, candidates'[n + j]) \in Range(measured')
      <4>1. Entry(task, done[j]) = NewEntry(results, j)
        BY <2>3 DEF Entry, NewEntry
      <4> QED
        BY <1>2, <2>5, <4>1
    <3> QED
      BY <1>1, <2>5, <2>6, <3>1, <3>2 DEF CandidatesRecorded
  <2>9. ASSUME NEW i \in Insts PROVE CandidatesKeep(i)'
    <3>1. CandidatesKeep(i)
      BY <2>7
    <3>2. best_inst_flops'[task] # Absent =>
            \E p \in Positions' : Speed(i, candidates'[p]) = best_inst_flops'[task][i]
      BY <1>1, <2>4, <2>5, <2>6, <3>1 DEF CandidatesKeep
    <3>3. ASSUME NoDegradationPossible, NEW r \in MeasuredFor(task)'
          PROVE  \E p \in Positions' : Speed(i, r) <= Speed(i, candidates'[p])
      <4>1. CASE r \in MeasuredFor(task)
        BY <2>4, <2>5, <2>6, <3>1, <3>3, <4>1 DEF CandidatesKeep
      <4>2. CASE r \notin MeasuredFor(task)
        <5>1. PICK j \in 1 .. BatchLen : r = NewEntry(results, j)
          BY <1>1, <1>2, <3>3, <4>2 DEF MeasuredFor
        <5>2. Speed(i, r) = Speed(i, done[j])
          BY <2>3, <5>1 DEF Speed, NewEntry
        <5>3. done[j] \in Measurable
          BY <2>2
        <5>4. Speed(i, done[j]) \in Nat
          BY <5>3, SpeedTyped DEF Speed
        <5>5. Speed(i, r) <= Speed(i, candidates'[n + j]) /\ n + j \in Positions'
          BY <2>5, <2>6, <5>2, <5>4
        <5> QED
          BY <5>5
      <4> QED
        BY <4>1, <4>2
    <3> QED
      BY <1>1, <3>2, <3>3 DEF CandidatesKeep, Speed
  <2> QED
    BY <1>1, <1>5, <2>8, <2>9 DEF Competing
<1>7. CASE task \notin DynKeys
  BY <1>1, <1>5, <1>7 DEF Competing
<1> QED
  BY <1>6, <1>7

(* With room for a state per instance no prediction can drop: the old one  *)
(* is the speed of a candidate, and the new one that of the fastest.       *)
LEMMA NoDrop ==
  ASSUME TypeOK, Competing, NoDegradationPossible,
         NEW disp \in [Insts -> Positions], NEW order \in Orders(disp), Redispatch(disp, order)
  PROVE  ~ Degrades(Predicted(disp))
<1> SUFFICES ASSUME Degrades(Predicted(disp)) PROVE FALSE
  OBVIOUS
<1>1. /\ pc = "measuring" /\ task \in DynKeys /\ candidates # << >>
      /\ disp \in DispatchOutcomes(Adapted, Positions, MaxNumStates)
  BY RedispatchIs
<1>2. PICK i \in Insts : best_inst_flops[task] # Absent
                        /\ best_inst_flops[task][i] > Predicted(disp)[i]
  BY DEF Degrades
<1>3. PICK p \in Positions : Speed(i, candidates[p]) = best_inst_flops[task][i]
  BY <1>1, <1>2 DEF Competing, CandidatesKeep
<1>4. Speed(i, candidates[p]) <= Predicted(disp)[i]
  BY <1>1, FastestServes DEF Predicted
<1>5. Speed(i, candidates[p]) \in Nat /\ Predicted(disp)[i] \in Nat
  <2>1. PICK n : Compacts(disp, order, n)
    BY OrderCompacts
  <2>2. candidates[p] \in Measurable /\ Predicted(disp) \in [Insts -> Nat]
    BY <2>1, KeptTyped
  <2> QED
    BY <2>2, SpeedTyped DEF Speed
<1> QED
  BY <1>2, <1>3, <1>4, <1>5

LEMMA RestRedispatch ==
  ASSUME TypeOK, Resting, Competing,
         NEW disp \in [Insts -> Positions], NEW order \in Orders(disp), Redispatch(disp, order)
  PROVE  Resting' /\ Competing' /\ PredictionsNeverDrop'
<1>1. /\ pc = "measuring" /\ task \in DynKeys /\ candidates # << >>
      /\ disp \in DispatchOutcomes(Adapted, Positions, MaxNumStates)
      /\ UNCHANGED <<task, candidates, measured>>
      /\ Rejects(disp) \/ Installs(disp, order)
  BY RedispatchIs DEF frame
<1>2. CASE Rejects(disp)
  <2>1. ~ NoDegradationPossible /\ pc' = "fatal"
    BY <1>2, NoDrop DEF Rejects
  <2> QED
    BY <2>1 DEF Resting, AtRest, Competing, PredictionsNeverDrop
<1>3. CASE Installs(disp, order)
  <2>1. PICK n : Compacts(disp, order, n)
    BY OrderCompacts
  <2>2. /\ \A p \in Positions : candidates[p] \in Measurable
        /\ \A i \in Insts : Predicted(disp)[i] = Speed(i, candidates[disp[i]])
        /\ Predicted(disp) \in [Insts -> Nat]
        /\ KeptPrograms(order) \in Seq(Programs) /\ Len(KeptPrograms(order)) = n
        /\ KeptFlops(order) \in Seq(Flops) /\ Len(KeptFlops(order)) = n
    BY <2>1, KeptTyped
  <2>3. /\ pc' = "idle"
        /\ best_states'[task] = KeptPrograms(order) /\ best_state_flops'[task] = KeptFlops(order)
        /\ best_inst_disp_map'[task] = Renumbered(disp, order)
        /\ best_inst_flops'[task] = Predicted(disp)
        /\ \A k \in Keys : k # task =>
             /\ best_states'[k] = best_states[k] /\ best_state_flops'[k] = best_state_flops[k]
             /\ best_inst_disp_map'[k] = best_inst_disp_map[k]
             /\ best_inst_flops'[k] = best_inst_flops[k]
    BY <1>3 DEF Installs, TypeOK
  <2>4. ASSUME NEW k \in DynKeys, k # task PROVE Rested(k)'
    <3>1. Rested(k) /\ k \in Keys
      BY <1>1, <2>4, MeasurerAssumption DEF Resting, AtRest, Rested
    <3> QED
      BY <1>1, <2>3, <2>4, <3>1, RestKept
  <2>5. CandidatesRecorded /\ \A i \in Insts : CandidatesKeep(i)
    BY <1>1 DEF Competing
  <2>6. /\ DOMAIN KeptPrograms(order) = 1 .. n /\ n \in Nat /\ DOMAIN order = 1 .. n
        /\ \A x \in 1 .. n : order[x] \in Positions
    BY <2>1 DEF Compacts, KeptPrograms
  <2>7. /\ DOMAIN Carried(task)' = 1 .. n
        /\ \A x \in 1 .. n : /\ Carried(task)'[x].program = candidates[order[x]].program
                             /\ Carried(task)'[x].flops = candidates[order[x]].flops
    <3>1. Carried(task)' = Pairs(KeptPrograms(order), KeptFlops(order))
      BY <1>1, <2>3 DEF Carried
    <3> QED
      BY <2>6, <3>1 DEF Pairs, KeptPrograms, KeptFlops
  <2>8. SetRecorded(task)'
    <3>1. ASSUME NEW x \in 1 .. n PROVE Entry(task, Carried(task)'[x]) \in Range(measured)
      <4>1. Entry(task, candidates[order[x]]) \in Range(measured)
        BY <2>5, <2>6 DEF CandidatesRecorded
      <4> QED
        BY <2>7, <4>1 DEF Entry
    <3>2. Len(best_state_flops'[task]) = Len(best_states'[task]) /\ DOMAIN best_states'[task] = 1 .. n
      BY <2>2, <2>3, <2>6
    <3> QED
      BY <1>1, <3>1, <3>2 DEF SetRecorded
  <2>9. SetServes(task)'
    <3>1. /\ DOMAIN best_inst_disp_map'[task] = Insts
          /\ Range(best_inst_disp_map'[task]) = DOMAIN best_states'[task]
      BY <2>1, <2>3, <2>6 DEF Compacts
    <3>2. ASSUME NEW i \in Insts
          PROVE  best_inst_flops'[task][i] = Speed(i, Carried(task)'[best_inst_disp_map'[task][i]])
      <4>1. PICK x \in 1 .. n : x = Renumbered(disp, order)[i] /\ order[x] = disp[i]
        BY <2>1 DEF Compacts
      <4>2. best_inst_disp_map'[task][i] = x
        BY <2>3, <4>1
      <4>3. Speed(i, Carried(task)'[x]) = Speed(i, candidates[order[x]])
        BY <2>7 DEF Speed
      <4> QED
        BY <2>2, <2>3, <4>1, <4>2, <4>3
    <3> QED
      BY <1>1, <3>1, <3>2 DEF SetServes, Speed
  <2>10. SetIsBest(task)'
    <3>1. ASSUME NEW i \in Insts PROVE Predicted(disp) # Absent
      BY <2>2 DEF Absent
    <3>2. ASSUME NoDegradationPossible, NEW i \in Insts, NEW r \in MeasuredFor(task)
          PROVE  Speed(i, r) <= Predicted(disp)[i]
      <4>1. PICK p \in Positions : Speed(i, r) <= Speed(i, candidates[p])
        BY <2>5, <3>2 DEF CandidatesKeep
      <4>2. Speed(i, candidates[p]) <= Predicted(disp)[i]
        BY <1>1, <3>2, FastestServes DEF Predicted
      <4>3. r.program \in Programs /\ r.flops \in Flops
        <5>1. r \in Range(measured) /\ measured \in Seq(Entries)
          BY DEF MeasuredFor, TypeOK, Entries
        <5>2. r \in Entries
          <6> HIDE DEF Entries
          <6> QED
            BY <5>1 DEF Range
        <5> QED
          BY <5>2 DEF Entries
      <4>4. Speed(i, r) \in Nat
        BY <4>3, ProductTyped DEF Speed
      <4>5. Speed(i, candidates[p]) \in Nat /\ Predicted(disp)[i] \in Nat
        BY <2>2, SpeedTyped DEF Speed
      <4> QED
        BY <4>1, <4>2, <4>4, <4>5
    <3>3. MeasuredFor(task)' = MeasuredFor(task)
      BY <1>1 DEF MeasuredFor
    <3> QED
      BY <1>1, <2>3, <3>1, <3>2, <3>3 DEF SetIsBest, Speed
  <2>11. Resting'
    <3>1. ASSUME NEW k \in DynKeys PROVE SetRecorded(k)' /\ SetServes(k)' /\ SetIsBest(k)'
      <4>1. CASE k = task
        BY <1>1, <2>8, <2>9, <2>10, <4>1 DEF SetRecorded, SetServes, SetIsBest
      <4>2. CASE k # task
        BY <2>4, <4>2 DEF Rested
      <4> QED
        BY <4>1, <4>2
    <3> QED
      BY <3>1 DEF Resting
  <2> QED
    BY <2>3, <2>11 DEF Competing, PredictionsNeverDrop
<1> QED
  BY <1>1, <1>2, <1>3

LEMMA MeasurerInit == Init => MeasurerInv
<1> SUFFICES ASSUME Init PROVE MeasurerInv
  OBVIOUS
<1>1. TypeOK
  BY InitTyped
<1>2. Range(measured) = {} /\ Len(measured) = 0 /\ ct = 0 /\ 1 .. 0 = {}
  BY DEF Init, Range
<1>3. StaticKept
  <2>1. \A key \in Keys \ DynKeys : best_score[key] = 0 /\ best_states[key] = << >> /\ key \notin has_valid
    BY DEF Init
  <2> QED
    BY <1>2, <2>1 DEF StaticKept, FirstFastest, Stored, Fails
<1>4. Resting
  <2> SUFFICES ASSUME NEW key \in DynKeys PROVE SetRecorded(key) /\ SetServes(key) /\ SetIsBest(key)
    BY DEF Resting
  <2>1. /\ best_states[key] = << >> /\ best_state_flops[key] = << >> /\ best_inst_flops[key] = Absent
    BY MeasurerAssumption DEF Init
  <2>2. MeasuredFor(key) = {}
    BY <1>2 DEF MeasuredFor
  <2> QED
    BY <2>1, <2>2 DEF SetRecorded, SetServes, SetIsBest
<1>5. Competing /\ PredictionsNeverDrop
  BY DEF Init, Competing, PredictionsNeverDrop
<1> QED
  BY <1>1, <1>3, <1>4, <1>5 DEF MeasurerInv

LEMMA MeasurerNext == MeasurerInv /\ [Next]_vars => MeasurerInv'
<1> SUFFICES ASSUME MeasurerInv, [Next]_vars PROVE MeasurerInv'
  OBVIOUS
<1>1. TypeOK /\ StaticKept /\ Resting /\ Competing /\ PredictionsNeverDrop
  BY DEF MeasurerInv
<1>2. TypeOK' /\ StaticKept'
  BY <1>1, TypesNext, StaticNext
<1>3. ASSUME NEW key \in Keys, NEW inputs \in Inputs, StartMeasure(key, inputs)
      PROVE  Resting' /\ Competing' /\ PredictionsNeverDrop'
  <2>1. Resting' /\ Competing'
    BY <1>1, <1>3, RestStart
  <2> QED
    BY <1>3, <2>1 DEF StartMeasure, PredictionsNeverDrop
<1>4. ASSUME NEW results \in [1 .. BatchLen -> Flops], RunBatch(results)
      PROVE  Resting' /\ Competing' /\ PredictionsNeverDrop'
  <2>1. Resting' /\ Competing'
    BY <1>1, <1>4, RestBatch DEF StaticKept
  <2> QED
    BY <1>4, <2>1 DEF RunBatch, PredictionsNeverDrop
<1>5. ASSUME NEW disp \in [Insts -> Positions], NEW order \in Orders(disp), Redispatch(disp, order)
      PROVE  Resting' /\ Competing' /\ PredictionsNeverDrop'
  BY <1>1, <1>5, RestRedispatch
<1>6. ASSUME Stops \/ UNCHANGED vars
      PROVE  Resting' /\ Competing' /\ PredictionsNeverDrop'
  <2>1. UNCHANGED <<task, candidates, best_states, best_state_flops, best_inst_disp_map,
                    best_inst_flops, measured>>
    BY <1>6 DEF Stops, Throw, FinishStatic, DivideByZero, vars, frame, dynBest
  <2>2. \/ pc' = pc \/ pc' \in {"aborted", "crashed"}
        \/ (pc = "measuring" /\ pc' = "idle" /\ task \notin DynKeys)
    BY <1>6 DEF Stops, Throw, FinishStatic, DivideByZero, vars
  <2>3. Resting'
    <3>1. ASSUME NEW key \in DynKeys, AtRest(key)' PROVE Rested(key)'
      <4>1. AtRest(key)
        BY <2>1, <2>2, <3>1 DEF AtRest
      <4>2. Rested(key)
        BY <1>1, <4>1 DEF Resting, Rested
      <4> QED
        BY <2>1, <4>2, RestKept
    <3> QED
      BY <3>1 DEF Resting, Rested
  <2>4. Competing'
    <3>1. CASE pc' = "measuring" /\ task \in DynKeys
      <4>1. CandidatesRecorded /\ \A i \in Insts : CandidatesKeep(i)
        BY <1>1, <2>2, <3>1 DEF Competing
      <4>2. CandidatesRecorded'
        BY <2>1, <4>1 DEF CandidatesRecorded, Positions, Entry
      <4>3. \A i \in Insts : CandidatesKeep(i)'
        BY <2>1, <4>1 DEF CandidatesKeep, Positions, Speed, MeasuredFor
      <4> QED
        BY <4>2, <4>3 DEF Competing
    <3> QED
      BY <2>1, <3>1 DEF Competing
  <2>5. PredictionsNeverDrop'
    BY <1>1, <2>2 DEF PredictionsNeverDrop
  <2> QED
    BY <2>3, <2>4, <2>5
<1>7. Resting' /\ Competing' /\ PredictionsNeverDrop'
  BY <1>3, <1>4, <1>5, <1>6 DEF Next, Stops, Orders
<1> QED
  BY <1>2, <1>7 DEF MeasurerInv

LEMMA MeasurerInvariant == Spec => []MeasurerInv
BY MeasurerInit, MeasurerNext, PTL DEF Spec

-----------------------------------------------------------------------------
(* What holds of the measurer.                                              *)

(* The state of the measurer keeps its types: the programs and the speeds  *)
(* of a best set stay two lists of one length, so that the next Measure    *)
(* can pair them again.                                                    *)
THEOREM MeasurerTyped == Spec => []TypeOK
<1>1. MeasurerInv => TypeOK
  BY DEF MeasurerInv
<1> QED
  BY <1>1, MeasurerInvariant, PTL

(* With room for one state per instance, the check at the end of Measure   *)
(* that aborts the process on a dropped prediction never fires: an old     *)
(* prediction is the speed of a candidate that competes again.             *)
THEOREM MeasurerNeverDrops == Spec => []PredictionsNeverDrop
<1>1. MeasurerInv => PredictionsNeverDrop
  BY DEF MeasurerInv
<1> QED
  BY <1>1, MeasurerInvariant, PTL

(* With room for one state per instance, the prediction for an instance is *)
(* the best over all that was ever measured for the task, although only    *)
(* the selected states are carried to the next Measure call.               *)
THEOREM MeasurerKeepsTheBest == Spec => []NothingBetterWasMeasured
<1>1. MeasurerInv => NothingBetterWasMeasured
  <2> SUFFICES ASSUME MeasurerInv, NoDegradationPossible, pc = "idle", NEW key \in DynKeys,
                      NEW i \in Insts, NEW r \in MeasuredFor(key)
               PROVE  r.flops * Fit[i][r.program] <= best_inst_flops[key][i]
    BY DEF NothingBetterWasMeasured, AdaptedMeasured
  <2>1. SetIsBest(key)
    BY DEF MeasurerInv, Resting, AtRest
  <2> QED
    BY <2>1 DEF SetIsBest, Speed
<1> QED
  BY <1>1, MeasurerInvariant, PTL

(* Between Measure calls, the programs, speeds, dispatch map and           *)
(* predictions kept for a dynamic task agree with each other, and every    *)
(* program in the set was measured at the speed recorded for it.           *)
THEOREM MeasurerSetConsistent == Spec => []BestSetConsistent
<1>1. MeasurerInv => BestSetConsistent
  <2> SUFFICES ASSUME MeasurerInv, pc = "idle", NEW key \in DynKeys, best_inst_flops[key] # Absent
               PROVE  LET set  == best_states[key]
                          disp == best_inst_disp_map[key]
                      IN  /\ Len(best_state_flops[key]) = Len(set)
                          /\ \A x \in DOMAIN set :
                               [key |-> key, program |-> set[x], flops |-> best_state_flops[key][x]]
                                 \in Range(measured)
                          /\ Range(disp) = DOMAIN set
                          /\ \A i \in Insts :
                               best_inst_flops[key][i] =
                                 best_state_flops[key][disp[i]] * Fit[i][set[disp[i]]]
    BY DEF BestSetConsistent
  <2>1. SetRecorded(key) /\ SetServes(key) /\ TypeOK
    BY DEF MeasurerInv, Resting, AtRest
  <2>2. \A p \in DOMAIN best_states[key] :
          /\ Carried(key)[p].program = best_states[key][p]
          /\ Carried(key)[p].flops = best_state_flops[key][p]
    BY <2>1, CarriedIs
  <2>3. \A x \in DOMAIN best_states[key] :
          [key |-> key, program |-> best_states[key][x], flops |-> best_state_flops[key][x]]
            \in Range(measured)
    BY <2>1, <2>2 DEF SetRecorded, Entry
  <2>4. ASSUME NEW i \in Insts
        PROVE  best_inst_flops[key][i] = best_state_flops[key][best_inst_disp_map[key][i]]
                 * Fit[i][best_states[key][best_inst_disp_map[key][i]]]
    <3>1. best_inst_disp_map[key][i] \in DOMAIN best_states[key]
      BY <2>1 DEF SetServes, Range
    <3>2. best_inst_flops[key][i] = Speed(i, Carried(key)[best_inst_disp_map[key][i]])
      BY <2>1 DEF SetServes
    <3> QED
      BY <2>2, <3>1, <3>2 DEF Speed
  <2> QED
    BY <2>1, <2>3, <2>4 DEF SetRecorded, SetServes
<1> QED
  BY <1>1, MeasurerInvariant, PTL

(* A static task keeps the first of its fastest programs; best_ct is the   *)
(* trial that found it, and has_valid says that one did not fail.          *)
THEOREM MeasurerStaticBest == Spec => []StaticBestIsFirstFastest
<1>1. MeasurerInv => StaticBestIsFirstFastest
  <2> SUFFICES ASSUME MeasurerInv, NEW key \in Keys \ DynKeys
               PROVE  IF key \notin has_valid
                      THEN best_states[key] = << >> /\ \A r \in MeasuredFor(key) : r.flops = 0
                      ELSE LET n == best_ct[key] + 1
                           IN  /\ n \in DOMAIN measured /\ measured[n].key = key
                               /\ best_score[key] = measured[n].flops
                               /\ best_states[key] = <<measured[n].program>>
                               /\ \A h \in DOMAIN measured : measured[h].key = key =>
                                    /\ measured[h].flops <= measured[n].flops
                                    /\ h < n => measured[h].flops < measured[n].flops
    BY DEF StaticBestIsFirstFastest
  <2>1. /\ FirstFastest(key, Stored(key), measured, ct)
        /\ key \notin has_valid <=> Fails(key, ct)
    BY DEF MeasurerInv, StaticKept
  <2>2. DOMAIN measured = 1 .. ct
    <3>1. measured \in Seq(Entries) /\ Len(measured) = ct
      BY DEF MeasurerInv, StaticKept, TypeOK, Entries
    <3> QED
      BY <3>1
  <2>3. \A h \in 1 .. ct : measured[h].flops \in Nat
    <3>1. \A h \in 1 .. ct : measured[h] \in Entries
      <4> HIDE DEF Entries
      <4>1. measured \in Seq(Entries) /\ Len(measured) = ct
        BY DEF MeasurerInv, StaticKept, TypeOK, Entries
      <4> QED
        BY <4>1
    <3> QED
      BY <3>1, MeasurerAssumption DEF Entries, Flops
  <2>4. CASE key \notin has_valid
    <3>1. \A r \in MeasuredFor(key) : r.flops = 0
      BY <2>1, <2>2, <2>4 DEF MeasuredFor, Fails, Range
    <3>2. best_states[key] = << >>
      BY <2>1, <2>4 DEF FirstFastest, Fails, Stored
    <3> QED
      BY <2>4, <3>1, <3>2
  <2>5. CASE key \in has_valid
    <3>1. ~ Fails(key, ct)
      BY <2>1, <2>5
    <3>2. PICK m : /\ m = best_ct[key] + 1 /\ m \in 1 .. ct
                   /\ measured[m].key = key /\ best_score[key] = measured[m].flops
                   /\ best_states[key] = <<measured[m].program>>
                   /\ \A h \in 1 .. ct : measured[h].key = key =>
                        measured[h].flops <= best_score[key]
                        /\ (h < m => measured[h].flops < best_score[key])
      BY <2>1, <3>1 DEF FirstFastest, Fails, Stored
    <3> QED
      BY <2>2, <2>5, <3>2
  <2> QED
    BY <2>4, <2>5
<1> QED
  BY <1>1, MeasurerInvariant, PTL
=============================================================================
